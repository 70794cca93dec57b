--------------------------- MODULE ObjectStoreProofs ---------------------------
(***************************************************************************)
(* Proofs about ObjectStore, for any erasure pattern, protection and       *)
(* number of failures, crashes and damaged blocks: an object whose close   *)
(* succeeded stays protected and can be read, and the answers of reads,    *)
(* deletions, migrations and stats are true.  What carries the first is    *)
(* that a block is only written again while it is not whole (Busy), so     *)
(* that whole blocks stay (Kept); the answers rest on what each call has   *)
(* done or seen so far.                                                    *)
(***************************************************************************)
EXTENDS ObjectStore, FiniteSetTheorems, TLAPS

-----------------------------------------------------------------------------
(* The invariant *)

Contents == {"none", "part", "full", "other", "junk"}
FileSet == [Files -> Contents]
Steps == {"idle", "open_meta", "open_data", "put", "ready", "set_meta", "rename_data", "rename_meta", "done"}

Typed ==
  /\ fs \in [Blocks -> FileSet] /\ away \in FileSet /\ moved \in Blocks \cup {NoBlock}
  /\ op \in {"none", "write", "rebuild", "delete", "migrate"}
  /\ tpc \in [Pos -> Steps] /\ mfd \in [Pos -> BOOLEAN] /\ derr \in [Pos -> BOOLEAN] /\ merr \in [Pos -> BOOLEAN]
  /\ acked \in BOOLEAN /\ deleted \in BOOLEAN /\ damaged \subseteq Blocks

\* What a writer thread has on storage where it is, as far as it knows of no error.
Working == op \in {"write", "rebuild"}
WorkName(kind) == <<kind, Sfx>>
ThreadOK(i) ==
  /\ tpc[i] = "idle" <=> ~Working
  /\ tpc[i] \in {"ready", "set_meta"} /\ ~derr[i] => fs[Loc(i)][WorkName("data")] = "full"
  /\ tpc[i] = "rename_data" => fs[Loc(i)][WorkName("data")] = "full"
  /\ tpc[i] = "rename_meta" => fs[Loc(i)][DATA] = "full"
  /\ tpc[i] \in {"rename_data", "rename_meta"} /\ ~merr[i] => fs[Loc(i)][WorkName("meta")] = "full"
  /\ tpc[i] = "done" /\ ~derr[i] /\ ~merr[i] => Complete(Loc(i))
ThreadsOK == (op = "write" => ~acked) /\ \A i \in Pos : ThreadOK(i)

\* Blocks that a rebuild is at, and blocks that nothing but the storage can take away.
AwayFull == away[DATA] = "full" /\ away[META] = "full"
Busy(b) == op = "rebuild" /\ \E i \in Pos : Loc(i) = b /\ tpc[i] # "done"
Whole(b) == Complete(b) /\ ~Busy(b)
Kept(b) == b \in damaged \/ Whole(b) \/ (b = moved /\ AwayFull)
KeptSet == {b \in Blocks : Kept(b)}
Needed == Min({N + E, N + MIN_PROTECTION})
Protected == acked /\ ~deleted => Cardinality(KeptSet) >= Needed

\* A migration: the block is whole where it was until it is whole where it goes.
MovedKept == moved # NoBlock => acked /\ (~deleted => Whole(moved) \/ AwayFull)
DelSteps == {"meta.sfx", "meta", "data.sfx", "data"}
NotYet == {"link_data", "link_meta", "unlink_dest", "symlink_data", "symlink_meta",
           "copy_open", "copy_data", "copy_meta", "copy_close_data", "copy_close_meta"}
Already == {"unlink_data", "unlink_meta", "migrated"} \cup DelSteps
MigrateOK ==
  op = "migrate" =>
    /\ cur.b = moved /\ moved \in Blocks /\ cur.step \in NotYet \cup Already
    /\ cur.step \in NotYet => Complete(moved)
    /\ cur.step \in Already => AwayFull
    /\ cur.step \in {"link_meta", "symlink_meta", "copy_close_meta"} => away[DATA] = "full"
    /\ cur.step \in {"copy_meta", "copy_close_data"} => away[<<"data", ".partial">>] = "full"
    /\ cur.step \in {"copy_close_data", "copy_close_meta"} => away[<<"meta", ".partial">>] = "full"

\* A deletion without an error so far: what it has gone through is gone.
NoFiles(b) == \A f \in Files : f[2] # ".rebuild" => fs[b][f] = "none"
DeleteOK ==
  op = "delete" =>
    /\ deleted /\ cur.b \in Blocks /\ cur.step \in DelSteps \cup {"end"}
    /\ cur.ret = 0 =>
         /\ \A b \in Blocks : b < cur.b => NoFiles(b)
         /\ cur.step # "meta.sfx" => fs[cur.b][<<"meta", ".partial">>] = "none"
         /\ cur.step \in {"data.sfx", "data", "end"} => fs[cur.b][META] = "none"
         /\ cur.step \in {"data", "end"} => fs[cur.b][<<"data", ".partial">>] = "none"
         /\ cur.step = "end" => fs[cur.b][DATA] = "none"

\* A reader that has seen, or will see, block i as it was written.
SeesWell(i) ==
  /\ rd.step[i] # "metaread"
  /\ rd.step[i] \in {"meta", "data"} => Whole(Loc(i))
  /\ rd.step[i] \in {"data", "ready"} => rd.m[i] = "full"
  /\ rd.step[i] = "ready" => rd.d[i] = "full"
Seen == {i \in Pos : SeesWell(i)}
ReaderTyped ==
  /\ rd \in [pc : {"idle", "init", "open"}, step : [Pos -> {"meta", "data", "metaread", "ready"}],
             m : [Pos -> Contents], d : [Pos -> Contents], totsz : {rd.totsz},
             res : {"none", "ok", "error"}, safe : BOOLEAN]
  /\ rd.pc = "idle" => rd = NoReader
ReaderOK ==
  /\ ReaderTyped
  /\ rd.pc = "init" => rd.res = "none"
  /\ rd.safe => acked /\ ~deleted /\ moved = NoBlock /\ op \in {"none", "rebuild"}
  /\ rd.safe /\ rd.pc = "init" => Cardinality(Seen) >= N
  /\ ReadSucceeds

\* A stat has seen the blocks below the one it is at, while nobody changes anything.
Below(at) == {b \in Blocks : b < at}
StatOK ==
  st.pc = "scan" =>
    /\ op = "none" /\ st.res = "none" /\ st.max = N + E /\ st.at \in 0 .. N + E
    /\ st.metas = [b \in {c \in Below(st.at) : Readable(fs[c][META])} |-> fs[b][META]]
    /\ st.merr = {b \in Below(st.at) : ~Readable(fs[b][META])}
    /\ st.derr = {b \in Below(st.at) : ~Exists(b, DATA)}

ObjectInv == Typed /\ ThreadsOK /\ Protected /\ MovedKept /\ MigrateOK /\ DeleteOK /\ ReaderOK /\ StatOK

-----------------------------------------------------------------------------
(* Blocks and files *)

\* the numbers of blocks and positions
LEMMA Sizes ==
  /\ N \in Nat \ {0} /\ E \in Nat /\ N + E \in Nat \ {0} /\ Blocks \subseteq Nat
  /\ IsFiniteSet(Blocks) /\ Cardinality(Blocks) = N + E /\ NoBlock \notin Blocks
  /\ Pos = Blocks /\ LastBlock \in Blocks /\ \A b \in Blocks : b <= LastBlock /\ (b # LastBlock => b + 1 \in Blocks)
<1>1. N \in Nat \ {0} /\ E \in Nat /\ N + E \in Nat \ {0}
  BY ObjectAssumption
<1> DEFINE n == N + E - 1
<1>2. n \in Int /\ 0 \in Int /\ ~(0 > n) /\ n - 0 + 1 = N + E
  BY <1>1
<1> HIDE DEF n
<1>3. IsFiniteSet(0 .. n) /\ Cardinality(0 .. n) = n - 0 + 1
  BY <1>2, FS_Interval
<1>4. IsFiniteSet(Blocks) /\ Cardinality(Blocks) = N + E
  BY <1>2, <1>3 DEF Blocks, n
<1> QED BY <1>1, <1>4 DEF Blocks, Pos, NoBlock, LastBlock

\* the remainder of a number that is less than twice the divisor
LEMMA SmallRemainder ==
  ASSUME NEW m \in Nat \ {0}, NEW x \in Nat, x < 2 * m
  PROVE  x % m = IF x < m THEN x ELSE x - m
<1> DEFINE q == x \div m  r == x % m
<1>1. q \in Int /\ r \in 0 .. m - 1 /\ x = m * q + r
  OBVIOUS
<1> HIDE DEF q, r
<1>2. CASE q <= -1
  <2>1. m * q <= m * (-1)
    BY <1>1, <1>2
  <2> QED BY <1>1, <2>1
<1>3. CASE q = 0
  <2>1. x = r
    BY <1>1, <1>3
  <2> QED BY <1>1, <2>1 DEF r
<1>4. CASE q = 1
  <2>1. x = m + r
    BY <1>1, <1>4
  <2> QED BY <1>1, <2>1 DEF r
<1>5. CASE q >= 2
  <2>1. m * q >= m * 2
    BY <1>1, <1>5
  <2> QED BY <1>1, <2>1
<1> QED BY <1>1, <1>2, <1>3, <1>4, <1>5

\* every block is the place of one position
LEMMA Places ==
  /\ \A i \in Pos : Loc(i) \in Blocks
  /\ \A i, j \in Pos : Loc(i) = Loc(j) => i = j
  /\ \A b \in Blocks : \E i \in Pos : Loc(i) = b
<1> DEFINE m == N + E
<1>1. m \in Nat \ {0} /\ O \in 0 .. m - 1 /\ Pos = 0 .. m - 1 /\ Blocks = 0 .. m - 1
  BY ObjectAssumption DEF Pos, Blocks
<1>2. \A i \in 0 .. m - 1 : (i + O) % m = IF i + O < m THEN i + O ELSE i + O - m
  <2> TAKE i \in 0 .. m - 1
  <2> DEFINE x == i + O
  <2>1. x \in Nat /\ x < 2 * m
    BY <1>1
  <2> HIDE DEF m, x
  <2>2. x % m = IF x < m THEN x ELSE x - m
    BY <1>1, <2>1, SmallRemainder
  <2> QED BY <1>1, <2>1, <2>2 DEF x
<1>3. \A i \in Pos : Loc(i) = IF i + O < m THEN i + O ELSE i + O - m
  BY <1>1, <1>2 DEF Loc
<1> HIDE DEF m
<1>4. ASSUME NEW b \in Blocks PROVE \E i \in Pos : Loc(i) = b
  <2>1. CASE b >= O
    <3>1. b - O \in Pos /\ Loc(b - O) = b
      BY <1>1, <1>3, <2>1
    <3> QED BY <3>1
  <2>2. CASE b < O
    <3>1. b - O + m \in Pos /\ Loc(b - O + m) = b
      BY <1>1, <1>3, <2>2
    <3> QED BY <3>1
  <2> QED BY <1>1, <2>1, <2>2
<1>5. \A i \in Pos : Loc(i) \in Blocks
  BY <1>1, <1>3
<1>6. ASSUME NEW i \in Pos, NEW j \in Pos, Loc(i) = Loc(j) PROVE i = j
  <2>1. i \in 0 .. m - 1 /\ j \in 0 .. m - 1
    BY <1>1
  <2>2. (IF i + O < m THEN i + O ELSE i + O - m) = (IF j + O < m THEN j + O ELSE j + O - m)
    BY <1>3, <1>6
  <2> QED BY <1>1, <2>1, <2>2
<1> QED BY <1>4, <1>5, <1>6

\* the files of a block
LEMMA Names ==
  /\ DATA \in Files /\ META \in Files /\ DATA # META
  /\ \A s \in {".partial", ".rebuild"} :
       /\ <<"data", s>> \in Files /\ <<"meta", s>> \in Files /\ <<"data", s>> # <<"meta", s>>
       /\ {<<"data", s>>, <<"meta", s>>} \cap {DATA, META} = {}
  /\ \A f \in Files : f[2] # ".rebuild" => f \in {DATA, META, <<"data", ".partial">>, <<"meta", ".partial">>}
  /\ \A k \in {"data", "meta"} : <<k, "">> \in {DATA, META}
<1>1. DATA \in Files /\ META \in Files /\ DATA # META
  BY DEF Files, Sfxs, DATA, META
<1>2. \A s \in {".partial", ".rebuild"} :
       /\ <<"data", s>> \in Files /\ <<"meta", s>> \in Files /\ <<"data", s>> # <<"meta", s>>
       /\ {<<"data", s>>, <<"meta", s>>} \cap {DATA, META} = {}
  <2> TAKE s \in {".partial", ".rebuild"}
  <2>1. s \in Sfxs /\ s # ""
    BY DEF Sfxs
  <2>2. <<"data", s>> \in Files /\ <<"meta", s>> \in Files
    BY <2>1 DEF Files
  <2>3. <<"data", s>> # <<"meta", s>>
    OBVIOUS
  <2>4. <<"data", s>> \notin {DATA, META} /\ <<"meta", s>> \notin {DATA, META}
    BY <2>1 DEF DATA, META
  <2> QED BY <2>2, <2>3, <2>4
<1>3. ASSUME NEW f \in Files, f[2] # ".rebuild"
      PROVE  f \in {DATA, META, <<"data", ".partial">>, <<"meta", ".partial">>}
  <2>1. PICK k \in {"data", "meta"}, s \in Sfxs : f = <<k, s>>
    BY DEF Files
  <2>2. s \in {"", ".partial"}
    BY <1>3, <2>1 DEF Sfxs
  <2> QED BY <2>1, <2>2 DEF DATA, META
<1>4. \A k \in {"data", "meta"} : <<k, "">> \in {DATA, META}
  BY DEF DATA, META
<1> QED BY <1>1, <1>2, <1>3, <1>4

\* the names a thread works under are not those of the block
LEMMA WorkNames ==
  /\ WorkName("data") \in Files /\ WorkName("meta") \in Files /\ WorkName("data") # WorkName("meta")
  /\ {WorkName("data"), WorkName("meta")} \cap {DATA, META} = {}
<1>1. Sfx \in {".partial", ".rebuild"}
  BY DEF Sfx
<1> QED BY <1>1, Names DEF WorkName

\* one file of one block gets another content
LEMMA FilePut ==
  ASSUME Typed, NEW b \in Blocks, NEW f \in Files, NEW c \in Contents, fs' = [fs EXCEPT ![b][f] = c]
  PROVE  /\ fs' \in [Blocks -> FileSet]
         /\ \A a \in Blocks : a # b => fs'[a] = fs[a]
         /\ \A x \in Files : fs'[b][x] = IF x = f THEN c ELSE fs[b][x]
BY DEF Typed, FileSet

\* a file is renamed into place
LEMMA FileRenamed ==
  ASSUME Typed, NEW b \in Blocks, NEW k \in {"data", "meta"}, fs' = Rename(b, k)
  PROVE  /\ fs' \in [Blocks -> FileSet]
         /\ \A a \in Blocks : a # b => fs'[a] = fs[a]
         /\ \A x \in Files : fs'[b][x] = IF x = <<k, Sfx>> THEN "none"
                                       ELSE IF x = <<k, "">> THEN fs[b][<<k, Sfx>>] ELSE fs[b][x]
<1> DEFINE w == <<k, Sfx>>  p == <<k, "">>
<1>1. w \in Files /\ p \in Files /\ w # p
  BY WorkNames, Names DEF WorkName
<1>2. fs' = [fs EXCEPT ![b][p] = fs[b][w], ![b][w] = "none"]
  BY DEF Rename
<1> HIDE DEF w, p
<1>3. fs \in [Blocks -> FileSet] /\ fs[b] \in [Files -> Contents] /\ fs[b][w] \in Contents
  BY <1>1 DEF Typed, FileSet
<1>4. fs' \in [Blocks -> FileSet]
  BY <1>1, <1>2, <1>3 DEF FileSet, Contents
<1>5. \A a \in Blocks : a # b => fs'[a] = fs[a]
  BY <1>2, <1>3
<1>6. \A x \in Files : fs'[b][x] = IF x = w THEN "none" ELSE IF x = p THEN fs[b][w] ELSE fs[b][x]
  BY <1>1, <1>2, <1>3
<1> QED BY <1>4, <1>5, <1>6 DEF w, p

-----------------------------------------------------------------------------
(* What steps leave as it is *)

\* what a protected object has at least
LEMMA NeededIs == Needed \in Nat /\ Needed = IF MIN_PROTECTION < E THEN N + MIN_PROTECTION ELSE N + E
<1> DEFINE a == N + E  b == N + MIN_PROTECTION
<1>1. a \in Nat /\ b \in Nat /\ (b < a <=> MIN_PROTECTION < E)
  BY ObjectAssumption
<1> HIDE DEF a, b
<1>2. Min({a, b}) = IF b < a THEN b ELSE a
  BY <1>1 DEF Min
<1>3. Min({a, b}) \in Nat /\ Min({a, b}) = IF MIN_PROTECTION < E THEN b ELSE a
  BY <1>1, <1>2
<1> QED BY <1>3 DEF Needed, a, b

\* more blocks, and positions, are not fewer
LEMMA Larger ==
  ASSUME NEW S \in SUBSET Blocks, NEW T \in SUBSET Blocks, S \subseteq T
  PROVE  Cardinality(S) <= Cardinality(T) /\ Cardinality(S) \in Nat /\ Cardinality(T) \in Nat
<1>1. IsFiniteSet(T) /\ IsFiniteSet(S)
  BY Sizes, FS_Subset
<1> QED BY <1>1, FS_Subset, FS_CardinalityType

\* an object stays protected while its blocks are kept
LEMMA ProtectedCarries ==
  ASSUME Protected, acked' => acked, deleted => deleted',
         acked /\ ~deleted' => \A b \in Blocks : Kept(b) => Kept(b)'
  PROVE  Protected'
<1> SUFFICES ASSUME acked', ~deleted' PROVE Cardinality(KeptSet') >= Needed
  BY DEF Protected, Needed
<1>1. KeptSet \subseteq KeptSet' /\ KeptSet \in SUBSET Blocks /\ KeptSet' \in SUBSET Blocks
  BY DEF KeptSet
<1>2. Cardinality(KeptSet) <= Cardinality(KeptSet') /\ Cardinality(KeptSet) \in Nat /\ Cardinality(KeptSet') \in Nat
  BY <1>1, Larger
<1>3. Cardinality(KeptSet) >= Needed
  BY DEF Protected
<1> QED BY <1>2, <1>3, NeededIs

\* a reader that is not moved sees what it did as long as whole blocks stay
LEMMA ReaderCarries ==
  ASSUME ReaderOK, rd' = rd,
         rd.safe => /\ acked' /\ ~deleted' /\ moved' = NoBlock /\ op' \in {"none", "rebuild"}
                    /\ \A b \in Blocks : Whole(b) => Whole(b)'
  PROVE  ReaderOK'
<1>1. ReaderTyped'
  BY DEF ReaderOK, ReaderTyped, NoReader
<1>2. ASSUME rd.safe, rd.pc = "init" PROVE Cardinality(Seen') >= N
  <2>1. Seen \subseteq Seen'
    <3> SUFFICES ASSUME NEW i \in Pos, SeesWell(i) PROVE SeesWell(i)'
      BY DEF Seen
    <3>1. Whole(Loc(i)) => Whole(Loc(i))'
      BY <1>2, Places
    <3> QED BY <3>1 DEF SeesWell
  <2>2. Seen \in SUBSET Blocks /\ Seen' \in SUBSET Blocks
    BY Sizes DEF Seen
  <2>3. Cardinality(Seen) <= Cardinality(Seen') /\ Cardinality(Seen) \in Nat /\ Cardinality(Seen') \in Nat
    BY <2>1, <2>2, Larger
  <2>4. Cardinality(Seen) >= N
    BY <1>2 DEF ReaderOK
  <2> QED BY <2>3, <2>4, Sizes
<1> QED BY <1>1, <1>2 DEF ReaderOK, ReadSucceeds

\* a stat that is not moved goes on while nothing changes
LEMMA StatCarries ==
  ASSUME StatOK, st' = st, st.pc = "scan" => op' = op /\ fs' = fs
  PROVE  StatOK'
BY DEF StatOK, Below, Exists

\* what only matters in a deletion or a migration
LEMMA OtherCalls ==
  ASSUME op' \notin {"migrate", "delete"}
  PROVE  MigrateOK' /\ DeleteOK'
BY DEF MigrateOK, DeleteOK

-----------------------------------------------------------------------------
(* The writer threads *)

\* A step of the thread of position i: it changes its own block only, which is not whole, and
\* knows afterwards what it should; a damaged block that is written again is complete.
ThreadStep(i) ==
  /\ fs' \in [Blocks -> FileSet] /\ \A b \in Blocks : b # Loc(i) => fs'[b] = fs[b]
  /\ UNCHANGED <<away, op, cur, rd, st, moved, acked, deleted>>
  /\ tpc' \in [Pos -> Steps] /\ mfd' \in [Pos -> BOOLEAN]
  /\ derr' \in [Pos -> BOOLEAN] /\ merr' \in [Pos -> BOOLEAN]
  /\ \A j \in Pos : j # i => tpc'[j] = tpc[j] /\ derr'[j] = derr[j] /\ merr'[j] = merr[j]
  /\ tpc[i] \notin {"idle", "done"} /\ ThreadOK(i)'
  /\ damaged' \subseteq damaged
  /\ \A b \in damaged \ damaged' : b = Loc(i) /\ tpc'[i] = "done" /\ Complete(b)'

\* the other blocks are as whole as they were, and this one becomes so when the thread is done
LEMMA ThreadWhole ==
  ASSUME NEW i \in Pos, ThreadStep(i)
  PROVE  /\ \A b \in Blocks : b # Loc(i) => (Whole(b)' <=> Whole(b))
         /\ op = "rebuild" => ~Whole(Loc(i))
         /\ tpc'[i] = "done" /\ Complete(Loc(i))' => Whole(Loc(i))'
<1>1. op' = op /\ tpc[i] # "done"
  BY DEF ThreadStep
<1>2. ASSUME NEW b \in Blocks, b # Loc(i) PROVE Whole(b)' <=> Whole(b)
  <2>1. fs'[b] = fs[b]
    BY <1>2 DEF ThreadStep
  <2>2. Complete(b)' <=> Complete(b)
    BY <2>1 DEF Complete
  <2>3. \A j \in Pos : Loc(j) = b => tpc'[j] = tpc[j]
    BY <1>2 DEF ThreadStep
  <2>4. Busy(b)' <=> Busy(b)
    BY <1>1, <2>3 DEF Busy
  <2> QED BY <2>2, <2>4 DEF Whole
<1>3. op = "rebuild" => ~Whole(Loc(i))
  BY <1>1 DEF Whole, Busy
<1>4. ASSUME tpc'[i] = "done", Complete(Loc(i))' PROVE Whole(Loc(i))'
  <2>1. ~Busy(Loc(i))'
    BY <1>4, Places DEF Busy
  <2> QED BY <1>4, <2>1 DEF Whole
<1> QED BY <1>2, <1>3, <1>4

\* so the invariant is kept
LEMMA ThreadStepInv ==
  ASSUME ObjectInv, NEW i \in Pos, ThreadStep(i)
  PROVE  ObjectInv'
<1>1. /\ op' = op /\ Working /\ rd' = rd /\ st' = st /\ acked' = acked /\ deleted' = deleted
      /\ moved' = moved /\ away' = away /\ tpc[i] # "done"
  BY DEF ObjectInv, ThreadsOK, ThreadOK, ThreadStep
<1>2. Typed'
  BY DEF ObjectInv, Typed, ThreadStep
<1>3. ThreadsOK'
  <2>1. ASSUME NEW j \in Pos, j # i PROVE ThreadOK(j)'
    <3>1. fs'[Loc(j)] = fs[Loc(j)] /\ tpc'[j] = tpc[j] /\ derr'[j] = derr[j] /\ merr'[j] = merr[j]
      BY <2>1, Places DEF ThreadStep
    <3>2. WorkName("data")' = WorkName("data") /\ WorkName("meta")' = WorkName("meta") /\ Working' = Working
      BY <1>1 DEF WorkName, Sfx, Working
    <3>3. Complete(Loc(j))' <=> Complete(Loc(j))
      BY <3>1 DEF Complete
    <3>4. ThreadOK(j)
      BY DEF ObjectInv, ThreadsOK
    <3> QED BY <3>1, <3>2, <3>3, <3>4 DEF ThreadOK
  <2>2. ThreadOK(i)'
    BY DEF ThreadStep
  <2>3. op' = "write" => ~acked'
    BY <1>1 DEF ObjectInv, ThreadsOK
  <2> QED BY <2>1, <2>2, <2>3 DEF ThreadsOK
<1>4. acked => op = "rebuild"
  BY <1>1 DEF ObjectInv, ThreadsOK, Working
<1>5. ASSUME acked, NEW b \in Blocks, Kept(b) PROVE Kept(b)'
  <2>1. CASE b # Loc(i)
    BY <1>1, <1>5, <2>1, ThreadWhole DEF Kept, ThreadStep, AwayFull
  <2>2. CASE b = Loc(i) /\ b \in damaged
    <3>1. b \notin damaged' => Whole(b)'
      BY <2>2, ThreadWhole DEF ThreadStep
    <3> QED BY <3>1 DEF Kept
  <2>3. CASE b = Loc(i) /\ b \notin damaged
    BY <1>1, <1>4, <1>5, <2>3, ThreadWhole DEF Kept, AwayFull
  <2> QED BY <2>1, <2>2, <2>3
<1>6. Protected'
  BY <1>1, <1>5, ProtectedCarries DEF ObjectInv
<1>7. MovedKept'
  <2> SUFFICES ASSUME moved # NoBlock, ~deleted PROVE acked /\ (Whole(moved)' \/ AwayFull)
    BY <1>1 DEF MovedKept, AwayFull, ObjectInv
  <2>1. acked /\ (Whole(moved) \/ AwayFull) /\ moved \in Blocks
    BY DEF ObjectInv, MovedKept, Typed
  <2> QED BY <1>1, <1>4, <2>1, ThreadWhole
<1>8. MigrateOK' /\ DeleteOK'
  BY <1>1, OtherCalls DEF Working
<1>9. ReaderOK'
  <2>1. ReaderOK
    BY DEF ObjectInv
  <2>2. ASSUME rd.safe PROVE /\ acked' /\ ~deleted' /\ moved' = NoBlock /\ op' \in {"none", "rebuild"}
                             /\ \A b \in Blocks : Whole(b) => Whole(b)'
    BY <1>1, <1>4, <2>1, <2>2, ThreadWhole DEF ReaderOK
  <2> QED BY <1>1, <2>1, <2>2, ReaderCarries
<1>10. StatOK'
  <2>1. st.pc # "scan" /\ StatOK
    BY <1>1 DEF ObjectInv, StatOK, Working
  <2> QED BY <1>1, <2>1, StatCarries
<1> QED BY <1>2, <1>3, <1>6, <1>7, <1>8, <1>9, <1>10 DEF ObjectInv

\* what a thread at work may assume
LEMMA ThreadStart ==
  ASSUME ObjectInv, NEW i \in Pos, tpc[i] # "idle"
  PROVE  /\ Typed /\ ThreadOK(i) /\ Working /\ Loc(i) \in Blocks
         /\ op' = op => WorkName("data")' = WorkName("data") /\ WorkName("meta")' = WorkName("meta") /\ Working'
BY Places DEF ObjectInv, ThreadsOK, ThreadOK, WorkName, Sfx, Working

\* what threads write
LEMMA PartOrFull == {"part", "full"} \subseteq Contents
BY DEF Contents

\* a step of a thread changes its own variables
LEMMA ThreadMoves ==
  ASSUME Typed, NEW i \in Pos, NEW s \in Steps, Step(i, s)
  PROVE  tpc' \in [Pos -> Steps] /\ tpc'[i] = s /\ \A j \in Pos : j # i => tpc'[j] = tpc[j]
BY DEF Typed, Step

\* posix_open(), first half
LEMMA OpenMetaKeeps == ASSUME ObjectInv, NEW i \in Pos, posix_open_meta(i) PROVE ObjectInv'
<1> SUFFICES ThreadStep(i)
  BY ThreadStepInv
<1>0. Typed /\ Loc(i) \in Blocks /\ WorkName("data") \in Files /\ WorkName("meta") \in Files
  BY WorkNames, Places DEF ObjectInv
<1>1. tpc[i] = "open_meta" /\ Step(i, "open_data") /\ UNCHANGED <<away, op, derr, merr, cur, ret, rd, st, histVars>>
  BY DEF posix_open_meta
<1>2. tpc' \in [Pos -> Steps] /\ tpc'[i] = "open_data" /\ \A j \in Pos : j # i => tpc'[j] = tpc[j]
  BY <1>1, ThreadStart, ThreadMoves DEF Steps
<1>3. fs' \in [Blocks -> FileSet] /\ (\A b \in Blocks : b # Loc(i) => fs'[b] = fs[b]) /\ mfd' \in [Pos -> BOOLEAN]
  <2>1. CASE fs' = [fs EXCEPT ![Loc(i)][<<"meta", Sfx>>] = "part"] /\ mfd' = [mfd EXCEPT ![i] = TRUE]
    <3>1. fs' \in [Blocks -> FileSet] /\ \A b \in Blocks : b # Loc(i) => fs'[b] = fs[b]
      BY <1>0, <2>1, PartOrFull, FilePut, WorkNames DEF WorkName
    <3> QED BY <1>1, <2>1, <3>1, ThreadStart DEF Typed
  <2>2. CASE UNCHANGED <<fs, mfd>>
    BY <1>1, <2>2, ThreadStart DEF Typed
  <2> QED BY <2>1, <2>2 DEF posix_open_meta
<1>4. ThreadOK(i)'
  BY <1>1, <1>2, ThreadStart DEF ThreadOK
<1> QED BY <1>1, <1>2, <1>3, <1>4, ThreadStart DEF ThreadStep, Typed, histVars

\* posix_open(), second half
LEMMA OpenDataKeeps == ASSUME ObjectInv, NEW i \in Pos, posix_open_data(i) PROVE ObjectInv'
<1> SUFFICES ThreadStep(i)
  BY ThreadStepInv
<1>0. Typed /\ Loc(i) \in Blocks /\ WorkName("data") \in Files /\ WorkName("meta") \in Files
  BY WorkNames, Places DEF ObjectInv
<1>1. tpc[i] = "open_data" /\ UNCHANGED <<away, op, merr, cur, ret, rd, st, histVars>>
  BY DEF posix_open_data
<1>2. CASE fs' = [fs EXCEPT ![Loc(i)][<<"data", Sfx>>] = "part"] /\ Step(i, "put") /\ UNCHANGED <<mfd, derr>>
  <2>1. tpc' \in [Pos -> Steps] /\ tpc'[i] = "put" /\ \A j \in Pos : j # i => tpc'[j] = tpc[j]
    BY <1>1, <1>2, ThreadStart, ThreadMoves DEF Steps
  <2>2. fs' \in [Blocks -> FileSet] /\ \A b \in Blocks : b # Loc(i) => fs'[b] = fs[b]
    BY <1>0, <1>2, PartOrFull, FilePut, WorkNames DEF WorkName
  <2>3. ThreadOK(i)'
    BY <1>1, <2>1, ThreadStart DEF ThreadOK
  <2> QED BY <1>1, <1>2, <2>1, <2>2, <2>3, ThreadStart DEF ThreadStep, Typed, histVars
<1>3. CASE Step(i, "ready") /\ derr' = [derr EXCEPT ![i] = TRUE] /\ mfd' = [mfd EXCEPT ![i] = FALSE] /\ UNCHANGED fs
  <2>1. tpc' \in [Pos -> Steps] /\ tpc'[i] = "ready" /\ \A j \in Pos : j # i => tpc'[j] = tpc[j]
    BY <1>1, <1>3, ThreadStart, ThreadMoves DEF Steps
  <2>2. /\ derr' \in [Pos -> BOOLEAN] /\ mfd' \in [Pos -> BOOLEAN] /\ derr'[i] = TRUE
        /\ \A j \in Pos : j # i => derr'[j] = derr[j]
    BY <1>1, <1>3, ThreadStart DEF Typed
  <2>3. ThreadOK(i)'
    BY <1>1, <2>1, <2>2, ThreadStart DEF ThreadOK
  <2> QED BY <1>1, <1>3, <2>1, <2>2, <2>3, ThreadStart DEF ThreadStep, Typed, histVars
<1> QED BY <1>2, <1>3 DEF posix_open_data

\* posix_put()
LEMMA PutKeeps == ASSUME ObjectInv, NEW i \in Pos, posix_put(i) PROVE ObjectInv'
<1> SUFFICES ThreadStep(i)
  BY ThreadStepInv
<1>0. Typed /\ Loc(i) \in Blocks /\ WorkName("data") \in Files /\ WorkName("meta") \in Files
  BY WorkNames, Places DEF ObjectInv
<1>1. tpc[i] = "put" /\ Step(i, "ready") /\ UNCHANGED <<away, op, mfd, merr, cur, ret, rd, st, histVars>>
  BY DEF posix_put
<1>2. tpc' \in [Pos -> Steps] /\ tpc'[i] = "ready" /\ \A j \in Pos : j # i => tpc'[j] = tpc[j]
  BY <1>1, ThreadStart, ThreadMoves DEF Steps
<1>3. CASE fs' = [fs EXCEPT ![Loc(i)][<<"data", Sfx>>] = "full"] /\ UNCHANGED derr
  <2>1. /\ fs' \in [Blocks -> FileSet] /\ \A b \in Blocks : b # Loc(i) => fs'[b] = fs[b]
        /\ fs'[Loc(i)][WorkName("data")] = "full"
    <3> DEFINE w == WorkName("data")
    <3>1. fs' = [fs EXCEPT ![Loc(i)][w] = "full"]
      BY <1>3 DEF WorkName
    <3> HIDE DEF w
    <3>2. /\ fs' \in [Blocks -> FileSet] /\ \A b \in Blocks : b # Loc(i) => fs'[b] = fs[b]
          /\ \A x \in Files : fs'[Loc(i)][x] = IF x = w THEN "full" ELSE fs[Loc(i)][x]
      <4>1. w \in Files /\ "full" \in Contents
        BY <1>0, PartOrFull DEF w
      <4> QED BY <1>0, <3>1, <4>1 DEF Typed, FileSet
    <3> QED BY <1>0, <3>2 DEF w
  <2>2. ThreadOK(i)'
    BY <1>1, <1>2, <2>1, ThreadStart DEF ThreadOK
  <2> QED BY <1>1, <1>2, <1>3, <2>1, <2>2, ThreadStart DEF ThreadStep, Typed, histVars
<1>4. CASE derr' = [derr EXCEPT ![i] = TRUE] /\ UNCHANGED fs
  <2>1. derr' \in [Pos -> BOOLEAN] /\ derr'[i] = TRUE /\ \A j \in Pos : j # i => derr'[j] = derr[j]
    BY <1>1, <1>4, ThreadStart DEF Typed
  <2>2. ThreadOK(i)'
    BY <1>1, <1>2, <2>1, ThreadStart DEF ThreadOK
  <2> QED BY <1>1, <1>2, <1>4, <2>1, <2>2, ThreadStart DEF ThreadStep, Typed, histVars
<1> QED BY <1>3, <1>4 DEF posix_put

\* write_term()
LEMMA SetMetaKeeps == ASSUME ObjectInv, NEW i \in Pos, posix_set_meta(i) PROVE ObjectInv'
<1> SUFFICES ThreadStep(i)
  BY ThreadStepInv
<1>0. Typed /\ Loc(i) \in Blocks /\ WorkName("data") \in Files /\ WorkName("meta") \in Files
  BY WorkNames, Places DEF ObjectInv
<1>1. /\ tpc[i] = "set_meta" /\ Step(i, IF derr[i] THEN "done" ELSE "rename_data")
      /\ UNCHANGED <<away, op, mfd, derr, cur, ret, rd, st, histVars>>
  BY DEF posix_set_meta
<1>2. /\ tpc' \in [Pos -> Steps] /\ tpc'[i] = IF derr[i] THEN "done" ELSE "rename_data"
      /\ \A j \in Pos : j # i => tpc'[j] = tpc[j]
  BY <1>1, ThreadStart, ThreadMoves DEF Steps
<1>3. CASE fs' = [fs EXCEPT ![Loc(i)][<<"meta", Sfx>>] = "full"] /\ UNCHANGED merr
  <2>1. /\ fs' \in [Blocks -> FileSet] /\ \A b \in Blocks : b # Loc(i) => fs'[b] = fs[b]
        /\ fs'[Loc(i)][WorkName("meta")] = "full" /\ fs'[Loc(i)][WorkName("data")] = fs[Loc(i)][WorkName("data")]
    <3> DEFINE w == WorkName("meta")
    <3>1. fs' = [fs EXCEPT ![Loc(i)][w] = "full"]
      BY <1>3 DEF WorkName
    <3> HIDE DEF w
    <3>2. /\ fs' \in [Blocks -> FileSet] /\ \A b \in Blocks : b # Loc(i) => fs'[b] = fs[b]
          /\ \A x \in Files : fs'[Loc(i)][x] = IF x = w THEN "full" ELSE fs[Loc(i)][x]
      <4>1. w \in Files /\ "full" \in Contents
        BY <1>0, PartOrFull DEF w
      <4> QED BY <1>0, <3>1, <4>1 DEF Typed, FileSet
    <3> QED BY <1>0, <3>2, WorkNames DEF w
  <2>2. ThreadOK(i)'
    BY <1>1, <1>2, <2>1, ThreadStart DEF ThreadOK
  <2> QED BY <1>1, <1>2, <1>3, <2>1, <2>2, ThreadStart DEF ThreadStep, Typed, histVars
<1>4. CASE merr' = [merr EXCEPT ![i] = TRUE] /\ UNCHANGED fs
  <2>1. merr' \in [Pos -> BOOLEAN] /\ merr'[i] = TRUE /\ \A j \in Pos : j # i => merr'[j] = merr[j]
    BY <1>1, <1>4, ThreadStart DEF Typed
  <2>2. ThreadOK(i)'
    BY <1>1, <1>2, <1>4, <2>1, ThreadStart DEF ThreadOK
  <2> QED BY <1>1, <1>2, <1>4, <2>1, <2>2, ThreadStart DEF ThreadStep, Typed, histVars
<1> QED BY <1>3, <1>4 DEF posix_set_meta

\* posix_close(), first half
LEMMA CloseDataKeeps == ASSUME ObjectInv, NEW i \in Pos, posix_close_data(i) PROVE ObjectInv'
<1> SUFFICES ThreadStep(i)
  BY ThreadStepInv
<1>0. Typed /\ Loc(i) \in Blocks /\ WorkName("data") \in Files /\ WorkName("meta") \in Files
  BY WorkNames, Places DEF ObjectInv
<1>1. tpc[i] = "rename_data" /\ UNCHANGED <<away, op, mfd, merr, cur, ret, rd, st, histVars>>
  BY DEF posix_close_data
<1>2. CASE fs' = Rename(Loc(i), "data") /\ Step(i, "rename_meta") /\ UNCHANGED derr
  <2>1. tpc' \in [Pos -> Steps] /\ tpc'[i] = "rename_meta" /\ \A j \in Pos : j # i => tpc'[j] = tpc[j]
    BY <1>1, <1>2, ThreadStart, ThreadMoves DEF Steps
  <2>2. /\ fs' \in [Blocks -> FileSet] /\ (\A b \in Blocks : b # Loc(i) => fs'[b] = fs[b])
        /\ \A x \in Files : fs'[Loc(i)][x] = IF x = <<"data", Sfx>> THEN "none"
                              ELSE IF x = <<"data", "">> THEN fs[Loc(i)][<<"data", Sfx>>] ELSE fs[Loc(i)][x]
    BY <1>1, <1>2, <1>0, FileRenamed
  <2>3. /\ fs'[Loc(i)][DATA] = fs[Loc(i)][WorkName("data")]
        /\ fs'[Loc(i)][WorkName("meta")] = fs[Loc(i)][WorkName("meta")]
    BY <2>2, WorkNames, Names DEF WorkName, DATA, META
  <2>4. ThreadOK(i)'
    BY <1>1, <1>2, <2>1, <2>3, ThreadStart DEF ThreadOK
  <2> QED BY <1>1, <1>2, <2>1, <2>2, <2>4, ThreadStart DEF ThreadStep, Typed, histVars
<1>3. CASE CloseFailed(i) /\ Step(i, "done") /\ UNCHANGED fs
  <2>1. tpc' \in [Pos -> Steps] /\ tpc'[i] = "done" /\ \A j \in Pos : j # i => tpc'[j] = tpc[j]
    BY <1>1, <1>3, ThreadStart, ThreadMoves DEF Steps
  <2>2. derr' \in [Pos -> BOOLEAN] /\ derr'[i] = TRUE /\ \A j \in Pos : j # i => derr'[j] = derr[j]
    BY <1>1, <1>3, ThreadStart DEF Typed, CloseFailed
  <2>3. ThreadOK(i)'
    BY <1>1, <2>1, <2>2, ThreadStart DEF ThreadOK
  <2> QED BY <1>1, <1>3, <2>1, <2>2, <2>3, ThreadStart DEF ThreadStep, Typed, histVars
<1> QED BY <1>2, <1>3 DEF posix_close_data

\* posix_close(), second half
LEMMA CloseMetaKeeps == ASSUME ObjectInv, NEW i \in Pos, posix_close_meta(i) PROVE ObjectInv'
<1> SUFFICES ThreadStep(i)
  BY ThreadStepInv
<1>0. Typed /\ Loc(i) \in Blocks /\ WorkName("data") \in Files /\ WorkName("meta") \in Files
  BY WorkNames, Places DEF ObjectInv
<1>1. /\ tpc[i] = "rename_meta" /\ Step(i, "done")
      /\ UNCHANGED <<away, op, mfd, merr, cur, ret, rd, st, moved, acked, deleted>>
  BY DEF posix_close_meta
<1>2. tpc' \in [Pos -> Steps] /\ tpc'[i] = "done" /\ \A j \in Pos : j # i => tpc'[j] = tpc[j]
  BY <1>1, ThreadStart, ThreadMoves DEF Steps
<1>3. CASE /\ fs' = Rename(Loc(i), "meta") /\ UNCHANGED derr
           /\ damaged' = IF merr[i] THEN damaged ELSE damaged \ {Loc(i)}
  <2>1. /\ fs' \in [Blocks -> FileSet] /\ (\A b \in Blocks : b # Loc(i) => fs'[b] = fs[b])
        /\ \A x \in Files : fs'[Loc(i)][x] = IF x = <<"meta", Sfx>> THEN "none"
                              ELSE IF x = <<"meta", "">> THEN fs[Loc(i)][<<"meta", Sfx>>] ELSE fs[Loc(i)][x]
    BY <1>1, <1>3, <1>0, FileRenamed
  <2>2. fs'[Loc(i)][META] = fs[Loc(i)][WorkName("meta")] /\ fs'[Loc(i)][DATA] = fs[Loc(i)][DATA]
    BY <2>1, WorkNames, Names DEF WorkName, DATA, META
  <2>3. ~merr[i] => Complete(Loc(i))'
    BY <1>1, <2>2, ThreadStart DEF ThreadOK, Complete
  <2>4. ThreadOK(i)'
    BY <1>1, <1>2, <1>3, <2>3, ThreadStart DEF ThreadOK
  <2> QED BY <1>1, <1>2, <1>3, <2>1, <2>3, <2>4, ThreadStart DEF ThreadStep, Typed
<1>4. CASE CloseFailed(i) /\ UNCHANGED <<fs, damaged>>
  <2>1. derr' \in [Pos -> BOOLEAN] /\ derr'[i] = TRUE /\ \A j \in Pos : j # i => derr'[j] = derr[j]
    BY <1>1, <1>4, ThreadStart DEF Typed, CloseFailed
  <2>2. ThreadOK(i)'
    BY <1>1, <1>2, <2>1, ThreadStart DEF ThreadOK
  <2> QED BY <1>1, <1>2, <1>4, <2>1, <2>2, ThreadStart DEF ThreadStep, Typed
<1> QED BY <1>3, <1>4 DEF posix_close_meta

-----------------------------------------------------------------------------
(* Counting blocks and positions *)

\* so many positions take up as many blocks
LEMMA CountPlaces ==
  ASSUME NEW S \in SUBSET Pos, NEW T \in SUBSET Blocks, \A i \in S : Loc(i) \in T
  PROVE  Cardinality(S) <= Cardinality(T) /\ Cardinality(S) \in Nat /\ Cardinality(T) \in Nat
<1> DEFINE f == [i \in S |-> Loc(i)]
<1>1. f \in Injection(S, T)
  BY Places DEF Injection, IsInjective
<1>2. IsFiniteSet(T) /\ IsFiniteSet(S)
  BY Sizes, FS_Subset
<1> HIDE DEF f
<1> QED BY <1>1, <1>2, FS_Injection, FS_CardinalityType

\* so many blocks have as many positions
LEMMA CountPositions ==
  ASSUME NEW T \in SUBSET Blocks, NEW S \in SUBSET Pos, \A i \in Pos : Loc(i) \in T => i \in S
  PROVE  Cardinality(T) <= Cardinality(S) /\ Cardinality(S) \in Nat /\ Cardinality(T) \in Nat
<1> DEFINE at(b) == CHOOSE i \in Pos : Loc(i) = b
           f == [b \in T |-> at(b)]
<1>1. \A b \in Blocks : at(b) \in Pos /\ Loc(at(b)) = b
  BY Places
<1> HIDE DEF at
<1>2. \A b \in T : at(b) \in S
  BY <1>1
<1>3. f \in [T -> S]
  BY <1>2
<1>4. \A a, b \in T : at(a) = at(b) => a = b
  BY <1>1
<1>5. f \in Injection(T, S)
  BY <1>3, <1>4 DEF Injection, IsInjective
<1>6. IsFiniteSet(T) /\ IsFiniteSet(S)
  BY Sizes, FS_Subset
<1> HIDE DEF f
<1> QED BY <1>5, <1>6, FS_Injection, FS_CardinalityType

\* what is left of the blocks when some have failed
LEMMA CountRest ==
  ASSUME NEW S \in SUBSET Pos
  PROVE  /\ Cardinality(Pos \ S) = N + E - Cardinality(S)
         /\ Cardinality(Pos \ S) \in Nat /\ Cardinality(S) \in Nat
<1>1. IsFiniteSet(Pos) /\ Cardinality(Pos) = N + E
  BY Sizes
<1>2. IsFiniteSet(Pos \ S) /\ Cardinality(Pos \ S) = Cardinality(Pos) - Cardinality(S)
  <2>1. Pos \cap S = S
    OBVIOUS
  <2>2. IsFiniteSet(Pos \ S) /\ Cardinality(Pos \ S) = Cardinality(Pos) - Cardinality(Pos \cap S)
    BY <1>1, FS_Difference
  <2> QED BY <2>1, <2>2
<1>3. IsFiniteSet(S)
  BY <1>1, FS_Subset
<1>4. Cardinality(Pos \ S) \in Nat
  BY <1>2, FS_CardinalityType
<1>5. Cardinality(S) \in Nat
  BY <1>3, FS_CardinalityType
<1> DEFINE all == Cardinality(Pos)  rest == Cardinality(Pos \ S)  some == Cardinality(S)
<1>6. rest = N + E - some
  <2>1. all = N + E /\ rest = all - some /\ some \in Nat /\ rest \in Nat /\ N \in Nat /\ E \in Nat
    BY <1>1, <1>2, <1>4, <1>5, ObjectAssumption
  <2> HIDE DEF all, rest, some
  <2> QED BY <2>1
<1> QED BY <1>4, <1>5, <1>6

-----------------------------------------------------------------------------
(* Calls that begin and end *)

\* while nobody writes, no thread is there
LEMMA NoThreadsWork ==
  ASSUME Typed', ~Working', \A i \in Pos : tpc'[i] = "idle"
  PROVE  ThreadsOK'
BY DEF ThreadsOK, ThreadOK, Working

\* threads that are freed
LEMMA Freed ==
  ASSUME FreeThreads
  PROVE  /\ tpc' \in [Pos -> Steps] /\ mfd' \in [Pos -> BOOLEAN] /\ derr' \in [Pos -> BOOLEAN]
         /\ merr' \in [Pos -> BOOLEAN] /\ \A i \in Pos : tpc'[i] = "idle"
BY DEF FreeThreads, NoErrs, Steps

\* the call ends, or dies, and leaves everything as it is
LEMMA CallEnds ==
  ASSUME ObjectInv, op' = "none", UNCHANGED <<fs, away, rd, st, histVars>>, op # "none",
         tpc' \in [Pos -> Steps], mfd' \in [Pos -> BOOLEAN], derr' \in [Pos -> BOOLEAN],
         merr' \in [Pos -> BOOLEAN], \A i \in Pos : tpc'[i] = "idle"
  PROVE  ObjectInv'
<1>1. Typed'
  BY DEF ObjectInv, Typed, histVars
<1>2. ThreadsOK'
  BY <1>1, NoThreadsWork DEF Working
<1>3. \A b \in Blocks : Whole(b) => Whole(b)'
  BY DEF Whole, Complete, Busy
<1>4. Protected'
  <2>1. \A b \in Blocks : Kept(b) => Kept(b)'
    BY <1>3 DEF Kept, AwayFull, histVars
  <2> QED BY <2>1, ProtectedCarries DEF ObjectInv, histVars
<1>5. MovedKept'
  <2>1. moved \in Blocks \cup {NoBlock} /\ moved' = moved /\ acked' = acked /\ deleted' = deleted /\ away' = away
    BY DEF ObjectInv, Typed, histVars
  <2> QED BY <1>3, <2>1 DEF MovedKept, AwayFull, ObjectInv
<1>6. MigrateOK' /\ DeleteOK'
  BY OtherCalls
<1>7. ReaderOK'
  BY <1>3, ReaderCarries DEF ObjectInv, ReaderOK, histVars
<1>8. StatOK'
  BY StatCarries DEF ObjectInv, StatOK
<1> QED BY <1>1, <1>2, <1>4, <1>5, <1>6, <1>7, <1>8 DEF ObjectInv

\* the process dies
LEMMA CrashKeeps == ASSUME ObjectInv, Crash PROVE ObjectInv'
BY Freed, CallEnds DEF Crash

\* ne_rebuild() ends
LEMMA RebuildDoneKeeps == ASSUME ObjectInv, ne_rebuild_done PROVE ObjectInv'
BY Freed, CallEnds DEF ne_rebuild_done, AllDone

\* ne_open() for writing: nothing of the object is there yet
LEMMA OpenWriteKeeps == ASSUME ObjectInv, ne_open_write PROVE ObjectInv'
<1>1. /\ op = "none" /\ st.pc = "idle" /\ ~acked /\ op' = "write" /\ tpc' = [i \in Pos |-> "open_meta"]
      /\ UNCHANGED <<fs, away, mfd, derr, merr, rd, st, moved, acked, deleted, damaged>>
  BY DEF ne_open_write, Free, histVars
<1>2. Typed'
  BY <1>1 DEF ObjectInv, Typed, Steps
<1>3. ThreadsOK'
  BY <1>1 DEF ThreadsOK, ThreadOK, Working
<1>4. Protected' /\ MovedKept'
  BY <1>1 DEF ObjectInv, Protected, MovedKept
<1>5. MigrateOK' /\ DeleteOK'
  BY <1>1, OtherCalls
<1>6. ReaderOK'
  BY <1>1, ReaderCarries DEF ObjectInv, ReaderOK
<1>7. StatOK'
  BY <1>1, StatCarries DEF ObjectInv
<1> QED BY <1>2, <1>3, <1>4, <1>5, <1>6, <1>7 DEF ObjectInv

\* ne_rebuild(): only blocks that are not complete are written
LEMMA RebuildKeeps == ASSUME ObjectInv, ne_rebuild PROVE ObjectInv'
<1>1. /\ op = "none" /\ st.pc = "idle" /\ op' = "rebuild"
      /\ tpc' = [i \in Pos |-> IF Bad(i) THEN "open_meta" ELSE "done"]
      /\ UNCHANGED <<fs, away, mfd, derr, merr, rd, st, moved, acked, deleted, damaged>>
  BY DEF ne_rebuild, Free, histVars
<1>2. Typed'
  BY <1>1 DEF ObjectInv, Typed, Steps
<1>3. ThreadsOK'
  <2> SUFFICES ASSUME NEW i \in Pos PROVE ThreadOK(i)'
    BY <1>1 DEF ThreadsOK
  <2>1. Complete(Loc(i))' <=> Complete(Loc(i))
    BY <1>1 DEF Complete
  <2>2. tpc'[i] = IF Bad(i) THEN "open_meta" ELSE "done"
    BY <1>1
  <2> QED BY <1>1, <2>1, <2>2 DEF ThreadOK, Working, Bad
<1>4. \A b \in Blocks : Whole(b) => Whole(b)'
  <2> SUFFICES ASSUME NEW b \in Blocks, Complete(b) PROVE Complete(b)' /\ ~Busy(b)'
    BY DEF Whole
  <2> QED BY <1>1 DEF Complete, Busy, Bad
<1>5. Protected'
  <2>1. \A b \in Blocks : Kept(b) => Kept(b)'
    BY <1>1, <1>4 DEF Kept, AwayFull
  <2> QED BY <1>1, <2>1, ProtectedCarries DEF ObjectInv
<1>6. MovedKept'
  <2>1. moved \in Blocks \cup {NoBlock}
    BY DEF ObjectInv, Typed
  <2> QED BY <1>1, <1>4, <2>1 DEF MovedKept, AwayFull, ObjectInv
<1>7. MigrateOK' /\ DeleteOK'
  BY <1>1, OtherCalls
<1>8. ReaderOK'
  BY <1>1, <1>4, ReaderCarries DEF ObjectInv, ReaderOK
<1>9. StatOK'
  BY <1>1, StatCarries DEF ObjectInv
<1> QED BY <1>2, <1>3, <1>5, <1>6, <1>7, <1>8, <1>9 DEF ObjectInv

\* ne_close() and the end of ne_rebuild(): all threads are told to finish
LEMMA FinishKeeps == ASSUME ObjectInv, ne_finish PROVE ObjectInv'
<1>1. /\ op \in {"write", "rebuild"} /\ op' = op /\ (\A i \in Pos : tpc[i] \in {"ready", "done"})
      /\ tpc' = [i \in Pos |-> IF tpc[i] = "ready" THEN "set_meta" ELSE tpc[i]]
      /\ UNCHANGED <<fs, away, mfd, derr, merr, rd, st, moved, acked, deleted, damaged>>
  BY DEF ne_finish, Finishing, histVars
<1>2. Typed'
  BY <1>1 DEF ObjectInv, Typed, Steps
<1>3. ThreadsOK'
  <2>1. ASSUME NEW i \in Pos PROVE ThreadOK(i)'
    <3>1. ThreadOK(i) /\ tpc'[i] = (IF tpc[i] = "ready" THEN "set_meta" ELSE tpc[i]) /\ tpc[i] \in {"ready", "done"}
      BY <1>1 DEF ObjectInv, ThreadsOK
    <3>2. /\ (Complete(Loc(i))' <=> Complete(Loc(i))) /\ (Working' <=> Working) /\ derr' = derr /\ merr' = merr
          /\ WorkName("data")' = WorkName("data") /\ fs' = fs
      BY <1>1 DEF Complete, Working, WorkName, Sfx
    <3> QED BY <3>1, <3>2 DEF ThreadOK
  <2> QED BY <1>1, <2>1 DEF ThreadsOK, ObjectInv
<1>4. \A b \in Blocks : Whole(b) => Whole(b)'
  <2> TAKE b \in Blocks
  <2>1. \A i \in Pos : tpc'[i] # "done" <=> tpc[i] # "done"
    BY <1>1
  <2> QED BY <1>1, <2>1 DEF Whole, Complete, Busy
<1>5. Protected'
  <2>1. \A b \in Blocks : Kept(b) => Kept(b)'
    BY <1>1, <1>4 DEF Kept, AwayFull
  <2> QED BY <1>1, <2>1, ProtectedCarries DEF ObjectInv
<1>6. MovedKept'
  <2>1. moved \in Blocks \cup {NoBlock}
    BY DEF ObjectInv, Typed
  <2> QED BY <1>1, <1>4, <2>1 DEF MovedKept, AwayFull, ObjectInv
<1>7. MigrateOK' /\ DeleteOK'
  BY <1>1, OtherCalls
<1>8. ReaderOK'
  BY <1>1, <1>4, ReaderCarries DEF ObjectInv, ReaderOK
<1>9. StatOK'
  BY <1>1, StatCarries DEF ObjectInv, StatOK
<1> QED BY <1>2, <1>3, <1>5, <1>6, <1>7, <1>8, <1>9 DEF ObjectInv

\* while the object is written it is neither closed well nor moved, and no reader counts on it
LEMMA WhileWriting == ASSUME ObjectInv, op = "write" PROVE ~acked /\ moved = NoBlock /\ ~rd.safe /\ st.pc # "scan"
BY DEF ObjectInv, ThreadsOK, MovedKept, ReaderOK, StatOK

\* ne_abort(): working files stay behind
LEMMA AbortKeeps == ASSUME ObjectInv, ne_abort PROVE ObjectInv'
<1>1. /\ op = "write" /\ op' = "none" /\ UNCHANGED <<away, rd, st, moved, acked, deleted, damaged>>
      /\ fs' = [b \in Blocks |-> [fs[b] EXCEPT ![<<"meta", Sfx>>] =
                  IF \E i \in Pos : Loc(i) = b /\ mfd[i] THEN "full" ELSE @]]
  BY DEF ne_abort, histVars
<1>2. Typed'
  <2>1. FreeThreads
    BY DEF ne_abort
  <2>2. fs' \in [Blocks -> FileSet]
    <3> DEFINE w == <<"meta", Sfx>>
    <3>1. w \in Files
      BY WorkNames DEF WorkName
    <3> HIDE DEF w
    <3>2. ASSUME NEW b \in Blocks PROVE [fs[b] EXCEPT ![w] = IF \E i \in Pos : Loc(i) = b /\ mfd[i] THEN "full" ELSE @] \in FileSet
      <4>1. fs[b] \in [Files -> Contents] /\ fs[b][w] \in Contents
        BY <3>1 DEF ObjectInv, Typed, FileSet
      <4> QED BY <4>1 DEF FileSet, Contents
    <3> QED BY <1>1, <3>2 DEF w
  <2> QED BY <1>1, <2>1, <2>2, Freed DEF ObjectInv, Typed
<1>3. ThreadsOK'
  BY <1>1, <1>2, Freed, NoThreadsWork DEF ne_abort, Working
<1>4. Protected' /\ MovedKept'
  BY <1>1, WhileWriting DEF Protected, MovedKept
<1>5. MigrateOK' /\ DeleteOK'
  BY <1>1, OtherCalls
<1>6. ReaderOK'
  BY <1>1, WhileWriting, ReaderCarries DEF ObjectInv
<1>7. StatOK'
  BY <1>1, WhileWriting, StatCarries DEF ObjectInv
<1> QED BY <1>2, <1>3, <1>4, <1>5, <1>6, <1>7 DEF ObjectInv

\* ne_close() with success: the blocks without an error are complete, and enough
LEMMA CloseOkKeeps == ASSUME ObjectInv, ne_close_ok PROVE ObjectInv'
<1>1. /\ op = "write" /\ op' = "none" /\ FreeThreads /\ ~TooManyErrors /\ \A i \in Pos : tpc[i] = "done"
      /\ UNCHANGED <<fs, away, rd, st, moved, deleted, damaged>> /\ acked' = TRUE
  BY DEF ne_close_ok, AllDone
<1>2. Typed'
  BY <1>1, Freed DEF ObjectInv, Typed
<1>3. ThreadsOK'
  BY <1>1, <1>2, Freed, NoThreadsWork DEF Working
<1>4. Protected'
  <2> DEFINE errs == {i \in Pos : derr[i] \/ merr[i]}
             good == Pos \ errs
  <2>1. \A i \in good : Complete(Loc(i))
    BY <1>1 DEF ObjectInv, ThreadsOK, ThreadOK
  <2>2. good \in SUBSET Pos /\ KeptSet' \in SUBSET Blocks
    BY DEF KeptSet
  <2>3. \A i \in good : Loc(i) \in KeptSet'
    BY <1>1, <2>1, Places DEF KeptSet, Kept, Whole, Complete, Busy
  <2>4. numerrs = Cardinality(errs)
    BY DEF numerrs
  <2>5. /\ Cardinality(good) = N + E - Cardinality(errs) /\ Cardinality(errs) \in Nat
        /\ errs \in SUBSET Pos
    BY CountRest
  <2> HIDE DEF errs, good
  <2>6. Cardinality(good) <= Cardinality(KeptSet') /\ Cardinality(good) \in Nat /\ Cardinality(KeptSet') \in Nat
    BY <2>2, <2>3, CountPlaces
  <2>7. Cardinality(errs) = 0 \/ Cardinality(errs) <= E - MIN_PROTECTION
    BY <1>1, <2>4, <2>5, ObjectAssumption DEF TooManyErrors
  <2>8. Cardinality(KeptSet') >= Needed
    BY <2>5, <2>6, <2>7, NeededIs, ObjectAssumption
  <2> QED BY <2>8 DEF Protected, Needed
<1>5. MovedKept'
  BY <1>1, WhileWriting DEF MovedKept
<1>6. MigrateOK' /\ DeleteOK'
  BY <1>1, OtherCalls
<1>7. ReaderOK'
  BY <1>1, WhileWriting, ReaderCarries DEF ObjectInv
<1>8. StatOK'
  BY <1>1, WhileWriting, StatCarries DEF ObjectInv
<1> QED BY <1>2, <1>3, <1>4, <1>5, <1>6, <1>7, <1>8 DEF ObjectInv

\* ne_close() that deletes the object
LEMMA CloseUnsafeKeeps == ASSUME ObjectInv, ne_close_unsafe PROVE ObjectInv'
<1>1. /\ op = "write" /\ op' = "delete" /\ FreeThreads /\ deleted' = TRUE
      /\ cur' = [step |-> "meta.sfx", b |-> 0, ret |-> -1]
      /\ UNCHANGED <<fs, away, rd, st, moved, acked, damaged>>
  BY DEF ne_close_unsafe, AllDone
<1>2. Typed'
  BY <1>1, Freed DEF ObjectInv, Typed
<1>3. ThreadsOK'
  BY <1>1, <1>2, Freed, NoThreadsWork DEF Working
<1>4. Protected' /\ MovedKept'
  BY <1>1, WhileWriting DEF Protected, MovedKept
<1>5. DeleteOK'
  <2>1. cur'.b = 0 /\ cur'.step = "meta.sfx" /\ cur'.ret # 0 /\ 0 \in Blocks
    BY <1>1, ObjectAssumption DEF Blocks
  <2> QED BY <1>1, <2>1 DEF DeleteOK, DelSteps
<1>6. MigrateOK'
  BY <1>1 DEF MigrateOK
<1>7. ReaderOK'
  BY <1>1, WhileWriting, ReaderCarries DEF ObjectInv
<1>8. StatOK'
  BY <1>1, WhileWriting, StatCarries DEF ObjectInv
<1> QED BY <1>2, <1>3, <1>4, <1>5, <1>6, <1>7, <1>8 DEF ObjectInv

-----------------------------------------------------------------------------
(* Deletion *)

\* nobody reads or counts on an object that is deleted or migrated
LEMMA WhileMoving ==
  ASSUME ObjectInv, op \in {"delete", "migrate"}
  PROVE  /\ ~rd.safe /\ st.pc # "scan" /\ (\A i \in Pos : tpc[i] = "idle") /\ Typed
         /\ op = "delete" => deleted
BY DEF ObjectInv, ThreadsOK, ThreadOK, Working, ReaderOK, StatOK, DeleteOK

\* what is the same in all steps of a deletion
LEMMA DeletionKeeps ==
  ASSUME ObjectInv, op = "delete", op' \in {"delete", "none"}, UNCHANGED <<away, threadVars, rd, st, histVars>>,
         fs' \in [Blocks -> FileSet], DeleteOK'
  PROVE  ObjectInv'
<1>1. deleted' = TRUE /\ (\A i \in Pos : tpc'[i] = "idle")
  BY WhileMoving DEF threadVars, histVars, Typed
<1>2. Typed'
  BY WhileMoving DEF Typed, threadVars, histVars
<1>3. ThreadsOK'
  BY <1>1, <1>2, NoThreadsWork DEF Working
<1>4. Protected' /\ MovedKept'
  BY <1>1 DEF Protected, MovedKept, ObjectInv, histVars
<1>5. MigrateOK'
  BY DEF MigrateOK
<1>6. ReaderOK'
  BY WhileMoving, ReaderCarries DEF ObjectInv
<1>7. StatOK'
  BY WhileMoving, StatCarries DEF ObjectInv
<1> QED BY <1>2, <1>3, <1>4, <1>5, <1>6, <1>7 DEF ObjectInv

\* the files in the order in which they are removed
LEMMA Removal ==
  /\ DelFile["meta.sfx"] = <<"meta", ".partial">> /\ DelFile["meta"] = META
  /\ DelFile["data.sfx"] = <<"data", ".partial">> /\ DelFile["data"] = DATA
  /\ NextDel("meta.sfx") = "meta" /\ NextDel("meta") = "data.sfx"
  /\ NextDel("data.sfx") = "data" /\ NextDel("data") = "end"
  /\ \A s \in DelSteps : DelFile[s] \in Files
  /\ DOMAIN DelFile = DelSteps
<1>1. /\ DelFile["meta.sfx"] = <<"meta", ".partial">> /\ DelFile["meta"] = META
      /\ DelFile["data.sfx"] = <<"data", ".partial">> /\ DelFile["data"] = DATA
  BY DEF DelFile
<1>2. DelOrder[1] = "meta.sfx" /\ DelOrder[2] = "meta" /\ DelOrder[3] = "data.sfx" /\ DelOrder[4] = "data"
  BY DEF DelOrder
<1> DEFINE at(s) == CHOOSE j \in 1 .. 4 : DelOrder[j] = s
<1>3. at("meta.sfx") = 1 /\ at("meta") = 2 /\ at("data.sfx") = 3 /\ at("data") = 4
  BY <1>2
<1>4. \A s \in DelSteps : NextDel(s) = IF at(s) = 4 THEN "end" ELSE DelOrder[at(s) + 1]
  BY DEF NextDel
<1> HIDE DEF at
<1>5. /\ NextDel("meta.sfx") = "meta" /\ NextDel("meta") = "data.sfx"
      /\ NextDel("data.sfx") = "data" /\ NextDel("data") = "end"
  BY <1>2, <1>3, <1>4 DEF DelSteps
<1>6. \A s \in DelSteps : DelFile[s] \in Files
  BY <1>1, Names DEF DelSteps
<1>7. DOMAIN DelFile = DelSteps
  BY DEF DelFile, DelSteps
<1> QED BY <1>1, <1>5, <1>6, <1>7

\* ne_delete() begins
LEMMA DeleteStarts == ASSUME ObjectInv, ne_delete PROVE ObjectInv'
<1>1. /\ op = "none" /\ st.pc = "idle" /\ rd = NoReader /\ op' = "delete" /\ deleted' = TRUE
      /\ cur' = [step |-> "meta.sfx", b |-> 0, ret |-> 0]
      /\ UNCHANGED <<fs, away, tpc, mfd, derr, merr, rd, st, moved, acked, damaged>>
  BY DEF ne_delete, Free, threadVars, ObjectInv, ReaderOK, ReaderTyped
<1>2. Typed'
  BY <1>1 DEF ObjectInv, Typed
<1>3. ThreadsOK'
  BY <1>1, <1>2, NoThreadsWork DEF ObjectInv, ThreadsOK, ThreadOK, Working
<1>4. Protected' /\ MovedKept'
  BY <1>1 DEF Protected, MovedKept, ObjectInv
<1>5. DeleteOK'
  <2>1. cur'.b = 0 /\ cur'.step = "meta.sfx" /\ 0 \in Blocks /\ \A b \in Blocks : ~(b < 0)
    BY <1>1, ObjectAssumption DEF Blocks
  <2> QED BY <1>1, <2>1 DEF DeleteOK, DelSteps
<1>6. MigrateOK'
  BY <1>1 DEF MigrateOK
<1>7. ReaderOK'
  <2>1. ~rd.safe
    BY <1>1 DEF NoReader
  <2> QED BY <1>1, <2>1, ReaderCarries DEF ObjectInv
<1>8. StatOK'
  BY <1>1, StatCarries DEF ObjectInv
<1> QED BY <1>2, <1>3, <1>4, <1>5, <1>6, <1>7, <1>8 DEF ObjectInv

\* block_delete(): one file is gone, or the block is given up
LEMMA BlockDeleteKeeps == ASSUME ObjectInv, block_delete PROVE ObjectInv'
<1>1. /\ op = "delete" /\ op' = op /\ cur.step # "end" /\ UNCHANGED <<away, threadVars, rd, st, histVars>>
      /\ Typed /\ DeleteOK /\ deleted /\ cur.b \in Blocks /\ cur.step \in DelSteps
  BY DEF block_delete, ObjectInv, DeleteOK
<1>2. CASE /\ fs' = [fs EXCEPT ![cur.b][DelFile[cur.step]] = "none"]
           /\ cur' = [cur EXCEPT !.step = NextDel(cur.step)]
  <2> DEFINE f == DelFile[cur.step]  b == cur.b
  <2>0. f \in Files /\ b \in Blocks /\ "none" \in Contents
    BY <1>1, Removal DEF Contents
  <2>1. fs' = [fs EXCEPT ![b][f] = "none"]
    BY <1>2
  <2>2. f = DelFile[cur.step]
    OBVIOUS
  <2>3. b = cur.b
    OBVIOUS
  <2> HIDE DEF f, b
  <2>4. /\ fs' \in [Blocks -> FileSet] /\ \A a \in Blocks : a # b => fs'[a] = fs[a]
        /\ \A x \in Files : fs'[b][x] = IF x = f THEN "none" ELSE fs[b][x]
    BY <1>1, <2>0, <2>1 DEF Typed, FileSet
  <2>5. cur'.b = cur.b /\ cur'.ret = cur.ret /\ cur'.step = NextDel(cur.step)
    BY <1>2
  <2>6. DeleteOK'
    <3>1. cur'.step \in DelSteps \cup {"end"} /\ cur'.step # "meta.sfx"
      BY <1>1, <2>5, Removal DEF DelSteps
    <3>2. ASSUME cur.ret = 0, NEW a \in Blocks, a < cur.b PROVE NoFiles(a)'
      <4>1. NoFiles(a)
        BY <1>1, <3>2 DEF DeleteOK
      <4>2. a # b
        BY <2>3, <3>2, Sizes
      <4> QED BY <2>4, <4>1, <4>2 DEF NoFiles
    <3>3. /\ DATA \in Files /\ META \in Files /\ <<"data", ".partial">> \in Files /\ <<"meta", ".partial">> \in Files
      BY Names
    <3>4. ASSUME cur.ret = 0
          PROVE  /\ cur'.step # "meta.sfx" => fs'[b][<<"meta", ".partial">>] = "none"
                 /\ cur'.step \in {"data.sfx", "data", "end"} => fs'[b][META] = "none"
                 /\ cur'.step \in {"data", "end"} => fs'[b][<<"data", ".partial">>] = "none"
                 /\ cur'.step = "end" => fs'[b][DATA] = "none"
      <4> DEFINE mp == <<"meta", ".partial">>  dp == <<"data", ".partial">>
      <4>1. /\ cur.step # "meta.sfx" => fs[b][mp] = "none"
            /\ cur.step \in {"data.sfx", "data", "end"} => fs[b][META] = "none"
            /\ cur.step \in {"data", "end"} => fs[b][dp] = "none"
        BY <1>1, <2>3, <3>4 DEF DeleteOK
      <4>2. mp \in Files /\ dp \in Files
        BY <3>3
      <4>3. /\ cur.step = "meta.sfx" => f = mp /\ cur'.step = "meta"
            /\ cur.step = "meta" => f = META /\ cur'.step = "data.sfx"
            /\ cur.step = "data.sfx" => f = dp /\ cur'.step = "data"
            /\ cur.step = "data" => f = DATA /\ cur'.step = "end"
        BY <2>2, <2>5, Removal
      <4> HIDE DEF mp, dp
      <4>4. \A x \in Files : fs[b][x] = "none" \/ x = f => fs'[b][x] = "none"
        BY <2>4
      <4>5. /\ cur'.step # "meta.sfx" => fs'[b][mp] = "none"
            /\ cur'.step \in {"data.sfx", "data", "end"} => fs'[b][META] = "none"
            /\ cur'.step \in {"data", "end"} => fs'[b][dp] = "none"
            /\ cur'.step = "end" => fs'[b][DATA] = "none"
        BY <1>1, <3>3, <4>1, <4>2, <4>3, <4>4 DEF DelSteps
      <4> QED BY <4>5 DEF mp, dp
    <3> QED BY <1>1, <2>3, <2>5, <3>1, <3>2, <3>4 DEF DeleteOK, histVars
  <2> QED BY <1>1, <2>4, <2>6, DeletionKeeps
<1>3. CASE cur' = [cur EXCEPT !.step = "end", !.ret = -1] /\ UNCHANGED fs
  <2>1. fs' \in [Blocks -> FileSet]
    BY <1>1, <1>3 DEF Typed
  <2>2. cur'.b = cur.b /\ cur'.ret # 0 /\ cur'.step = "end"
    BY <1>3
  <2>3. DeleteOK'
    BY <1>1, <2>2 DEF DeleteOK, histVars
  <2> QED BY <1>1, <2>1, <2>3, DeletionKeeps
<1> QED BY <1>2, <1>3 DEF block_delete

\* a block that has been gone through has no files
LEMMA BlockGone ==
  ASSUME ObjectInv, op = "delete", cur.step = "end", cur.ret = 0
  PROVE  \A b \in Blocks : b <= cur.b => NoFiles(b)
<1>1. cur.b \in Blocks /\ \A b \in Blocks : b < cur.b => NoFiles(b)
  BY DEF ObjectInv, DeleteOK
<1>2. NoFiles(cur.b)
  <2> DEFINE mp == <<"meta", ".partial">>  dp == <<"data", ".partial">>
  <2>1. fs[cur.b][mp] = "none" /\ fs[cur.b][META] = "none" /\ fs[cur.b][dp] = "none" /\ fs[cur.b][DATA] = "none"
    BY DEF ObjectInv, DeleteOK
  <2>2. \A f \in Files : f[2] # ".rebuild" => f \in {DATA, META, dp, mp}
    BY Names
  <2> HIDE DEF mp, dp
  <2> QED BY <2>1, <2>2 DEF NoFiles
<1>3. ASSUME NEW b \in Blocks, b <= cur.b PROVE NoFiles(b)
  <2>1. b \in Nat /\ cur.b \in Nat
    BY <1>1, Sizes
  <2>2. b < cur.b \/ b = cur.b
    BY <1>3, <2>1
  <2> QED BY <1>1, <1>2, <2>2
<1> QED BY <1>3

\* the deletion goes on to the next block, or ends
LEMMA DeleteNextKeeps == ASSUME ObjectInv, delete_next PROVE ObjectInv'
<1>1. /\ op = "delete" /\ cur.step = "end" /\ UNCHANGED <<fs, away, threadVars, rd, st, histVars>>
      /\ Typed /\ DeleteOK /\ deleted /\ cur.b \in Blocks /\ fs' \in [Blocks -> FileSet]
  BY DEF delete_next, ObjectInv, DeleteOK, Typed
<1>2. CASE cur.b < LastBlock /\ cur' = [cur EXCEPT !.step = "meta.sfx", !.b = @ + 1] /\ UNCHANGED <<op, ret>>
  <2>1. cur'.step = "meta.sfx" /\ cur'.ret = cur.ret /\ cur'.b = cur.b + 1
    BY <1>2
  <2>2. cur'.b \in Blocks
    BY <1>1, <1>2, <2>1, Sizes
  <2>3. ASSUME cur.ret = 0, NEW b \in Blocks, b < cur'.b PROVE NoFiles(b)'
    <3>1. b \in Nat /\ cur.b \in Nat /\ b < cur.b + 1
      BY <1>1, <2>1, <2>3, Sizes
    <3>2. b <= cur.b
      BY <3>1
    <3>3. NoFiles(b)
      BY <1>1, <2>3, <3>2, BlockGone
    <3> QED BY <1>1, <3>3 DEF NoFiles
  <2>4. DeleteOK'
    BY <1>1, <1>2, <2>1, <2>2, <2>3 DEF DeleteOK, histVars, DelSteps
  <2> QED BY <1>1, <1>2, <2>4, DeletionKeeps
<1>3. CASE op' = "none"
  BY <1>1, <1>3, DeletionKeeps DEF DeleteOK
<1> QED BY <1>2, <1>3 DEF delete_next

-----------------------------------------------------------------------------
(* Migration *)

\* posix_migrate() begins with a complete block
LEMMA MigrateStarts == ASSUME ObjectInv, posix_migrate PROVE ObjectInv'
<1>1. /\ op = "none" /\ st.pc = "idle" /\ rd = NoReader /\ op' = "migrate" /\ acked /\ ~deleted /\ moved = NoBlock
      /\ UNCHANGED <<fs, away, tpc, mfd, derr, merr, rd, st, acked, deleted, damaged>>
  BY DEF posix_migrate, Free, threadVars, ObjectInv, ReaderOK, ReaderTyped
<1>2. PICK b \in Blocks, step \in {"link_data", "symlink_data"} :
        Complete(b) /\ cur' = [step |-> step, b |-> b, ret |-> 0] /\ moved' = b
  BY DEF posix_migrate
<1>3. Typed'
  BY <1>1, <1>2 DEF ObjectInv, Typed
<1>4. ThreadsOK'
  BY <1>1, <1>3, NoThreadsWork DEF ObjectInv, ThreadsOK, ThreadOK, Working
<1>5. \A a \in Blocks : Whole(a)' <=> Complete(a)
  BY <1>1 DEF Whole, Complete, Busy
<1>6. Protected'
  <2>1. \A a \in Blocks : Kept(a) => Kept(a)'
    BY <1>1, <1>5, Sizes DEF Kept, Whole
  <2> QED BY <1>1, <2>1, ProtectedCarries DEF ObjectInv
<1>7. MovedKept'
  BY <1>1, <1>2, <1>5 DEF MovedKept
<1>8. MigrateOK'
  <2>1. cur'.b = b /\ cur'.step = step
    BY <1>2
  <2>2. Complete(b)'
    BY <1>1, <1>2 DEF Complete
  <2> QED BY <1>1, <1>2, <2>1, <2>2 DEF MigrateOK, NotYet, Already, DelSteps
<1>9. DeleteOK'
  BY <1>1 DEF DeleteOK
<1>10. ReaderOK'
  <2>1. ~rd.safe
    BY <1>1 DEF NoReader
  <2> QED BY <1>1, <2>1, ReaderCarries DEF ObjectInv
<1>11. StatOK'
  BY <1>1, StatCarries DEF ObjectInv
<1> QED BY <1>3, <1>4, <1>6, <1>7, <1>8, <1>9, <1>10, <1>11 DEF ObjectInv

\* what is the same in all steps of a migration: only the block that moves may go from its
\* old place, once it is whole at the new one
LEMMA MigrationKeeps ==
  ASSUME ObjectInv, op = "migrate", op' \in {"migrate", "none"}, UNCHANGED mVars,
         fs' \in [Blocks -> FileSet], \A b \in Blocks : b # moved => fs'[b] = fs[b],
         away' \in FileSet, Complete(moved)' \/ AwayFull', MigrateOK'
  PROVE  ObjectInv'
<1>1. /\ tpc' = tpc /\ mfd' = mfd /\ derr' = derr /\ merr' = merr /\ rd' = rd /\ st' = st
      /\ moved' = moved /\ acked' = acked /\ deleted' = deleted /\ damaged' = damaged
  BY DEF mVars, threadVars, histVars
<1>2. Typed /\ (\A i \in Pos : tpc[i] = "idle") /\ moved \in Blocks /\ ~rd.safe /\ st.pc # "scan"
  BY WhileMoving DEF ObjectInv, MigrateOK
<1>3. Typed'
  BY <1>1, <1>2 DEF Typed
<1>4. ThreadsOK'
  BY <1>1, <1>2, <1>3, NoThreadsWork DEF Working
<1>5. \A b \in Blocks : b # moved /\ Whole(b) => Whole(b)'
  <2> TAKE b \in Blocks
  <2>1. b # moved => fs'[b] = fs[b]
    OBVIOUS
  <2>2. ~Busy(b)'
    BY DEF Busy
  <2> QED BY <2>1, <2>2 DEF Whole, Complete
<1>11. Whole(moved)' \/ AwayFull'
  <2>1. ~Busy(moved)'
    BY DEF Busy
  <2> QED BY <2>1 DEF Whole
<1>6. Protected'
  <2>1. \A b \in Blocks : Kept(b) => Kept(b)'
    BY <1>1, <1>5, <1>11 DEF Kept
  <2> QED BY <1>1, <2>1, ProtectedCarries DEF ObjectInv
<1>7. MovedKept'
  BY <1>1, <1>2, <1>11 DEF MovedKept, ObjectInv
<1>8. DeleteOK'
  BY DEF DeleteOK
<1>9. ReaderOK'
  BY <1>1, <1>2, ReaderCarries DEF ObjectInv
<1>10. StatOK'
  BY <1>1, <1>2, StatCarries DEF ObjectInv
<1> QED BY <1>3, <1>4, <1>6, <1>7, <1>8, <1>9, <1>10 DEF ObjectInv

\* where a migration is
LEMMA Migrating ==
  ASSUME ObjectInv, op = "migrate"
  PROVE  /\ Typed /\ moved \in Blocks /\ cur.b = moved /\ cur.step \in NotYet \cup Already
         /\ fs \in [Blocks -> FileSet] /\ away \in FileSet
         /\ cur.step \in NotYet => Complete(moved) /\ fs[moved][DATA] = "full" /\ fs[moved][META] = "full"
         /\ cur.step \in Already => AwayFull
BY DEF ObjectInv, MigrateOK, Typed, Complete

\* a migration that changes files of its new place only goes on, or ends
LEMMA AwayKeeps ==
  ASSUME ObjectInv, op = "migrate", UNCHANGED <<fs, mVars>>, away' \in FileSet,
         Complete(moved) \/ AwayFull',
         op' = "none" \/ (op' = op /\ MigrateOK')
  PROVE  ObjectInv'
<1>1. moved' = moved /\ moved \in Blocks /\ fs' = fs /\ fs \in [Blocks -> FileSet]
  BY Migrating DEF mVars, histVars
<1>2. Complete(moved)' \/ AwayFull'
  BY <1>1 DEF Complete
<1>3. op' \in {"migrate", "none"} /\ MigrateOK' /\ UNCHANGED mVars
  BY DEF MigrateOK
<1> QED BY <1>1, <1>2, <1>3, MigrationKeeps

\* one file at the new place gets another content
LEMMA AwayPut ==
  ASSUME away \in FileSet, NEW f \in Files, NEW c \in Contents, away' = [away EXCEPT ![f] = c]
  PROVE  away' \in FileSet /\ \A x \in Files : away'[x] = IF x = f THEN c ELSE away[x]
BY DEF FileSet

\* where a migration stands after a step
LEMMA MigrateAt ==
  ASSUME ObjectInv, op = "migrate", op' = op, moved' = moved, UNCHANGED fs, NEW s \in NotYet, Mig(s), Complete(moved),
         s \in {"link_meta", "symlink_meta", "copy_close_meta"} => away'[DATA] = "full",
         s \in {"copy_meta", "copy_close_data"} => away'[<<"data", ".partial">>] = "full",
         s \in {"copy_close_data", "copy_close_meta"} => away'[<<"meta", ".partial">>] = "full"
  PROVE  MigrateOK'
<1>1. cur'.step = s /\ cur'.b = cur.b /\ cur.b = moved /\ moved \in Blocks
  BY Migrating DEF Mig
<1>2. Complete(moved)'
  BY DEF Complete
<1>3. s \notin Already
  BY DEF NotYet, Already, DelSteps
<1> QED BY <1>1, <1>2, <1>3 DEF MigrateOK

\* ... when the block is whole at its new place
LEMMA MigrateBeyond ==
  ASSUME ObjectInv, op = "migrate", op' = op, moved' = moved, NEW s \in Already, cur'.step = s, cur'.b = cur.b, AwayFull'
  PROVE  MigrateOK'
<1>1. cur.b = moved /\ moved \in Blocks /\ s \notin NotYet
  BY Migrating DEF NotYet, Already, DelSteps
<1> QED BY <1>1 DEF MigrateOK, NotYet

\* link(): the files get a second name
LEMMA LinksKeep == ASSUME ObjectInv, link_data \/ link_meta \/ unlink_dest PROVE ObjectInv'
<1>1. op = "migrate" /\ UNCHANGED <<fs, mVars>> /\ moved' = moved /\ cur.step \in {"link_data", "link_meta", "unlink_dest"}
  BY DEF link_data, link_meta, unlink_dest, mVars, histVars
<1>2. Typed /\ away \in FileSet /\ cur.b = moved /\ Complete(moved) /\ fs[moved][DATA] = "full" /\ fs[moved][META] = "full"
  BY <1>1, Migrating DEF NotYet
<1>3. DATA \in Files /\ META \in Files /\ DATA # META /\ {"none", "full"} \subseteq Contents
  BY Names DEF Contents
<1>4. CASE link_data /\ away' = [away EXCEPT ![DATA] = fs[cur.b][DATA]] /\ Mig("link_meta")
  <2>1. away' \in FileSet /\ away'[DATA] = "full"
    <3>1. away' = [away EXCEPT ![DATA] = "full"] /\ "full" \in Contents
      BY <1>2, <1>3, <1>4
    <3> QED BY <1>2, <1>3, <3>1 DEF FileSet
  <2>2. MigrateOK'
    BY <1>1, <1>2, <1>4, <2>1, MigrateAt DEF link_data, NotYet
  <2> QED BY <1>1, <1>2, <1>4, <2>1, <2>2, AwayKeeps DEF link_data
<1>5. CASE (link_data \/ unlink_dest) /\ op' = op /\ Mig("copy_open") /\ away' \in FileSet
  <2>1. MigrateOK'
    BY <1>1, <1>2, <1>5, MigrateAt DEF NotYet
  <2> QED BY <1>1, <1>2, <1>5, <2>1, AwayKeeps
<1>6. CASE link_meta /\ away' = [away EXCEPT ![META] = fs[cur.b][META]] /\ Mig("unlink_data")
  <2>1. away' \in FileSet /\ away'[META] = "full" /\ away'[DATA] = away[DATA]
    <3>1. away' = [away EXCEPT ![META] = "full"] /\ "full" \in Contents
      BY <1>2, <1>3, <1>6
    <3> QED BY <1>2, <1>3, <3>1 DEF FileSet
  <2>2. away[DATA] = "full"
    BY <1>1, <1>6 DEF link_meta, ObjectInv, MigrateOK
  <2>3. AwayFull' /\ cur'.step = "unlink_data" /\ cur'.b = cur.b
    BY <1>6, <2>1, <2>2 DEF AwayFull, Mig
  <2>4. MigrateOK'
    BY <1>1, <1>6, <2>3, MigrateBeyond DEF link_meta, Already
  <2> QED BY <1>1, <1>2, <1>6, <2>1, <2>4, AwayKeeps DEF link_meta
<1>7. CASE link_meta /\ Mig("unlink_dest") /\ UNCHANGED away
  <2>1. MigrateOK'
    BY <1>1, <1>2, <1>7, MigrateAt DEF link_meta, NotYet
  <2> QED BY <1>1, <1>2, <1>7, <2>1, AwayKeeps DEF link_meta
<1>8. CASE unlink_dest /\ MigDone(-2) /\ UNCHANGED away
  BY <1>1, <1>2, <1>8, AwayKeeps DEF MigDone
<1>9. unlink_dest /\ away' = [away EXCEPT ![DATA] = "none"] => away' \in FileSet
  BY <1>2, <1>3, AwayPut
<1> QED BY <1>2, <1>4, <1>5, <1>6, <1>7, <1>8, <1>9 DEF link_data, link_meta, unlink_dest

\* unlink(): the old names go once both files have new ones
LEMMA UnlinksKeep == ASSUME ObjectInv, unlink_data \/ unlink_meta \/ migrated PROVE ObjectInv'
<1>1. op = "migrate" /\ UNCHANGED <<away, mVars>> /\ moved' = moved /\ cur.step \in {"unlink_data", "unlink_meta", "migrated"}
  BY DEF unlink_data, unlink_meta, migrated, mVars, histVars
<1>2. Typed /\ away \in FileSet /\ cur.b = moved /\ moved \in Blocks /\ AwayFull /\ AwayFull'
  BY <1>1, Migrating DEF Already, AwayFull
<1>3. ASSUME NEW f \in {DATA, META}, NEW s \in {"unlink_meta", "migrated"}, op' = op, Unlink(f, s) PROVE ObjectInv'
  <2>1. cur'.step = s /\ cur'.b = cur.b
    <3>1. CASE cur' = [cur EXCEPT !.step = s]
      BY <3>1
    <3>2. CASE cur' = [cur EXCEPT !.step = s, !.ret = 1]
      BY <3>2
    <3> QED BY <1>3, <3>1, <3>2 DEF Unlink
  <2>2. MigrateOK'
    BY <1>1, <1>2, <1>3, <2>1, MigrateBeyond DEF Already
  <2>3. fs' \in [Blocks -> FileSet] /\ \A b \in Blocks : b # moved => fs'[b] = fs[b]
    <3>1. f \in Files /\ "none" \in Contents
      BY Names DEF Contents
    <3> QED BY <1>2, <1>3, <3>1 DEF Unlink, Typed, FileSet
  <2> QED BY <1>1, <1>2, <1>3, <2>2, <2>3, MigrationKeeps
<1>4. CASE migrated
  BY <1>1, <1>2, <1>4, AwayKeeps DEF migrated, MigDone
<1> QED BY <1>1, <1>3, <1>4 DEF unlink_data, unlink_meta

\* the names a copy is written under
LEMMA CopyNames ==
  ASSUME NEW dp, dp = <<"data", ".partial">>, NEW mp, mp = <<"meta", ".partial">>
  PROVE  /\ dp \in Files /\ mp \in Files /\ DATA \in Files /\ META \in Files
         /\ dp # mp /\ dp # DATA /\ dp # META /\ mp # DATA /\ mp # META /\ DATA # META
<1>1. /\ <<"data", ".partial">> \in Files /\ <<"meta", ".partial">> \in Files
      /\ <<"data", ".partial">> # <<"meta", ".partial">>
      /\ {<<"data", ".partial">>, <<"meta", ".partial">>} \cap {DATA, META} = {}
  BY Names
<1>2. DATA \in Files /\ META \in Files /\ DATA # META
  BY Names
<1> QED BY <1>1, <1>2

\* manual_migrate(): the copy is written
LEMMA CopiesKeep == ASSUME ObjectInv, copy_open \/ copy_data \/ copy_meta PROVE ObjectInv'
<1>1. op = "migrate" /\ UNCHANGED <<fs, mVars>> /\ moved' = moved /\ cur.step \in {"copy_open", "copy_data", "copy_meta"}
  BY DEF copy_open, copy_data, copy_meta, mVars, histVars
<1>2. Typed /\ away \in FileSet /\ cur.b = moved /\ Complete(moved) /\ fs[moved][DATA] = "full" /\ fs[moved][META] = "full"
  BY <1>1, Migrating DEF NotYet
<1> DEFINE dp == <<"data", ".partial">>  mp == <<"meta", ".partial">>
<1>3. /\ dp \in Files /\ mp \in Files /\ DATA \in Files /\ META \in Files
      /\ dp # mp /\ dp # DATA /\ dp # META /\ mp # DATA /\ mp # META /\ {"none", "part", "full"} \subseteq Contents
  BY CopyNames DEF Contents
<1>4. /\ copy_open => \/ /\ away' = [away EXCEPT ![mp] = "part", ![dp] = "part"]
                         /\ Mig("copy_data") /\ op' = op
                      \/ op' = "none" /\ UNCHANGED away
      /\ copy_data => \/ away' = [away EXCEPT ![dp] = fs[cur.b][DATA]] /\ Mig("copy_meta") /\ op' = op
                      \/ op' = "none" /\ away' = [away EXCEPT ![mp] = "none", ![dp] = "none"]
      /\ copy_meta => \/ /\ away' = [away EXCEPT ![mp] = fs[cur.b][META]] /\ Mig("copy_close_data") /\ op' = op
                         /\ cur.step = "copy_meta"
                      \/ op' = "none" /\ away' = [away EXCEPT ![mp] = "none", ![dp] = "none"]
  BY DEF copy_open, copy_data, copy_meta, Copied, MigDone, DATA, META
<1>5. cur.step = "copy_meta" => away[dp] = "full"
  BY <1>1 DEF ObjectInv, MigrateOK
<1>6. ASSUME away'[dp] = "full", away'[mp] = "full", op' = op, Mig("copy_close_data") PROVE MigrateOK'
  BY <1>1, <1>2, <1>6, MigrateAt DEF NotYet
<1>7. ASSUME away'[dp] = "full", op' = op, Mig("copy_meta") PROVE MigrateOK'
  BY <1>1, <1>2, <1>7, MigrateAt DEF NotYet
<1> HIDE DEF dp, mp
<1>8. CASE /\ away' = [away EXCEPT ![mp] = "part", ![dp] = "part"]
           /\ Mig("copy_data") /\ op' = op
  <2>1. away' \in FileSet
    BY <1>2, <1>3, <1>8 DEF FileSet
  <2>2. MigrateOK'
    BY <1>1, <1>2, <1>8, MigrateAt DEF NotYet
  <2> QED BY <1>1, <1>2, <1>8, <2>1, <2>2, AwayKeeps
<1>9. CASE op' = "none" /\ UNCHANGED away
  BY <1>1, <1>2, <1>9, AwayKeeps
<1>10. CASE op' = "none" /\ away' = [away EXCEPT ![mp] = "none", ![dp] = "none"]
  <2>1. away' \in FileSet
    BY <1>2, <1>3, <1>10 DEF FileSet
  <2> QED BY <1>1, <1>2, <1>10, <2>1, AwayKeeps
<1>11. CASE away' = [away EXCEPT ![dp] = fs[cur.b][DATA]] /\ Mig("copy_meta") /\ op' = op
  <2>1. away' = [away EXCEPT ![dp] = "full"]
    BY <1>2, <1>11
  <2>2. away' \in FileSet /\ away'[dp] = "full"
    BY <1>2, <1>3, <2>1 DEF FileSet
  <2> QED BY <1>1, <1>2, <1>7, <1>11, <2>2, AwayKeeps
<1>12. CASE /\ away' = [away EXCEPT ![mp] = fs[cur.b][META]] /\ Mig("copy_close_data") /\ op' = op
            /\ cur.step = "copy_meta"
  <2>1. away' = [away EXCEPT ![mp] = "full"]
    BY <1>2, <1>12
  <2>2. away' \in FileSet /\ away'[mp] = "full" /\ away'[dp] = away[dp]
    BY <1>2, <1>3, <2>1 DEF FileSet
  <2> QED BY <1>1, <1>2, <1>5, <1>6, <1>12, <2>2, AwayKeeps
<1> QED BY <1>4, <1>8, <1>9, <1>10, <1>11, <1>12

\* posix_close() of the copy
LEMMA CopyClosesKeep == ASSUME ObjectInv, copy_close_data \/ copy_close_meta PROVE ObjectInv'
<1>1. op = "migrate" /\ UNCHANGED <<fs, mVars>> /\ moved' = moved /\ cur.step \in {"copy_close_data", "copy_close_meta"}
  BY DEF copy_close_data, copy_close_meta, mVars, histVars
<1>2. Typed /\ away \in FileSet /\ cur.b = moved /\ Complete(moved)
  BY <1>1, Migrating DEF NotYet
<1> DEFINE dp == <<"data", ".partial">>  mp == <<"meta", ".partial">>
<1>3. /\ dp \in Files /\ mp \in Files /\ DATA \in Files /\ META \in Files /\ {"none", "full"} \subseteq Contents
      /\ dp # mp /\ dp # DATA /\ dp # META /\ mp # DATA /\ mp # META /\ DATA # META
  BY CopyNames DEF Contents
<1>4. /\ copy_close_data => \/ /\ away' = [away EXCEPT ![DATA] = away[dp], ![dp] = "none"]
                               /\ Mig("copy_close_meta") /\ op' = op /\ cur.step = "copy_close_data"
                            \/ op' = "none" /\ UNCHANGED away
      /\ copy_close_meta => \/ /\ away' = [away EXCEPT ![META] = away[mp], ![mp] = "none"]
                               /\ Mig("meta.sfx") /\ op' = op /\ cur.step = "copy_close_meta"
                            \/ op' = "none" /\ UNCHANGED away
  BY DEF copy_close_data, copy_close_meta, copy_close, MigDone, DATA, META
<1>5. /\ cur.step = "copy_close_data" => away[dp] = "full" /\ away[mp] = "full"
      /\ cur.step = "copy_close_meta" => away[DATA] = "full" /\ away[mp] = "full"
  BY <1>1 DEF ObjectInv, MigrateOK
<1>6. ASSUME away'[DATA] = "full", away'[mp] = "full", op' = op, Mig("copy_close_meta") PROVE MigrateOK'
  BY <1>1, <1>2, <1>6, MigrateAt DEF NotYet
<1> HIDE DEF dp, mp
<1>7. CASE /\ away' = [away EXCEPT ![DATA] = away[dp], ![dp] = "none"]
           /\ Mig("copy_close_meta") /\ op' = op /\ cur.step = "copy_close_data"
  <2>1. away' \in FileSet /\ away'[DATA] = "full" /\ away'[mp] = away[mp]
    <3>1. away' = [away EXCEPT ![DATA] = "full", ![dp] = "none"]
      BY <1>5, <1>7
    <3> QED BY <1>2, <1>3, <3>1 DEF FileSet
  <2> QED BY <1>1, <1>2, <1>5, <1>6, <1>7, <2>1, AwayKeeps
<1>8. CASE /\ away' = [away EXCEPT ![META] = away[mp], ![mp] = "none"]
           /\ Mig("meta.sfx") /\ op' = op /\ cur.step = "copy_close_meta"
  <2>1. away' \in FileSet /\ away'[META] = "full" /\ away'[DATA] = away[DATA]
    <3>1. away' = [away EXCEPT ![META] = "full", ![mp] = "none"]
      BY <1>5, <1>8
    <3> QED BY <1>2, <1>3, <3>1 DEF FileSet
  <2>2. AwayFull'
    BY <1>5, <1>8, <2>1 DEF AwayFull
  <2>3. cur'.step = "meta.sfx" /\ cur'.b = cur.b
    BY <1>8 DEF Mig
  <2>4. MigrateOK'
    BY <1>1, <1>8, <2>2, <2>3, MigrateBeyond DEF Already, DelSteps
  <2> QED BY <1>1, <1>2, <1>8, <2>1, <2>4, AwayKeeps
<1>9. CASE op' = "none" /\ UNCHANGED away
  BY <1>1, <1>2, <1>9, AwayKeeps
<1> QED BY <1>4, <1>7, <1>8, <1>9

\* posix_del() of the original
LEMMA CopyDeleteKeeps == ASSUME ObjectInv, copy_delete PROVE ObjectInv'
<1>1. op = "migrate" /\ UNCHANGED <<away, mVars>> /\ moved' = moved /\ cur.step \in DelSteps
  BY Removal DEF copy_delete, mVars, histVars
<1>2. Typed /\ away \in FileSet /\ cur.b = moved /\ moved \in Blocks /\ AwayFull /\ AwayFull'
  BY <1>1, Migrating DEF Already, AwayFull
<1>3. fs' \in [Blocks -> FileSet] /\ \A b \in Blocks : b # moved => fs'[b] = fs[b]
  <2> DEFINE f == DelFile[cur.step]
  <2>1. f \in Files /\ "none" \in Contents
    BY <1>1, Removal DEF Contents
  <2>2. fs' = [fs EXCEPT ![moved][f] = "none"] \/ fs' = fs
    BY <1>2 DEF copy_delete
  <2> HIDE DEF f
  <2>3. CASE fs' = [fs EXCEPT ![moved][f] = "none"]
    BY <1>2, <2>1, <2>3 DEF Typed, FileSet
  <2>4. CASE fs' = fs
    BY <1>2, <2>4 DEF Typed
  <2> QED BY <2>2, <2>3, <2>4
<1>4. op' = "none" \/ (op' = op /\ NextDel(cur.step) # "end" /\ Mig(NextDel(cur.step)))
  BY DEF copy_delete, MigDone
<1>5. ASSUME op' = op, NextDel(cur.step) # "end", Mig(NextDel(cur.step)) PROVE MigrateOK'
  <2> DEFINE s == NextDel(cur.step)
  <2>1. s \in Already
    BY <1>1, <1>5, Removal DEF Already, DelSteps
  <2> HIDE DEF s
  <2>2. cur'.step = s /\ cur'.b = cur.b
    BY <1>5 DEF Mig, s
  <2> QED BY <1>1, <1>2, <1>5, <2>1, <2>2, MigrateBeyond
<1>6. MigrateOK' /\ op' \in {"migrate", "none"}
  BY <1>1, <1>4, <1>5 DEF MigrateOK
<1> QED BY <1>1, <1>2, <1>3, <1>6, MigrationKeeps

\* symlink(): the old place stays as it is
LEMMA SymlinksKeep ==
  ASSUME ObjectInv, symlink("symlink_data", "data", "symlink_meta") \/ symlink("symlink_meta", "meta", "end")
  PROVE  ObjectInv'
<1>1. op = "migrate" /\ UNCHANGED <<fs, mVars>> /\ moved' = moved /\ cur.step \in {"symlink_data", "symlink_meta"}
  BY DEF symlink, mVars, histVars
<1>2. Typed /\ away \in FileSet /\ cur.b = moved /\ Complete(moved) /\ fs[moved][DATA] = "full" /\ fs[moved][META] = "full"
  BY <1>1, Migrating DEF NotYet
<1>3. DATA \in Files /\ META \in Files /\ "full" \in Contents
  BY Names DEF Contents
<1>4. \/ away' = [away EXCEPT ![DATA] = fs[cur.b][DATA]] /\ Mig("symlink_meta") /\ op' = op
      \/ op' = "none" /\ away' = [away EXCEPT ![META] = fs[cur.b][META]]
      \/ op' = "none" /\ UNCHANGED away
  BY DEF symlink, MigDone, DATA, META
<1>5. CASE away' = [away EXCEPT ![DATA] = fs[cur.b][DATA]] /\ Mig("symlink_meta") /\ op' = op
  <2>1. away' = [away EXCEPT ![DATA] = "full"]
    BY <1>2, <1>5
  <2>2. away' \in FileSet /\ away'[DATA] = "full"
    BY <1>2, <1>3, <2>1 DEF FileSet
  <2>3. MigrateOK'
    BY <1>1, <1>2, <1>5, <2>2, MigrateAt DEF NotYet
  <2> QED BY <1>1, <1>2, <1>5, <2>2, <2>3, AwayKeeps
<1>6. CASE op' = "none" /\ away' = [away EXCEPT ![META] = fs[cur.b][META]]
  <2>1. away' = [away EXCEPT ![META] = "full"]
    BY <1>2, <1>6
  <2>2. away' \in FileSet
    BY <1>2, <1>3, <2>1 DEF FileSet
  <2> QED BY <1>1, <1>2, <1>6, <2>2, AwayKeeps
<1>7. CASE op' = "none" /\ UNCHANGED away
  BY <1>1, <1>2, <1>7, AwayKeeps
<1> QED BY <1>4, <1>5, <1>6, <1>7

-----------------------------------------------------------------------------
(* Reading and checking beside it *)

\* what is the same in all steps of a reader and of a stat
LEMMA LooksKeep ==
  ASSUME ObjectInv, UNCHANGED <<fs, away, op, threadVars, cur, histVars>>, ReaderOK', StatOK'
  PROVE  ObjectInv'
<1>1. /\ tpc' = tpc /\ mfd' = mfd /\ derr' = derr /\ merr' = merr /\ fs' = fs /\ away' = away /\ op' = op /\ cur' = cur
      /\ moved' = moved /\ acked' = acked /\ deleted' = deleted /\ damaged' = damaged
  BY DEF threadVars, histVars
<1>2. Typed'
  BY <1>1 DEF ObjectInv, Typed
<1>3. ThreadsOK'
  <2>1. /\ WorkName("data")' = WorkName("data") /\ WorkName("meta")' = WorkName("meta") /\ Working' = Working
        /\ \A b \in Blocks : Complete(b)' = Complete(b)
    BY <1>1 DEF WorkName, Sfx, Working, Complete
  <2>2. ASSUME NEW i \in Pos PROVE ThreadOK(i)'
    <3>1. Complete(Loc(i))' = Complete(Loc(i))
      BY <2>1, Places
    <3> QED BY <1>1, <2>1, <3>1 DEF ThreadsOK, ThreadOK, ObjectInv
  <2> QED BY <1>1, <2>2 DEF ThreadsOK, ObjectInv
<1>4. \A b \in Blocks : Whole(b)' = Whole(b)
  BY <1>1 DEF Whole, Complete, Busy
<1>5. Protected'
  <2>1. \A b \in Blocks : Kept(b) => Kept(b)'
    BY <1>1, <1>4 DEF Kept, AwayFull
  <2> QED BY <1>1, <2>1, ProtectedCarries DEF ObjectInv
<1>6. MovedKept'
  <2>1. moved \in Blocks \cup {NoBlock}
    BY DEF ObjectInv, Typed
  <2> QED BY <1>1, <1>4, <2>1 DEF MovedKept, AwayFull, ObjectInv
<1>7. MigrateOK'
  BY <1>1 DEF MigrateOK, ObjectInv, Complete, AwayFull
<1>8. DeleteOK'
  <2>1. \A b \in Blocks : NoFiles(b)' = NoFiles(b)
    BY <1>1 DEF NoFiles
  <2> QED BY <1>1, <2>1 DEF DeleteOK, ObjectInv
<1> QED BY <1>2, <1>3, <1>5, <1>6, <1>7, <1>8 DEF ObjectInv

\* a handle that is nobody's
LEMMA NoReaderIs ==
  /\ NoReader \in [pc : {"idle", "init", "open"}, step : [Pos -> {"meta", "data", "metaread", "ready"}],
                   m : [Pos -> Contents], d : [Pos -> Contents], totsz : {0},
                   res : {"none", "ok", "error"}, safe : BOOLEAN]
  /\ NoReader.pc = "idle" /\ NoReader.res = "none" /\ NoReader.safe = FALSE
  /\ \A i \in Pos : NoReader.step[i] = "meta"
BY DEF NoReader, Contents

\* a handle that was not there before, or is no more
LEMMA NoReaderOK == ASSUME rd' = NoReader PROVE ReaderOK'
BY NoReaderIs DEF ReaderOK, ReaderTyped, ReadSucceeds

\* a reader that may count on the object has enough whole blocks to look at
LEMMA EnoughWhole ==
  ASSUME ObjectInv, Safe, NEW S \in SUBSET Pos, \A i \in Pos : Whole(Loc(i)) => i \in S
  PROVE  Cardinality(S) >= N
<1> DEFINE T == KeptSet \ damaged
<1>1. /\ damaged \subseteq Blocks /\ KeptSet \subseteq Blocks /\ acked /\ ~deleted /\ moved = NoBlock
      /\ Cardinality(damaged) <= Min({E, MIN_PROTECTION}) /\ Cardinality(KeptSet) >= Needed
  BY DEF ObjectInv, Typed, Safe, Spare, KeptSet, Protected
<1>2. T \in SUBSET Blocks /\ \A i \in Pos : Loc(i) \in T => Whole(Loc(i))
  BY <1>1, Sizes DEF KeptSet, Kept
<1>3. IsFiniteSet(KeptSet) /\ IsFiniteSet(damaged)
  BY <1>1, Sizes, FS_Subset
<1>4. Cardinality(T) = Cardinality(KeptSet) - Cardinality(KeptSet \cap damaged)
  BY <1>3, FS_Difference
<1>5. Cardinality(KeptSet \cap damaged) <= Cardinality(damaged)
      /\ Cardinality(KeptSet \cap damaged) \in Nat /\ Cardinality(damaged) \in Nat
  <2>1. KeptSet \cap damaged \in SUBSET Blocks /\ damaged \in SUBSET Blocks /\ KeptSet \cap damaged \subseteq damaged
    BY <1>1
  <2> QED BY <2>1, Larger
<1>6. Cardinality(KeptSet) \in Nat
  BY <1>3, FS_CardinalityType
<1>7. Min({E, MIN_PROTECTION}) = IF MIN_PROTECTION < E THEN MIN_PROTECTION ELSE E
  BY ObjectAssumption DEF Min
<1>8. Cardinality(T) <= Cardinality(S) /\ Cardinality(S) \in Nat /\ Cardinality(T) \in Nat
  <2>1. \A i \in Pos : Loc(i) \in T => i \in S
    BY <1>2
  <2> HIDE DEF T
  <2> QED BY <1>2, <2>1, CountPositions
<1> DEFINE t == Cardinality(T)  k == Cardinality(KeptSet)  kd == Cardinality(KeptSet \cap damaged)
           d == Cardinality(damaged)  s == Cardinality(S)  m == Min({E, MIN_PROTECTION})
<1>9. /\ t = k - kd /\ kd <= d /\ d <= m /\ k >= Needed /\ t <= s
      /\ t \in Nat /\ k \in Nat /\ kd \in Nat /\ d \in Nat /\ s \in Nat
      /\ m = IF MIN_PROTECTION < E THEN MIN_PROTECTION ELSE E
  BY <1>1, <1>4, <1>5, <1>6, <1>7, <1>8
<1> HIDE DEF T, t, k, kd, d, s, m
<1>10. s >= N
  BY <1>9, NeededIs, ObjectAssumption
<1> QED BY <1>10 DEF s

\* ne_open() for reading
LEMMA OpenReadKeeps == ASSUME ObjectInv, ne_open_read PROVE ObjectInv'
<1>1. /\ UNCHANGED <<fs, away, op, threadVars, cur, st, histVars>> /\ op \in {"none", "rebuild"}
      /\ rd' = [NoReader EXCEPT !.pc = "init", !.safe = Safe]
  BY DEF ne_open_read
<1>2. /\ rd'.pc = "init" /\ rd'.safe = Safe /\ rd'.res = "none" /\ rd'.step = NoReader.step
      /\ rd' \in [pc : {"idle", "init", "open"}, step : [Pos -> {"meta", "data", "metaread", "ready"}],
                  m : [Pos -> Contents], d : [Pos -> Contents], totsz : {0},
                  res : {"none", "ok", "error"}, safe : BOOLEAN]
  <2>1. Safe \in BOOLEAN
    BY DEF Safe
  <2> QED BY <1>1, <2>1, NoReaderIs
<1>3. ReaderTyped'
  BY <1>2 DEF ReaderTyped
<1>4. Safe => Cardinality(Seen') >= N
  <2>1. Seen' \in SUBSET Pos
    BY DEF Seen
  <2>2. ASSUME NEW i \in Pos, Whole(Loc(i)) PROVE i \in Seen'
    <3>1. Whole(Loc(i))'
      BY <1>1, <2>2 DEF Whole, Complete, Busy, threadVars
    <3>2. rd'.step[i] = "meta"
      BY <1>2, NoReaderIs
    <3> QED BY <3>1, <3>2 DEF Seen, SeesWell
  <2> QED BY <2>1, <2>2, EnoughWhole
<1>5. ReaderOK'
  BY <1>1, <1>2, <1>3, <1>4 DEF ReaderOK, ReadSucceeds, Safe, histVars
<1>6. StatOK'
  BY <1>1, StatCarries DEF ObjectInv
<1> QED BY <1>1, <1>5, <1>6, LooksKeep

\* read_init(): a position that is seen well goes on to be
LEMMA ReadInitKeeps == ASSUME ObjectInv, NEW i \in Pos, read_init(i) PROVE ObjectInv'
<1>1. UNCHANGED <<fs, away, op, threadVars, cur, st, histVars>> /\ rd.pc = "init" /\ fs \in [Blocks -> FileSet]
  BY DEF read_init, ObjectInv, Typed
<1>2. ReaderTyped /\ rd.step \in [Pos -> {"meta", "data", "metaread", "ready"}]
      /\ rd.m \in [Pos -> Contents] /\ rd.d \in [Pos -> Contents]
  BY DEF ObjectInv, ReaderOK, ReaderTyped
<1>3. PICK s \in {"data", "ready", "metaread"}, m \in Contents, d \in Contents :
        /\ RdSet(i, s, m, d)
        /\ rd.step[i] \in {"meta", "data", "metaread"}
        /\ rd.step[i] = "meta" => s = "data" /\ m = fs[Loc(i)][META]
        /\ rd.step[i] = "data" => /\ s = IF Exists(Loc(i), DATA) THEN "ready" ELSE "metaread"
                                  /\ m = rd.m[i] /\ d = fs[Loc(i)][DATA]
  <2>1. /\ "none" \in Contents /\ rd.m[i] \in Contents /\ fs[Loc(i)][META] \in Contents /\ fs[Loc(i)][DATA] \in Contents
    <3>1. Loc(i) \in Blocks /\ DATA \in Files /\ META \in Files
      BY Places, Names
    <3>2. "none" \in Contents
      BY DEF Contents
    <3> QED BY <1>1, <1>2, <3>1, <3>2 DEF FileSet
  <2>2. CASE rd.step[i] = "meta" /\ RdSet(i, "data", fs[Loc(i)][META], "none")
    BY <2>1, <2>2
  <2>3. CASE /\ rd.step[i] = "data"
             /\ RdSet(i, IF Exists(Loc(i), DATA) THEN "ready" ELSE "metaread", rd.m[i], fs[Loc(i)][DATA])
    BY <2>1, <2>3
  <2>4. CASE rd.step[i] = "metaread" /\ RdSet(i, "ready", fs[Loc(i)][META], "none")
    BY <2>1, <2>4
  <2> QED BY <2>2, <2>3, <2>4 DEF read_init
<1>4. /\ rd'.pc = rd.pc /\ rd'.res = rd.res /\ rd'.safe = rd.safe /\ rd'.totsz = rd.totsz
      /\ rd'.step = [rd.step EXCEPT ![i] = s] /\ rd'.m = [rd.m EXCEPT ![i] = m] /\ rd'.d = [rd.d EXCEPT ![i] = d]
      /\ rd' = [rd EXCEPT !.step = rd'.step, !.m = rd'.m, !.d = rd'.d]
  BY <1>2, <1>3 DEF RdSet, ReaderTyped
<1>5. ReaderTyped'
  BY <1>1, <1>2, <1>4 DEF ReaderTyped
<1>6. Seen \subseteq Seen'
  <2> SUFFICES ASSUME NEW j \in Pos, SeesWell(j) PROVE SeesWell(j)'
    BY DEF Seen
  <2>1. Whole(Loc(j))' = Whole(Loc(j))
    BY <1>1 DEF Whole, Complete, Busy, threadVars
  <2>2. CASE j # i
    <3>1. rd'.step[j] = rd.step[j] /\ rd'.m[j] = rd.m[j] /\ rd'.d[j] = rd.d[j]
      BY <1>2, <1>4, <2>2
    <3> QED BY <2>1, <3>1 DEF SeesWell
  <2>3. CASE j = i
    <3>1. rd'.step[i] = s /\ rd'.m[i] = m /\ rd'.d[i] = d
      BY <1>2, <1>4
    <3>2. Whole(Loc(i)) => fs[Loc(i)][META] = "full" /\ fs[Loc(i)][DATA] = "full" /\ Exists(Loc(i), DATA)
      BY DEF Whole, Complete, Exists
    <3> QED BY <1>3, <2>1, <2>3, <3>1, <3>2 DEF SeesWell
  <2> QED BY <2>2, <2>3
<1>7. ReaderOK'
  <2>1. Seen \in SUBSET Blocks /\ Seen' \in SUBSET Blocks
    BY Sizes DEF Seen
  <2>2. Cardinality(Seen) <= Cardinality(Seen') /\ Cardinality(Seen) \in Nat /\ Cardinality(Seen') \in Nat
    BY <1>6, <2>1, Larger
  <2>3. rd.safe => Cardinality(Seen') >= N
    BY <1>1, <2>2, Sizes DEF ObjectInv, ReaderOK
  <2> QED BY <1>1, <1>4, <1>5, <2>3 DEF ObjectInv, ReaderOK, ReadSucceeds, histVars
<1>8. StatOK'
  BY <1>1, StatCarries DEF ObjectInv
<1> QED BY <1>1, <1>7, <1>8, LooksKeep

\* a handle that is closed
LEMMA CloseReadKeeps == ASSUME ObjectInv, ne_close_read PROVE ObjectInv'
<1>1. UNCHANGED <<fs, away, op, threadVars, cur, histVars>> /\ rd' = NoReader /\ st' = NoStat
  BY DEF ne_close_read
<1>2. StatOK'
  BY <1>1 DEF StatOK, NoStat
<1> QED BY <1>1, <1>2, NoReaderOK, LooksKeep

\* the fields of what meta files say
LEMMA MinfoFields ==
  ASSUME NEW c
  PROVE  /\ Minfo(c)["N"] = N /\ Minfo(c)["E"] = E /\ Minfo(c)["O"] = O
         /\ Minfo(c)["totsz"] = IF c = "other" THEN Size - 1 ELSE Size
BY DEF Minfo

\* a number is the largest and the smallest of itself
LEMMA OfOne == \A x \in Int : Max({x}) = x /\ Min({x}) = x
BY DEF Max, Min

Before == {ss \in Nat \X Nat : ss[1] < ss[2]}
\* the order of the natural numbers, as a relation
LEMMA BeforeWellFounded == IsWellFoundedOn(Before, Nat)
BY NatLessThanWellFounded DEF OpToRel, Before

\* some blocks have a first one
LEMMA FirstBlock ==
  ASSUME NEW S \in SUBSET Blocks, S # {}
  PROVE  Min(S) \in S
<1>1. S \in SUBSET Nat
  BY Sizes
<1>2. PICK x \in S : \A y \in S : ~ (<<y, x>> \in Before)
  BY <1>1, BeforeWellFounded, WFMin
<1>3. \A y \in S : x <= y
  <2> TAKE y \in S
  <2>1. <<y, x>> \in Nat \X Nat
    BY <1>1
  <2>2. ~ (<<y, x>>[1] < <<y, x>>[2])
    BY <1>2, <2>1 DEF Before
  <2> QED BY <1>1, <2>2
<1> QED BY <1>3 DEF Min

\* meta files that agree on a number
LEMMA Unanimous ==
  ASSUME NEW s, DOMAIN s \in SUBSET Blocks, DOMAIN s # {}, NEW f, NEW v \in Int, \A k \in DOMAIN s : s[k][f] = v
  PROVE  Frequent(s, f) = {v} /\ Matches(s, f, v) = Cardinality(DOMAIN s)
<1>1. {s[k][f] : k \in DOMAIN s} = {v}
  OBVIOUS
<1>2. {k \in DOMAIN s : s[k][f] = v} = DOMAIN s
  OBVIOUS
<1>3. Matches(s, f, v) = Cardinality(DOMAIN s)
  BY <1>2 DEF Matches
<1>4. Cardinality(DOMAIN s) \in Nat
  BY Larger
<1>5. {Matches(s, f, w) : w \in {v}} = {Cardinality(DOMAIN s)}
  BY <1>3
<1>6. Max({Cardinality(DOMAIN s)}) = Cardinality(DOMAIN s)
  BY <1>4, OfOne
<1>7. Frequent(s, f) = {w \in {v} : Matches(s, f, w) = Cardinality(DOMAIN s)}
  BY <1>1, <1>5, <1>6 DEF Frequent
<1> QED BY <1>3, <1>7

\* check_matches(): all meta files have the pattern of the object, so that there are as many
\* matches as meta files
LEMMA PatternAgreed ==
  ASSUME NEW metas, DOMAIN metas \in SUBSET Blocks
  PROVE  /\ check_matches(Minfos(metas)).count = Cardinality(DOMAIN metas)
         /\ DOMAIN metas # {} => /\ check_matches(Minfos(metas)).minfo.N = N
                                 /\ check_matches(Minfos(metas)).minfo.E = E
                                 /\ check_matches(Minfos(metas)).minfo.O = O
<1> DEFINE s == Minfos(metas)
<1>1. DOMAIN s = DOMAIN metas /\ \A k \in DOMAIN metas : s[k] = Minfo(metas[k])
  BY DEF Minfos
<1>2. \A k \in DOMAIN s : s[k]["N"] = N /\ s[k]["E"] = E /\ s[k]["O"] = O
  BY <1>1, MinfoFields
<1> HIDE DEF s
<1>3. CASE DOMAIN s = {}
  <2>1. check_matches(s).count = 0
    BY <1>3 DEF check_matches
  <2>2. Cardinality(DOMAIN metas) = 0
    BY <1>1, <1>3, FS_EmptySet
  <2> QED BY <1>1, <1>3, <2>1, <2>2 DEF s
<1>4. CASE DOMAIN s # {}
  <2> DEFINE c == Cardinality(DOMAIN s)
  <2>1. DOMAIN s \in SUBSET Blocks /\ c \in Nat
    BY <1>1, Larger
  <2>2. Frequent(s, "N") = {N} /\ Matches(s, "N", N) = c
    <3>1. N \in Int
      BY Sizes
    <3> QED BY <1>2, <1>4, <2>1, <3>1, Unanimous
  <2>3. Frequent(s, "E") = {E} /\ Matches(s, "E", E) = c
    <3>1. E \in Int
      BY Sizes
    <3> QED BY <1>2, <1>4, <2>1, <3>1, Unanimous
  <2>4. Max({N}) = N /\ Max({E}) = E /\ Min({c, c}) = c
    <3>1. c \in Int /\ N \in Int /\ E \in Int
      BY <2>1, Sizes
    <3> HIDE DEF c
    <3>2. {c, c} = {c}
      OBVIOUS
    <3>3. Min({c}) = c /\ Max({N}) = N /\ Max({E}) = E
      BY <3>1, OfOne
    <3> QED BY <3>2, <3>3
  <2>5. FirstOf(s, "O") = O
    <3>1. O \in Int
      BY ObjectAssumption
    <3>2. Frequent(s, "O") = {O}
      BY <1>2, <1>4, <2>1, <3>1, Unanimous
    <3>3. {k \in DOMAIN s : s[k]["O"] \in Frequent(s, "O")} = DOMAIN s
      BY <1>2, <3>2
    <3>4. Min(DOMAIN s) \in DOMAIN s
      BY <1>4, <2>1, FirstBlock
    <3> QED BY <1>2, <3>3, <3>4 DEF FirstOf
  <2>6. check_matches(s) = [count |-> c, minfo |-> [N |-> N, E |-> E, O |-> O, totsz |-> Min(Frequent(s, "totsz"))]]
    BY <1>4, <2>2, <2>3, <2>4, <2>5 DEF check_matches
  <2> QED BY <1>1, <2>6 DEF s
<1> QED BY <1>3, <1>4

\* ... and the size is the right one if more meta files name it than do not
LEMMA SizeAgreed ==
  ASSUME NEW metas, DOMAIN metas \in SUBSET Blocks, \A k \in DOMAIN metas : metas[k] \in {"full", "other"},
         Cardinality({k \in DOMAIN metas : metas[k] = "full"}) > Cardinality({k \in DOMAIN metas : metas[k] = "other"})
  PROVE  DOMAIN metas # {} /\ check_matches(Minfos(metas)).minfo.totsz = Size
<1> DEFINE s == Minfos(metas)  F == {k \in DOMAIN metas : metas[k] = "full"}
           G == {k \in DOMAIN metas : metas[k] = "other"}
<1>1. DOMAIN s = DOMAIN metas /\ \A k \in DOMAIN metas : s[k] = Minfo(metas[k])
  BY DEF Minfos
<1>2. \A k \in DOMAIN metas : s[k]["totsz"] = IF metas[k] = "other" THEN Size - 1 ELSE Size
  BY <1>1, MinfoFields
<1>3. Cardinality(F) \in Nat /\ Cardinality(G) \in Nat /\ Cardinality(F) > Cardinality(G)
  <2>1. F \in SUBSET Blocks /\ G \in SUBSET Blocks
    OBVIOUS
  <2> QED BY <2>1, Larger
<1>4. F # {}
  <2>1. F = {} => Cardinality(F) = 0
    BY FS_EmptySet
  <2> QED BY <1>3, <2>1
<1>5. Size = 2
  BY DEF Size
<1> HIDE DEF s
<1>6. Matches(s, "totsz", Size) = Cardinality(F) /\ Matches(s, "totsz", Size - 1) = Cardinality(G)
  <2>1. {k \in DOMAIN s : s[k]["totsz"] = Size} = F /\ {k \in DOMAIN s : s[k]["totsz"] = Size - 1} = G
    BY <1>1, <1>2, <1>5
  <2> QED BY <2>1 DEF Matches
<1> DEFINE values == {s[k]["totsz"] : k \in DOMAIN s}
           counts == {Matches(s, "totsz", v) : v \in values}
<1>7. values \subseteq {Size, Size - 1} /\ Size \in values
  BY <1>1, <1>2, <1>4
<1>8. Max(counts) = Cardinality(F)
  <2>1. Cardinality(F) \in counts /\ counts \subseteq {Cardinality(F), Cardinality(G)}
    BY <1>6, <1>7
  <2> DEFINE a == Cardinality(F)  b == Cardinality(G)
  <2>2. a \in counts /\ counts \subseteq {a, b} /\ a \in Nat /\ b \in Nat /\ a > b
    BY <1>3, <2>1
  <2> HIDE DEF a, b, counts
  <2>3. \A x \in counts : (\A y \in counts : x >= y) <=> x = a
    BY <2>2
  <2> QED BY <2>2, <2>3 DEF Max, a
<1>9. Frequent(s, "totsz") = {v \in values : Matches(s, "totsz", v) = Max(counts)}
  BY DEF Frequent
<1>10. Frequent(s, "totsz") = {Size}
  <2>1. Cardinality(F) # Cardinality(G)
    BY <1>3
  <2> HIDE DEF F, G, values, counts
  <2> QED BY <1>6, <1>7, <1>8, <1>9, <2>1
<1>11. Min({Size}) = Size
  BY <1>5, OfOne
<1>12. check_matches(s).minfo.totsz = Min(Frequent(s, "totsz"))
  <2>1. DOMAIN s # {}
    BY <1>1, <1>4
  <2> QED BY <2>1 DEF check_matches
<1> QED BY <1>1, <1>4, <1>10, <1>11, <1>12 DEF s

\* ne_convert_handle(): N blocks have been seen well, and any of them has a meta file
LEMMA ConvertKeeps == ASSUME ObjectInv, ne_convert_handle PROVE ObjectInv'
<1>1. UNCHANGED <<fs, away, op, threadVars, cur, st, histVars>> /\ rd.pc = "init" /\ \A i \in Pos : rd.step[i] = "ready"
  BY DEF ne_convert_handle
<1> DEFINE c == Consensus(rd.m)  good == {i \in Pos : rd.d[i] = "full"}
           res == IF Enough(c) /\ Cardinality(good) >= N THEN "ok" ELSE "error"
<1>2. rd' = [NoReader EXCEPT !.pc = "open", !.totsz = c.minfo.totsz, !.safe = rd.safe, !.res = res]
  BY DEF ne_convert_handle
<1>3. ReaderTyped /\ rd.safe \in BOOLEAN /\ rd.m \in [Pos -> Contents]
  BY DEF ObjectInv, ReaderOK, ReaderTyped
<1>4. rd.safe => res = "ok"
  <2> SUFFICES ASSUME rd.safe PROVE Enough(c) /\ Cardinality(good) >= N
    OBVIOUS
  <2>1. Cardinality(Seen) >= N /\ Seen \in SUBSET Blocks /\ Seen \in SUBSET Pos
    BY <1>1, Sizes DEF ObjectInv, ReaderOK, Seen
  <2>2. Seen \subseteq good /\ \A i \in Seen : rd.m[i] = "full"
    BY <1>1 DEF Seen, SeesWell
  <2>3. good \in SUBSET Blocks
    BY Sizes
  <2>4. Cardinality(Seen) <= Cardinality(good) /\ Cardinality(Seen) \in Nat /\ Cardinality(good) \in Nat
    BY <2>1, <2>2, <2>3, Larger
  <2> DEFINE r == ReadableMetas(rd.m)
  <2>5. DOMAIN r = {j \in Pos : Readable(rd.m[j])}
    BY <1>3 DEF ReadableMetas
  <2>6. Seen \subseteq DOMAIN r /\ DOMAIN r \in SUBSET Blocks
    BY <2>1, <2>2, <2>5, Sizes DEF Readable
  <2>7. c.count = Cardinality(DOMAIN r)
    <3>1. c = check_matches(Minfos(r))
      BY DEF Consensus
    <3> HIDE DEF r, c
    <3> QED BY <2>6, <3>1, PatternAgreed
  <2>8. Cardinality(Seen) <= Cardinality(DOMAIN r) /\ Cardinality(DOMAIN r) \in Nat
    BY <2>1, <2>6, Larger
  <2> HIDE DEF r, c, good
  <2> QED BY <2>1, <2>4, <2>7, <2>8, Sizes DEF Enough
<1> DEFINE sz == c.minfo.totsz
<1>5. res \in {"ok", "error"}
  OBVIOUS
<1> HIDE DEF c, good, res
<1>6. /\ rd'.pc = "open" /\ rd'.safe = rd.safe /\ rd'.res = res /\ rd'.totsz = sz
      /\ rd' \in [pc : {"idle", "init", "open"}, step : [Pos -> {"meta", "data", "metaread", "ready"}],
                  m : [Pos -> Contents], d : [Pos -> Contents], totsz : {sz},
                  res : {"none", "ok", "error"}, safe : BOOLEAN]
  BY <1>2, <1>3, <1>5, NoReaderIs
<1>7. ReaderTyped'
  BY <1>6 DEF ReaderTyped
<1>8. ReaderOK'
  BY <1>1, <1>4, <1>6, <1>7 DEF ReaderOK, ReadSucceeds, ObjectInv, histVars
<1>9. StatOK'
  BY <1>1, StatCarries DEF ObjectInv
<1> QED BY <1>1, <1>8, <1>9, LooksKeep

\* ne_stat() begins
LEMMA StatStarts == ASSUME ObjectInv, ne_stat PROVE ObjectInv'
<1>1. /\ UNCHANGED <<fs, away, op, threadVars, cur, rd, histVars>> /\ op = "none" /\ rd = NoReader
      /\ st' = [NoStat EXCEPT !.pc = "scan"]
  BY DEF ne_stat, Free, ObjectInv, ReaderOK, ReaderTyped
<1>2. ReaderOK'
  BY <1>1, NoReaderOK
<1>3. /\ st'.pc = "scan" /\ st'.res = "none" /\ st'.max = N + E /\ st'.at = 0 /\ st'.merr = {} /\ st'.derr = {}
      /\ st'.metas = [b \in {} |-> "none"]
  BY <1>1 DEF NoStat, NoMetas
<1>4. Below(0) = {} /\ 0 \in 0 .. N + E
  <2>1. \A b \in Blocks : b \in Nat
    BY Sizes
  <2>2. \A b \in Blocks : ~ (b < 0)
    BY <2>1
  <2>3. 0 \in 0 .. N + E
    BY Sizes
  <2> QED BY <2>2, <2>3 DEF Below
<1>5. StatOK'
  <2>1. st'.metas = [b \in {a \in Below(0) : Readable(fs[a][META])} |-> fs[b][META]]
    BY <1>3, <1>4
  <2>2. {b \in Below(0) : ~Readable(fs[b][META])} = {} /\ {b \in Below(0) : ~Exists(b, DATA)} = {}
    BY <1>4
  <2>3. (Below(st.at))' = Below(0)
    BY <1>3 DEF Below
  <2> QED BY <1>1, <1>3, <1>4, <2>1, <2>2, <2>3 DEF StatOK, Exists
<1> QED BY <1>1, <1>2, <1>5, LooksKeep

\* ne_stat() takes one block more
LEMMA StatBlockKeeps == ASSUME ObjectInv, stat_block PROVE ObjectInv'
<1> DEFINE a == st.at  m == fs[a][META]
           metas == IF Readable(m)
                    THEN [b \in DOMAIN st.metas \cup {a} |-> IF b = a THEN m ELSE st.metas[b]]
                    ELSE st.metas
           c == check_matches(Minfos(metas))
           old == {b \in Below(a) : Readable(fs[b][META])}
           new == {b \in Below(a + 1) : Readable(fs[b][META])}
<1>1. UNCHANGED <<fs, away, op, threadVars, cur, rd, histVars>> /\ st.pc = "scan" /\ a < st.max
  BY DEF stat_block
<1>2. /\ op = "none" /\ st.res = "none" /\ st.max = N + E /\ a \in 0 .. N + E
      /\ st.metas = [b \in old |-> fs[b][META]]
      /\ st.merr = {b \in Below(a) : ~Readable(fs[b][META])}
      /\ st.derr = {b \in Below(a) : ~Exists(b, DATA)}
  BY <1>1 DEF ObjectInv, StatOK
<1>3. st' = [st EXCEPT !.at = @ + 1, !.metas = metas,
                  !.merr = IF Readable(m) THEN @ ELSE @ \cup {a},
                  !.derr = IF Exists(a, DATA) THEN @ ELSE @ \cup {a},
                  !.max = IF c.count > MIN_MD_CONSENSUS THEN c.minfo.N + c.minfo.E ELSE @]
  BY DEF stat_block
<1>4. a \in Blocks /\ a + 1 \in 0 .. N + E /\ Below(a + 1) = Below(a) \cup {a} /\ a \notin Below(a)
  BY <1>1, <1>2, Sizes DEF Below, Blocks
<1>5. metas = [b \in new |-> fs[b][META]]
  BY <1>2, <1>4
<1>6. c.count > MIN_MD_CONSENSUS => c.minfo.N = N /\ c.minfo.E = E
  <2>1. DOMAIN metas = new /\ new \in SUBSET Blocks
    BY <1>5 DEF Below
  <2> HIDE DEF metas
  <2>2. new = {} => Cardinality(new) = 0
    BY FS_EmptySet
  <2> HIDE DEF new
  <2>3. c.count = Cardinality(new) /\ (new # {} => c.minfo.N = N /\ c.minfo.E = E)
    BY <2>1, PatternAgreed
  <2> HIDE DEF c
  <2> QED BY <2>2, <2>3, ObjectAssumption
<1> HIDE DEF c, metas
<1>7. /\ st'.at = a + 1 /\ st'.metas = metas
      /\ st'.merr = IF Readable(m) THEN st.merr ELSE st.merr \cup {a}
      /\ st'.derr = IF Exists(a, DATA) THEN st.derr ELSE st.derr \cup {a}
      /\ st'.max = N + E /\ st'.pc = st.pc /\ st'.res = st.res
  BY <1>2, <1>3, <1>6
<1>8. st'.merr = {b \in Below(a + 1) : ~Readable(fs[b][META])} /\ st'.derr = {b \in Below(a + 1) : ~Exists(b, DATA)}
  BY <1>2, <1>4, <1>7
<1>9. StatOK'
  <2>1. Below(st.at)' = Below(a + 1) /\ \A b \in Blocks : Exists(b, DATA)' = Exists(b, DATA)
    BY <1>1, <1>7 DEF Below, Exists
  <2>2. st'.derr = {b \in Below(a + 1) : Exists(b, DATA)' = FALSE}
    BY <1>8, <2>1 DEF Below, Exists
  <2> QED BY <1>1, <1>2, <1>4, <1>5, <1>7, <1>8, <2>1 DEF StatOK, Below, Exists
<1>10. ReaderOK'
  BY <1>1, ReaderCarries DEF ObjectInv, ReaderOK, Whole, Complete, Busy, threadVars, histVars
<1> QED BY <1>1, <1>9, <1>10, LooksKeep

\* ne_stat() ends
LEMMA StatDoneKeeps == ASSUME ObjectInv, stat_done PROVE ObjectInv'
<1>1. UNCHANGED <<fs, away, op, threadVars, cur, rd, histVars>> /\ st'.pc = "open"
  BY DEF stat_done, NoStat
<1>2. StatOK'
  BY <1>1 DEF StatOK
<1>3. ReaderOK'
  BY <1>1, ReaderCarries DEF ObjectInv, ReaderOK, Whole, Complete, Busy, threadVars, histVars
<1> QED BY <1>1, <1>2, <1>3, LooksKeep

-----------------------------------------------------------------------------
(* The theorems *)

\* the storage damages a block of an object that nobody changes or reads
LEMMA DamageKeeps ==
  ASSUME ObjectInv, NEW b \in Blocks, NEW f \in {DATA, META}, NEW c \in {"none", "junk", "other"}, Damage(b, f, c)
  PROVE  ObjectInv'
<1>1. /\ acked /\ ~deleted /\ op = "none" /\ op' = op /\ rd = NoReader /\ st.pc = "idle" /\ moved = NoBlock
      /\ damaged' = damaged \cup {b} /\ fs' = [fs EXCEPT ![b][f] = c]
      /\ UNCHANGED <<away, tpc, mfd, derr, merr, rd, st, moved, acked, deleted>>
  BY DEF Damage, threadVars, ObjectInv, ReaderOK, ReaderTyped
<1>2. fs' \in [Blocks -> FileSet] /\ \A a \in Blocks : a # b => fs'[a] = fs[a]
  <2>1. f \in Files /\ c \in Contents
    BY Names DEF Contents
  <2> QED BY <1>1, <2>1 DEF ObjectInv, Typed, FileSet
<1>3. Typed'
  BY <1>1, <1>2 DEF ObjectInv, Typed
<1>4. ThreadsOK'
  BY <1>1, <1>3, NoThreadsWork DEF ObjectInv, ThreadsOK, ThreadOK, Working
<1>5. Protected'
  <2>1. \A a \in Blocks : Kept(a) => Kept(a)'
    <3> TAKE a \in Blocks
    <3>1. a = b => Kept(a)'
      BY <1>1 DEF Kept
    <3>2. a # b /\ Whole(a) => Whole(a)'
      BY <1>1, <1>2 DEF Whole, Complete, Busy
    <3> QED BY <1>1, <3>1, <3>2, Sizes DEF Kept
  <2> QED BY <1>1, <2>1, ProtectedCarries DEF ObjectInv
<1>6. MovedKept'
  BY <1>1 DEF MovedKept
<1>7. MigrateOK' /\ DeleteOK'
  BY <1>1, OtherCalls
<1>8. ReaderOK'
  BY <1>1, NoReaderOK
<1>9. StatOK'
  BY <1>1 DEF StatOK
<1> QED BY <1>3, <1>4, <1>5, <1>6, <1>7, <1>8, <1>9 DEF ObjectInv

\* the invariant holds to begin with
LEMMA ObjectInit == Init => ObjectInv
<1> SUFFICES ASSUME Init PROVE ObjectInv
  OBVIOUS
<1>1. /\ fs = [b \in Blocks |-> Empty] /\ away = Empty /\ moved = NoBlock /\ op = "none" /\ NoThreads
      /\ rd = NoReader /\ st = NoStat /\ acked = FALSE /\ deleted = FALSE /\ damaged = {}
  BY DEF Init
<1>2. Typed
  BY <1>1 DEF Typed, Empty, FileSet, Contents, NoThreads, NoErrs, Steps
<1>3. ThreadsOK
  BY <1>1 DEF ThreadsOK, ThreadOK, Working, NoThreads
<1>4. Protected /\ MovedKept /\ MigrateOK /\ DeleteOK
  BY <1>1 DEF Protected, MovedKept, MigrateOK, DeleteOK
<1>5. ReaderOK
  BY <1>1, NoReaderIs DEF ReaderOK, ReaderTyped, ReadSucceeds
<1>6. StatOK
  BY <1>1 DEF StatOK, NoStat
<1> QED BY <1>2, <1>3, <1>4, <1>5, <1>6 DEF ObjectInv

\* every step keeps it
LEMMA ObjectStep == ObjectInv /\ [Next]_vars => ObjectInv'
<1> SUFFICES ASSUME ObjectInv, [Next]_vars PROVE ObjectInv'
  OBVIOUS
<1>1. CASE ne_open_write \/ ne_rebuild \/ ne_finish \/ ne_abort
  BY <1>1, OpenWriteKeeps, RebuildKeeps, FinishKeeps, AbortKeeps
<1>2. ASSUME NEW i \in Pos, WriterThread(i) PROVE ObjectInv'
  BY <1>2, OpenMetaKeeps, OpenDataKeeps, PutKeeps, SetMetaKeeps, CloseDataKeeps, CloseMetaKeeps DEF WriterThread
<1>3. CASE ne_close_ok \/ ne_close_unsafe \/ ne_rebuild_done
  BY <1>3, CloseOkKeeps, CloseUnsafeKeeps, RebuildDoneKeeps
<1>4. CASE ne_delete \/ block_delete \/ delete_next
  BY <1>4, DeleteStarts, BlockDeleteKeeps, DeleteNextKeeps
<1>5. CASE Migrate
  BY <1>5, MigrateStarts, LinksKeep, UnlinksKeep, CopiesKeep, CopyClosesKeep, CopyDeleteKeeps, SymlinksKeep DEF Migrate
<1>6. CASE ne_open_read \/ (\E i \in Pos : read_init(i)) \/ ne_convert_handle \/ ne_close_read
  BY <1>6, OpenReadKeeps, ReadInitKeeps, ConvertKeeps, CloseReadKeeps
<1>7. CASE ne_stat \/ stat_block \/ stat_done
  BY <1>7, StatStarts, StatBlockKeeps, StatDoneKeeps
<1>8. CASE Crash
  BY <1>8, CrashKeeps
<1>9. CASE \E b \in Blocks, f \in {DATA, META}, c \in {"none", "junk", "other"} : Damage(b, f, c)
  BY <1>9, DamageKeeps
<1>10. CASE UNCHANGED vars
  BY <1>10, LooksKeep, ReaderCarries, StatCarries
     DEF vars, threadVars, histVars, ObjectInv, ReaderOK, Whole, Complete, Busy
<1> QED BY <1>1, <1>2, <1>3, <1>4, <1>5, <1>6, <1>7, <1>8, <1>9, <1>10 DEF Next

\* What holds of an object, the calls on it and those that look at it, at every moment.
THEOREM ObjectInvariant == Spec => []ObjectInv
BY ObjectInit, ObjectStep, PTL DEF Spec

\* what is kept is stored or was damaged
LEMMA ProtectedIsSafe == ObjectInv => ObjectIsSafe
<1> SUFFICES ASSUME ObjectInv PROVE AckedIsProtected /\ ReadSucceeds
  BY DEF ObjectIsSafe
<1>1. AckedIsProtected
  <2> DEFINE S == {b \in Blocks : Stored(b) \/ b \in damaged}
  <2> SUFFICES ASSUME acked, ~deleted PROVE Cardinality(S) >= Needed
    BY DEF AckedIsProtected, Needed
  <2>1. KeptSet \subseteq S /\ KeptSet \in SUBSET Blocks /\ S \in SUBSET Blocks
    BY DEF KeptSet, Kept, Whole, Stored, AwayFull
  <2>2. Cardinality(KeptSet) <= Cardinality(S) /\ Cardinality(KeptSet) \in Nat /\ Cardinality(S) \in Nat
    BY <2>1, Larger
  <2>3. Cardinality(KeptSet) >= Needed
    BY DEF ObjectInv, Protected
  <2> HIDE DEF S
  <2> QED BY <2>2, <2>3, NeededIs
<1>2. ReadSucceeds
  BY DEF ObjectInv, ReaderOK
<1> QED BY <1>1, <1>2

\* An object whose close succeeded has as many good blocks as it was promised, and can be read
\* at any moment, whatever failed or died in a write, a rebuild or a migration.
THEOREM ObjectSafe == Spec => []ObjectIsSafe
BY ObjectInvariant, ProtectedIsSafe, PTL

\* ne_read() gives the size that most meta files have
LEMMA ReadsSound == ASSUME ObjectInv, [Next]_vars PROVE ReadIsSound
<1> SUFFICES ASSUME rd.pc = "init", rd'.res = "ok", Saw("full") > Saw("other") PROVE rd'.totsz = Size
  BY DEF ReadIsSound
<1>1. rd.res = "none" /\ rd.m \in [Pos -> Contents]
  BY DEF ObjectInv, ReaderOK, ReaderTyped
<1>2. ne_convert_handle
  <2> SUFFICES ASSUME ~ne_convert_handle PROVE rd'.res # "ok"
    OBVIOUS
  <2>1. rd' = rd \/ rd' = NoReader \/ (\E i \in Pos : read_init(i)) \/ ne_open_read
    BY DEF Next, vars, ne_open_write, ne_rebuild, ne_finish, ne_abort, WriterThread, posix_open_meta,
           posix_open_data, posix_put, posix_set_meta, posix_close_data, posix_close_meta, ne_close_ok,
           ne_close_unsafe, ne_rebuild_done, ne_delete, block_delete, delete_next, Migrate, posix_migrate,
           link_data, link_meta, unlink_dest, unlink_data, unlink_meta, migrated, copy_open, copy_data,
           copy_meta, copy_close_data, copy_close_meta, copy_delete, symlink, mVars, ne_close_read, ne_stat,
           stat_block, stat_done, Crash, Damage
  <2>2. ASSUME NEW i \in Pos, read_init(i) PROVE rd'.res = rd.res
    <3>1. PICK s, m, d : RdSet(i, s, m, d)
      BY <2>2 DEF read_init
    <3> QED BY <3>1 DEF RdSet, ObjectInv, ReaderOK, ReaderTyped
  <2>3. ~ne_open_read
    BY DEF ne_open_read
  <2> QED BY <1>1, <2>1, <2>2, <2>3, NoReaderIs
<1> DEFINE r == ReadableMetas(rd.m)
<1>3. DOMAIN r = {j \in Pos : Readable(rd.m[j])} /\ \A k \in DOMAIN r : r[k] = rd.m[k]
  BY <1>1 DEF ReadableMetas
<1>4. rd'.totsz = check_matches(Minfos(r)).minfo.totsz
  BY <1>2 DEF ne_convert_handle, Consensus, NoReader
<1>5. /\ DOMAIN r \in SUBSET Blocks /\ \A k \in DOMAIN r : r[k] \in {"full", "other"}
      /\ {k \in DOMAIN r : r[k] = "full"} = {i \in Pos : rd.m[i] = "full"}
      /\ {k \in DOMAIN r : r[k] = "other"} = {i \in Pos : rd.m[i] = "other"}
  BY <1>3, Sizes DEF Readable
<1> HIDE DEF r
<1>6. Cardinality({k \in DOMAIN r : r[k] = "full"}) > Cardinality({k \in DOMAIN r : r[k] = "other"})
  BY <1>5 DEF Saw
<1> QED BY <1>4, <1>5, <1>6, SizeAgreed

\* ne_delete() returns 0 when it has gone through all blocks without an error
LEMMA DeletesAll == ASSUME ObjectInv, [Next]_vars PROVE DeleteLeavesNothing
<1> SUFFICES ASSUME op = "delete", op' = "none", ret' = 0, NEW b \in Blocks, NEW f \in Files, f[2] # ".rebuild"
             PROVE  fs'[b][f] = "none"
  BY DEF DeleteLeavesNothing
<1>1. delete_next \/ Crash
  <2>1. ~ne_abort /\ ~ne_close_ok /\ ~ne_rebuild_done /\ ~Migrate /\ ~UNCHANGED vars
    BY DEF ne_abort, ne_close_ok, ne_rebuild_done, AllDone, Migrate, posix_migrate, Free, link_data, link_meta,
           unlink_dest, unlink_data, unlink_meta, migrated, copy_open, copy_data, copy_meta, copy_close_data,
           copy_close_meta, copy_delete, symlink, vars
  <2>2. ASSUME NEW i \in Pos PROVE ~WriterThread(i) /\ ~read_init(i)
    BY DEF WriterThread, posix_open_meta, posix_open_data, posix_put, posix_set_meta, posix_close_data,
           posix_close_meta, read_init
  <2>3. /\ ~ne_open_write /\ ~ne_rebuild /\ ~ne_finish /\ ~ne_close_unsafe /\ ~ne_delete /\ ~block_delete
        /\ ~ne_open_read /\ ~ne_convert_handle /\ ~ne_close_read /\ ~ne_stat /\ ~stat_block /\ ~stat_done
    BY DEF ne_open_write, ne_rebuild, ne_finish, ne_close_unsafe, AllDone, ne_delete, Free, block_delete,
           ne_open_read, ne_convert_handle, ne_close_read, ne_stat, stat_block, stat_done
  <2>4. \A a \in Blocks, g \in {DATA, META}, c \in {"none", "junk", "other"} : ~Damage(a, g, c)
    BY DEF Damage
  <2> QED BY <2>1, <2>2, <2>3, <2>4 DEF Next
<1>2. ~Crash
  BY DEF Crash
<1>3. /\ cur.step = "end" /\ ~(cur.b < LastBlock) /\ cur.ret = 0 /\ fs' = fs /\ cur.b \in Blocks
  BY <1>1, <1>2 DEF delete_next, ObjectInv, DeleteOK
<1>4. b <= cur.b
  <2>1. b \in Nat /\ cur.b \in Nat /\ LastBlock \in Nat /\ b <= LastBlock
    BY <1>3, Sizes
  <2> QED BY <1>3, <2>1
<1>5. NoFiles(b)
  BY <1>3, <1>4, BlockGone
<1> QED BY <1>3, <1>5 DEF NoFiles

\* posix_migrate() returns 0 or 1 when the block is whole at its new place
LEMMA MigratesWhole == ASSUME ObjectInv, ObjectInv', [Next]_vars PROVE MigrateKeepsBlock
<1>1. ASSUME moved # NoBlock, ~deleted' PROVE Stored(moved)'
  <2>1. moved' = moved
    BY <1>1 DEF Next, vars, ne_open_write, ne_rebuild, ne_finish, ne_abort, WriterThread, posix_open_meta,
           posix_open_data, posix_put, posix_set_meta, posix_close_data, posix_close_meta, ne_close_ok,
           ne_close_unsafe, ne_rebuild_done, ne_delete, block_delete, delete_next, Migrate, posix_migrate,
           link_data, link_meta, unlink_dest, unlink_data, unlink_meta, migrated, copy_open, copy_data,
           copy_meta, copy_close_data, copy_close_meta, copy_delete, symlink, mVars, histVars, ne_open_read,
           read_init, ne_convert_handle, ne_close_read, ne_stat, stat_block, stat_done, Crash, Damage
  <2>2. Whole(moved)' \/ AwayFull'
    BY <1>1, <2>1 DEF ObjectInv, MovedKept
  <2> QED BY <2>2 DEF Stored, Whole, AwayFull
<1>2. ASSUME op = "migrate", op' = "none", ret' \in {0, 1} PROVE AwayFull'
  <2>1. Migrate \/ Crash
    <3>1. ~ne_abort /\ ~ne_close_ok /\ ~ne_rebuild_done /\ ~UNCHANGED vars
      BY <1>2 DEF ne_abort, ne_close_ok, ne_rebuild_done, AllDone, vars
    <3>2. ASSUME NEW i \in Pos PROVE ~WriterThread(i) /\ ~read_init(i)
      BY <1>2 DEF WriterThread, posix_open_meta, posix_open_data, posix_put, posix_set_meta, posix_close_data,
                  posix_close_meta, read_init
    <3>3. /\ ~ne_open_write /\ ~ne_rebuild /\ ~ne_finish /\ ~ne_close_unsafe /\ ~ne_delete /\ ~block_delete
          /\ ~ne_open_read /\ ~ne_convert_handle /\ ~ne_close_read /\ ~ne_stat /\ ~stat_block /\ ~stat_done
          /\ ~delete_next
      BY <1>2 DEF ne_open_write, ne_rebuild, ne_finish, ne_close_unsafe, AllDone, ne_delete, Free, block_delete,
                  ne_open_read, ne_convert_handle, ne_close_read, ne_stat, stat_block, stat_done, delete_next
    <3>4. \A a \in Blocks, g \in {DATA, META}, c \in {"none", "junk", "other"} : ~Damage(a, g, c)
      BY <1>2 DEF Damage
    <3> QED BY <3>1, <3>2, <3>3, <3>4 DEF Next
  <2>2. ~Crash
    BY <1>2 DEF Crash
  <2>3. \/ migrated \/ copy_delete
        \/ symlink("symlink_meta", "meta", "end") /\ away' = [away EXCEPT ![META] = fs[cur.b][META]]
    <3>1. ~posix_migrate /\ ~link_data /\ ~link_meta /\ ~unlink_dest /\ ~unlink_data /\ ~unlink_meta
      BY <1>2 DEF posix_migrate, Free, link_data, link_meta, unlink_dest, unlink_data, unlink_meta, MigDone
    <3>2. ~copy_open /\ ~copy_data /\ ~copy_meta
      BY <1>2 DEF copy_open, copy_data, Copied, copy_meta, MigDone
    <3>3. ~copy_close_data /\ ~copy_close_meta
      BY <1>2 DEF copy_close_data, copy_close_meta, copy_close, MigDone
    <3>4. ~symlink("symlink_data", "data", "symlink_meta")
      BY <1>2 DEF symlink, MigDone
    <3>5. symlink("symlink_meta", "meta", "end") => away' = [away EXCEPT ![META] = fs[cur.b][META]]
      <4> DEFINE f == <<"meta", "">>
      <4>1. symlink("symlink_meta", "meta", "end") => away' = [away EXCEPT ![f] = fs[cur.b][f]] \/ ret' = -1
        BY DEF symlink, MigDone
      <4>2. f = META
        BY DEF META
      <4> HIDE DEF f
      <4> QED BY <1>2, <4>1, <4>2
    <3> QED BY <2>1, <2>2, <3>1, <3>2, <3>3, <3>4, <3>5 DEF Migrate
  <2>4. CASE migrated \/ copy_delete
    <3>1. cur.step \in Already /\ away' = away
      BY <2>4, Removal DEF migrated, copy_delete, Already
    <3> QED BY <1>2, <3>1, Migrating DEF AwayFull
  <2>5. CASE symlink("symlink_meta", "meta", "end") /\ away' = [away EXCEPT ![META] = fs[cur.b][META]]
    <3>1. cur.step = "symlink_meta"
      BY <2>5 DEF symlink
    <3>2. /\ away \in FileSet /\ away[DATA] = "full" /\ cur.b = moved /\ fs[moved][META] = "full"
      BY <1>2, <3>1, Migrating DEF ObjectInv, MigrateOK, NotYet
    <3> QED BY <2>5, <3>2, Names DEF AwayFull, FileSet
  <2> QED BY <2>3, <2>4, <2>5
<1> QED BY <1>1, <1>2 DEF MigrateKeepsBlock, AwayFull

\* ne_stat() reports the blocks as they are
LEMMA StatsTrue == ASSUME ObjectInv, [Next]_vars PROVE StatTellsTruth
<1> SUFFICES ASSUME st.pc = "scan", Votes("full") > Votes("other"), st'.res = "ok"
             PROVE  /\ st'.derr = {i \in Pos : ~Exists(Loc(i), DATA)}
                    /\ st'.merr = {i \in Pos : fs[Loc(i)][META] # "full"}
  BY DEF StatTellsTruth
<1>1. /\ st.res = "none" /\ st.max = N + E /\ st.at \in 0 .. N + E
      /\ st.metas = [b \in {a \in Below(st.at) : Readable(fs[a][META])} |-> fs[b][META]]
      /\ st.merr = {b \in Below(st.at) : ~Readable(fs[b][META])}
      /\ st.derr = {b \in Below(st.at) : ~Exists(b, DATA)}
  BY DEF ObjectInv, StatOK
<1>2. stat_done
  <2> SUFFICES ASSUME ~stat_done PROVE st'.res # "ok"
    OBVIOUS
  <2>1. st' = st \/ st' = NoStat \/ stat_block \/ ne_stat
    BY DEF Next, vars, ne_open_write, ne_rebuild, ne_finish, ne_abort, WriterThread, posix_open_meta,
           posix_open_data, posix_put, posix_set_meta, posix_close_data, posix_close_meta, ne_close_ok,
           ne_close_unsafe, ne_rebuild_done, ne_delete, block_delete, delete_next, Migrate, posix_migrate,
           link_data, link_meta, unlink_dest, unlink_data, unlink_meta, migrated, copy_open, copy_data,
           copy_meta, copy_close_data, copy_close_meta, copy_delete, symlink, mVars, ne_open_read, read_init,
           ne_convert_handle, ne_close_read, Crash, Damage
  <2>2. stat_block => st'.res = st.res
    BY DEF stat_block
  <2>3. ~ne_stat
    BY DEF ne_stat, Free
  <2> QED BY <1>1, <2>1, <2>2, <2>3 DEF NoStat
<1> DEFINE metas == st.metas  good == check_matches(Minfos(metas)).minfo
           other == {b \in Blocks : Readable(fs[b][META]) /\ Minfo(fs[b][META]) # good}
<1>3. st'.merr = Translate(st.merr \cup other) /\ st'.derr = Translate(st.derr)
  BY <1>2 DEF stat_done, NoStat
<1>4. Below(st.at) = Blocks
  <2>1. st.at = N + E
    BY <1>1, <1>2, Sizes DEF stat_done
  <2> QED BY <2>1, Sizes DEF Below, Blocks
<1>5. /\ DOMAIN metas \in SUBSET Blocks /\ \A k \in DOMAIN metas : metas[k] \in {"full", "other"}
      /\ {k \in DOMAIN metas : metas[k] = "full"} = {b \in Blocks : fs[b][META] = "full"}
      /\ {k \in DOMAIN metas : metas[k] = "other"} = {b \in Blocks : fs[b][META] = "other"}
  BY <1>1, <1>4 DEF Readable
<1> HIDE DEF metas
<1>6. Cardinality({k \in DOMAIN metas : metas[k] = "full"}) > Cardinality({k \in DOMAIN metas : metas[k] = "other"})
  BY <1>5 DEF Votes
<1>7. good.totsz = Size /\ good.N = N /\ good.E = E /\ good.O = O
  BY <1>5, <1>6, SizeAgreed, PatternAgreed
<1>8. good = [N |-> N, E |-> E, O |-> O, totsz |-> Size]
  <2>1. good = [N |-> good.N, E |-> good.E, O |-> good.O, totsz |-> good.totsz]
    BY <1>5, <1>6, SizeAgreed DEF check_matches, Minfos
  <2> HIDE DEF good
  <2> QED BY <1>7, <2>1
<1> HIDE DEF good
<1>9. \A x : Readable(x) => (Minfo(x) # good <=> x = "other")
  BY <1>8 DEF Readable, Minfo, Size
<1>10. \A b \in Blocks : b \in st.merr \cup other <=> fs[b][META] # "full"
  BY <1>1, <1>4, <1>9 DEF Readable
<1> HIDE DEF other
<1> QED BY <1>1, <1>3, <1>4, <1>10, Places DEF Translate

\* What ne_read(), ne_delete(), posix_migrate() and ne_stat() return agrees with what is stored.
THEOREM AnswersTrue == Spec => AnswersAreTrue
<1>1. ObjectInv /\ ObjectInv' /\ [Next]_vars => [ReadIsSound /\ DeleteLeavesNothing /\ MigrateKeepsBlock /\ StatTellsTruth]_vars
  BY ReadsSound, DeletesAll, MigratesWhole, StatsTrue
<1> QED BY <1>1, ObjectInvariant, PTL DEF Spec, AnswersAreTrue
=============================================================================

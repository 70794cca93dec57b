------------------------------- MODULE HashRing -------------------------------
(***************************************************************************)
(* The hash tables of hash.c and what is looked up in them: subspaces by   *)
(* name, reference directories by the name of a file (datastream_genrpath) *)
(* and the pod, cap and scatter of an object (datastream_objtarget).       *)
(*                                                                         *)
(* A table is a ring of virtual nodes sorted by identifier.  A node of     *)
(* weight w has w * ratio virtual nodes; one of weight 0 has none, or one  *)
(* with the identifier of its own name in a table for direct lookup.  The  *)
(* identifiers (murmur hashes of strings) are any of Identifiers, so two   *)
(* may share one.                                                          *)
(***************************************************************************)
EXTENDS Naturals, Sequences, SequencesExt

CONSTANTS
  Names,        \* names of subspaces, and of what is looked up: sequences of numbers
  Identifiers,  \* identifiers, numbers
  TargetCount,  \* how many virtual nodes a table has at least (TARGET_NODE_COUNT)
  Weights,      \* weights of the targets of a distribution, each a sequence
  Breadths,     \* pairs <<refbreadth, refdepth>>
  MaxSubspaces  \* bound: subspaces of a namespace

ASSUME HashAssumption == TargetCount \in Nat \ {0} /\ Identifiers \subseteq Nat

VARIABLES
  table,   \* the nodes, the virtual nodes, and what the table is for
  target,  \* the string looked up and its identifier
  search,  \* min, max and curnode of the binary search, and where hash_lookup() is
  found    \* the virtual node found and the value returned

ringvars == <<table, target, search, found>>

Node(name, weight) == [name |-> name, weight |-> weight]
SumOf(ws) == FoldSeq(LAMBDA w, s : w + s, 0, ws)
TotalWeight(nodes) == SumOf([i \in DOMAIN nodes |-> nodes[i].weight])
WeightRatio(nodes) == LET t == TotalWeight(nodes)
                      IN  IF t = 0 THEN 1
                          ELSE (TargetCount \div t) + (IF TargetCount % t = 0 THEN 0 ELSE 1)
\* the virtual nodes: a node and the number in its string, or Own for the bare name
Own == 0
Strings(nodes, direct) ==
  UNION {IF nodes[i].weight > 0 THEN {i} \X (1..(nodes[i].weight * WeightRatio(nodes)))
         ELSE IF direct THEN {<<i, Own>>} ELSE {} : i \in DOMAIN nodes}
VNode(id, num, k) == [id |-> id, num |-> num, k |-> k]
compare_nodes(a, b) == a.id < b.id \/ (a.id = b.id /\ a.num < b.num)
\* hash_init(): no table when nothing has a weight, unless it is for direct lookup.  The
\* order of virtual nodes that agree in identifier and node does not matter.
hash_init(nodes, direct, ids) ==
  [nodes |-> nodes, direct |-> direct,
   vnodes |-> SetToSortSeq({VNode(ids[s], s[1], s[2]) : s \in Strings(nodes, direct)},
                           LAMBDA a, b : compare_nodes(a, b)
                                           \/ (a.id = b.id /\ a.num = b.num /\ a.k < b.k))]
IsTable(nodes, direct) == nodes # <<>> /\ (direct \/ TotalWeight(nodes) > 0)

(* the tables of the configuration *)
\* the subspaces of a namespace: distinct names, weight 0
NsNodes == {[i \in DOMAIN s |-> Node(s[i], 0)] :
              s \in {q \in UNION {[1..n -> Names] : n \in 1..MaxSubspaces} : IsInjective(q)}}
\* a distribution: cnt targets named by their number, each with its weight
create_distribution_table == {[i \in DOMAIN w |-> Node(<<i - 1>>, w[i])] : w \in Weights}
\* the reference directories: the digits of 0 .. breadth^depth - 1 in base breadth
config_genreftable(b, d) ==
  [n \in 1..(b^d) |-> Node([k \in 1..d |-> ((n - 1) \div (b^(d - k))) % b], 1)]
RefNodes == {config_genreftable(bd[1], bd[2]) : bd \in Breadths}

LookUp(t, name, tid) ==
  /\ table = t
  /\ target = [name |-> name, id |-> tid]
  /\ search = [min |-> 1, max |-> Len(t.vnodes) + 1, cur |-> (Len(t.vnodes) \div 2) + 1,
               tmp |-> 0, step |-> 1, pc |-> "search"]
  /\ found = [node |-> 0, ret |-> 1]
\* the bare name of a node without weight has an identifier of its own in the table
TidOf(nodes, ids, name) ==
  IF \E i \in DOMAIN nodes : nodes[i].name = name
  THEN {ids[<<CHOOSE i \in DOMAIN nodes : nodes[i].name = name, Own>>]} ELSE Identifiers
InitDirect ==
  \E nodes \in NsNodes : \E ids \in [Strings(nodes, TRUE) -> Identifiers] : \E name \in Names :
    \E tid \in TidOf(nodes, ids, name) : LookUp(hash_init(nodes, TRUE, ids), name, tid)
InitWeighted ==
  \E nodes \in create_distribution_table \cup RefNodes :
    /\ IsTable(nodes, FALSE)
    /\ \E ids \in [Strings(nodes, FALSE) -> Identifiers] : \E name \in Names, tid \in Identifiers :
         LookUp(hash_init(nodes, FALSE, ids), name, tid)
InitIdle ==
  /\ table = [nodes |-> <<>>, direct |-> FALSE, vnodes |-> <<>>] /\ target = [name |-> <<>>, id |-> 0]
  /\ search = [min |-> 0, max |-> 0, cur |-> 0, tmp |-> 0, step |-> 0, pc |-> "idle"]
  /\ found = [node |-> 0, ret |-> 1]

-----------------------------------------------------------------------------
(* hash_lookup(), indices from 1 *)

NameAt(i) == table.nodes[table.vnodes[i].num].name
IdAt(i) == table.vnodes[i].id
Next3(min, max, pc) ==
  search' = [search EXCEPT !.min = min, !.max = max, !.cur = min + ((max - min) \div 2), !.pc = pc]

\* one round of the binary search
Halve ==
  /\ search.pc = "search" /\ search.min # search.max
  /\ LET c == search.cur
     IN  \/ /\ IdAt(c) > target.id
            /\ Next3(search.min, c, "search") /\ UNCHANGED found
         \/ /\ IdAt(c) < target.id
            /\ Next3(c + 1, search.max, "search") /\ UNCHANGED found
         \/ /\ IdAt(c) = target.id /\ NameAt(c) = target.name
            /\ search' = [search EXCEPT !.max = c, !.pc = "found"]
            /\ found' = [found EXCEPT !.ret = 0]
         \/ /\ IdAt(c) = target.id /\ NameAt(c) # target.name   \* a collision
            /\ search' = [search EXCEPT !.tmp = c + 1, !.step = 1, !.pc = "collision"]
            /\ UNCHANGED found
  /\ UNCHANGED <<table, target>>
Narrowed ==
  /\ search.pc = "search" /\ search.min = search.max
  /\ search' = [search EXCEPT !.pc = "found"]
  /\ UNCHANGED <<table, target, found>>
Same(i) == i # search.max /\ IdAt(i) = target.id
\* Mutant: the neighbours of a collision are looked at in one direction only
CollideOneWay ==
  /\ search.pc = "collision"
  /\ LET t == search.tmp
     IN  IF ~Same(t) THEN search' = [search EXCEPT !.pc = "found"] /\ UNCHANGED found
         ELSE IF NameAt(t) = target.name
         THEN search' = [search EXCEPT !.cur = t, !.pc = "found"] /\ found' = [found EXCEPT !.ret = 0]
         ELSE search' = [search EXCEPT !.tmp = t + search.step] /\ UNCHANGED found
  /\ UNCHANGED <<table, target>>
\* among the neighbours with the same identifier, first above and then below, the one with
\* the name is looked for
Collide ==
  /\ search.pc = "collision"
  /\ LET t == search.tmp
     IN  IF ~Same(t)
         THEN /\ search' = IF search.step > 0 /\ search.cur # 1
                           THEN [search EXCEPT !.step = 0, !.tmp = search.cur - 1]
                           ELSE [search EXCEPT !.pc = "found"]
              /\ UNCHANGED found
         ELSE IF NameAt(t) = target.name
         THEN search' = [search EXCEPT !.cur = t, !.pc = "found"] /\ found' = [found EXCEPT !.ret = 0]
         ELSE /\ search' = IF t = search.min THEN [search EXCEPT !.pc = "found"]
                           ELSE [search EXCEPT !.tmp = IF search.step > 0 THEN t + 1 ELSE t - 1]
              /\ UNCHANGED found
  /\ UNCHANGED <<table, target>>
\* beyond the last virtual node the ring goes on with the first
Wrap(i) == IF i > Len(table.vnodes) THEN 1 ELSE i
Found ==
  /\ search.pc = "found"
  /\ found' = [found EXCEPT !.node = Wrap(search.cur)]
  /\ search' = [search EXCEPT !.pc = "done"]
  /\ UNCHANGED <<table, target>>

hash_lookup == Halve \/ Narrowed \/ Collide \/ Found

-----------------------------------------------------------------------------
(* Properties *)

\* the identifier the ring has at or after an identifier, going round
Successor(id) ==
  LET at == {v.id : v \in ToSet(table.vnodes)}
      up == {i \in at : i >= id}
      s  == IF up = {} THEN at ELSE up
  IN  CHOOSE i \in s : \A j \in s : i <= j
\* A lookup ends (hash_lookup()) on the virtual node that follows the identifier of the string
\* round the ring, so every process finds the same one; the lowest of them unless the
\* identifier is there itself.  A subspace is found if and only if its name is in the table,
\* whatever other names share its identifier.  A node without weight gets no file and no object.
LookupIsRight ==
  search.pc = "done" =>
    LET v == table.vnodes[found.node]
    IN  /\ v.id = Successor(target.id)
        /\ v.id # target.id => found.node = 1 \/ IdAt(found.node - 1) # v.id
        /\ table.direct =>
             /\ (found.ret = 0) <=> (\E n \in ToSet(table.nodes) : n.name = target.name)
             /\ found.ret = 0 => table.nodes[v.num].name = target.name
        /\ ~table.direct => found.ret = 1 /\ table.nodes[v.num].weight > 0
=============================================================================

------------------------------ MODULE ConfigLoad ------------------------------
(***************************************************************************)
(* config.c: how a configuration file becomes a tree of namespaces         *)
(* (config_init), how that tree is walked to create and check what it      *)
(* names (config_verify), and how it is given back (config_term).          *)
(*                                                                         *)
(* The file is read as a sequence of elements.  Declaration i makes        *)
(* one hash node (with the name) and one structure; both are therefore     *)
(* numbered by declarations, but linking a remote namespace moves a        *)
(* structure to another node.  0 is the NULL pointer.  The text of the     *)
(* elements is abstracted: one that does not parse is BadElement.  The     *)
(* paths of namespaces are sequences of names, the root's is empty.        *)
(***************************************************************************)
EXTENDS Naturals, Sequences, SequencesExt

CONSTANTS
  ConfigFiles,  \* the files: sequences of elements, as they begin and end
  RootName,     \* "root"
  Mdal,         \* the kind of MDAL each repository has; repositories are 1..Len(Mdal)
  Disks         \* what config_verify() may find on the MDALs: sets of <<repository, path>>.
                \* Bound: it is called once.

\* An element as the parser comes to it: its beginning (of namespaces: an element with kind,
\* name, and for <rns> and <gns> repo and nstgt), its end, or all of it
Events == {"repo", "/repo", "data", "meta", "/meta", "ns", "/ns", "perms", "bad"}

ASSUME ConfigAssumption ==
  \A f \in ConfigFiles : \A i \in DOMAIN f : f[i].ev \in Events

VARIABLES
  rest,    \* what is left to read of the file
  decl,    \* the declarations read: kind, name, target repository and path
  node,    \* the content of each hash node
  st,      \* the structures
  repo,    \* the repositories: tables, contexts and list of namespaces
  stack,   \* the elements that are open
  cur,     \* curns of establish_nsrefs()
  frees,   \* how often each structure was freed
  disk,    \* the namespaces there are on the MDALs: <<repository, path>>
  walk,    \* the config_verify() at work
  pc       \* what is being done

cfgvars == <<rest, decl, node, st, repo, stack, cur, frees, disk, walk, pc>>

Decls == DOMAIN decl
IdString(r, p) == [repo |-> r, path |-> p]
Update(f, i, v) == [f EXCEPT ![i] = v]
Position(src, tgt, path, perms) == [src |-> src, tgt |-> tgt, path |-> path, perms |-> perms]
Abandoned == Position(0, 0, <<>>, {})
NoWalk == [pos |-> Abandoned, from |-> Abandoned, iter |-> <<>>, seen |-> <<>>, fix |-> FALSE,
           create |-> FALSE, errs |-> 0, vrepos |-> {}, res |-> "none"]
NoRepo == [tables |-> {}, nectxt |-> FALSE, mdal |-> FALSE, ns |-> <<>>, perms |-> {}]

Begin(files, doing) ==
  /\ rest \in files /\ pc = doing
  /\ decl = <<>> /\ node = <<>> /\ st = <<>> /\ stack = <<>> /\ frees = <<>>
  /\ repo = <<>> /\ cur = 0 /\ disk = {} /\ walk = NoWalk
InitConfig == Begin(ConfigFiles, "read")
NoConfig == Begin({<<>>}, "idle")

-----------------------------------------------------------------------------
(* Giving back *)

\* what nodes and structures hold, what linking has freed, and whether it succeeded
Heap == [node |-> node, st |-> st, freed |-> <<>>, ok |-> TRUE]
\* the structures freed: that of a node, with those below it
RECURSIVE free_namespace(_, _)
free_namespace(h, n) ==
  IF h.node[n] = 0 THEN <<>>
  ELSE Append(FlattenSeq([k \in DOMAIN h.st[h.node[n]].subnodes |->
                            free_namespace(h, h.st[h.node[n]].subnodes[k])]), h.node[n])
free_namespaces(h, list) == FlattenSeq([k \in DOMAIN list |-> free_namespace(h, list[k])])
Freed(list) == [i \in DOMAIN frees |-> frees[i] + Len(SelectSeq(list, LAMBDA s : s = i))]
free_repo(h, r) == free_namespaces(h, repo[r].ns)
config_term(h) == FlattenSeq([r \in DOMAIN repo |-> free_repo(h, r)])
\* the namespace being made, with those it is in: each frees the subspaces it has, and itself
Unwound == FlattenSeq([k \in DOMAIN stack |->
                         Append(free_namespaces(Heap, st[stack[k]].made), stack[k])])
GiveUp(h) ==
  /\ node' = h.node /\ st' = h.st
  /\ frees' = Freed(h.freed \o Unwound \o config_term(h))
  /\ pc' = "failed"
  /\ stack' = <<>> /\ rest' = <<>>
  /\ UNCHANGED <<decl, repo, cur, disk, walk>>

-----------------------------------------------------------------------------
(* Repositories *)

ThisRepo == Len(repo)
Comes(ev) == rest # <<>> /\ Head(rest).ev = ev
OpenRepo ==
  /\ Comes("repo")
  /\ repo' = Append(repo, NoRepo)
  /\ rest' = Tail(rest)
  /\ UNCHANGED <<decl, node, st, stack, cur, frees, disk, walk, pc>>

\* the elements of <data>: the tables once each, the DAL once, and the context at the end
\* (no table can be made when nothing has a weight)
DataStep(e, d) ==
  CASE ~d.ok -> d
    [] e = "dal" -> [d EXCEPT !.ok = ~d.dal, !.dal = TRUE]
    [] e \in {"pods", "caps", "scatters"} ->
         [d EXCEPT !.ok = e \notin d.tables, !.tables = @ \cup {e}]
    [] e \in {"protection", "packing", "chunking", "disabled"} -> d
    [] OTHER -> [d EXCEPT !.ok = FALSE]
parse_datascheme(elems) ==
  FoldLeft(LAMBDA d, e : DataStep(e, d), [ok |-> TRUE, dal |-> FALSE, tables |-> {}], elems)
\* without the context create_repo() gives the repository back
DataSection ==
  /\ Comes("data")
  /\ LET d == parse_datascheme(Head(rest).data)
     IN  IF d.ok /\ d.dal
         THEN /\ repo' = Update(repo, ThisRepo, [repo[ThisRepo] EXCEPT !.tables = d.tables, !.nectxt = TRUE])
              /\ rest' = Tail(rest)
              /\ UNCHANGED <<decl, node, st, stack, cur, frees, disk, walk, pc>>
         ELSE GiveUp(Heap)
OpenMeta ==
  /\ Comes("meta")
  /\ rest' = Tail(rest)
  /\ UNCHANGED <<decl, node, st, repo, stack, cur, frees, disk, walk, pc>>
\* the end of <meta>: without the MDAL the repository is given back
CloseMeta ==
  /\ Comes("/meta")
  /\ IF Head(rest).ok
     THEN /\ repo' = Update(repo, ThisRepo, [repo[ThisRepo] EXCEPT !.mdal = TRUE])
          /\ rest' = Tail(rest)
          /\ UNCHANGED <<decl, node, st, stack, cur, frees, disk, walk, pc>>
     ELSE GiveUp(Heap)
create_repo ==
  /\ Comes("/repo")
  /\ IF repo[ThisRepo].nectxt /\ repo[ThisRepo].mdal
     THEN /\ rest' = Tail(rest)
          /\ UNCHANGED <<decl, node, st, repo, stack, cur, frees, disk, walk, pc>>
     ELSE GiveUp(Heap)

-----------------------------------------------------------------------------
(* Namespaces *)

Outer == IF stack = <<>> THEN 0 ELSE Last(stack)
Inherited == IF Outer = 0 THEN repo[ThisRepo].perms ELSE st[Outer].perms
\* an rns has no repository yet, and its id is the name of the one it is in; a gns has its
\* target for an id
Structure(d, i) ==
  [prepo |-> IF d.kind = "rns" THEN 0 ELSE ThisRepo,
   pnamespace |-> Outer,
   id |-> CASE d.kind = "rns" -> IdString(d.repo, <<>>)
            [] d.kind = "gns" -> IdString(d.repo, d.nstgt)
            [] d.kind = "ns" -> IdString(ThisRepo, IF Outer = 0 THEN <<d.name>>
                                                   ELSE Append(st[Outer].id.path, d.name)),
   ghtarget |-> IF d.kind = "gns" THEN i ELSE 0,
   perms |-> Inherited, made |-> <<>>, subnodes |-> <<>>, iterated |-> 0]
\* what create_namespace() refuses before it makes anything
Refused(d) ==
  \/ d.kind \in {"rns", "gns"} /\ Outer = 0
  \/ d.kind = "rns" /\ (d.name = RootName \/ d.repo = ThisRepo)
  \/ Outer # 0 /\ decl[Outer].kind = "gns"
\* create_namespace() up to its subspaces
OpenNs ==
  /\ Comes("ns")
  /\ LET i == Len(decl) + 1
         d == Head(rest).elem
     IN  IF Refused(d) THEN GiveUp(Heap)
         ELSE /\ decl' = Append(decl, d)
              /\ node' = Append(node, i)
              /\ st' = Append(st, Structure(d, i))
              /\ frees' = Append(frees, 0)
              /\ stack' = Append(stack, i)
              /\ rest' = Tail(rest)
              /\ UNCHANGED <<repo, cur, disk, walk, pc>>
\* <perms> holds for the namespaces that follow it; beside the namespaces, for the repository
PermsElement ==
  /\ Comes("perms")
  /\ LET p == Head(rest).perms
     IN  IF Outer = 0 THEN repo' = Update(repo, ThisRepo, [repo[ThisRepo] EXCEPT !.perms = p]) /\ st' = st
         ELSE st' = Update(st, Outer, [st[Outer] EXCEPT !.perms = p]) /\ repo' = repo
  /\ rest' = Tail(rest)
  /\ UNCHANGED <<decl, node, stack, cur, frees, disk, walk, pc>>
\* an element that is not known or does not parse (parse_perms, parse_quotas, ...)
BadElement == Comes("bad") /\ GiveUp(Heap)

Siblings(i) == IF st[i].pnamespace = 0 THEN repo[ThisRepo].ns ELSE st[st[i].pnamespace].made
find_namespace(list, name) == {n \in ToSet(list) : decl[n].name = name}
\* the end of an element: the subspaces get their table, and the parent takes the node unless
\* it has one of that name
CloseNs ==
  /\ Comes("/ns")
  /\ LET i == Outer
         p == st[i].pnamespace
         done == Update(st, i, [st[i] EXCEPT !.subnodes = st[i].made])
     IN  IF find_namespace(Siblings(i), decl[i].name) # {} THEN GiveUp(Heap)
         ELSE /\ st' = IF p = 0 THEN done ELSE Update(done, p, [st[p] EXCEPT !.made = Append(@, i)])
              /\ repo' = IF p # 0 THEN repo
                         ELSE Update(repo, ThisRepo, [repo[ThisRepo] EXCEPT !.ns = Append(@, i)])
              /\ stack' = Front(stack) /\ rest' = Tail(rest)
              /\ UNCHANGED <<decl, node, cur, frees, disk, walk, pc>>

-----------------------------------------------------------------------------
(* establish_nsrefs() *)

Roots == UNION {find_namespace(repo[r].ns, RootName) : r \in DOMAIN repo}
RootNs == node[CHOOSE n \in Roots : TRUE]
StartLinking ==
  /\ pc = "read" /\ rest = <<>>
  /\ IF \E n \in Roots : Roots = {n}
     THEN /\ cur' = RootNs
          /\ st' = Update(st, RootNs, [st[RootNs] EXCEPT !.id = IdString(st[RootNs].prepo, <<>>)])
          /\ pc' = "link"
          /\ UNCHANGED <<rest, decl, node, repo, stack, frees, disk, walk>>
     ELSE GiveUp(Heap)

\* Mutant: the node of the remote namespace keeps its content
linkremotensShared(h, n, parent) ==
  LET r == h.st[h.node[n]].id.repo
      top == IF r \notin DOMAIN repo THEN {} ELSE find_namespace(repo[r].ns, decl[n].name)
      t == h.node[CHOOSE x \in top : TRUE]
  IN  IF top = {} THEN [h EXCEPT !.ok = FALSE]
      ELSE IF h.st[t].pnamespace # 0 THEN [h EXCEPT !.ok = FALSE]
      ELSE [h EXCEPT !.node[n] = t, !.st[t].pnamespace = parent, !.freed = Append(@, h.node[n])]
\* linkremotens(): the structure of the remote namespace moves to node n, whose own goes
linkremotens(h, n, parent) ==
  LET r == h.st[h.node[n]].id.repo
      top == IF r \notin DOMAIN repo THEN {} ELSE find_namespace(repo[r].ns, decl[n].name)
      m == CHOOSE x \in top : TRUE
      t == h.node[m]
  IN  IF top = {} THEN [h EXCEPT !.ok = FALSE]
      ELSE IF t = 0 \/ h.st[t].pnamespace # 0 THEN [h EXCEPT !.ok = FALSE]
      ELSE [h EXCEPT !.node = [h.node EXCEPT ![n] = t, ![m] = 0],
                     !.st[t].pnamespace = parent, !.freed = Append(@, h.node[n])]
\* the node of a target path, from the root by the names of subspaces; 0 for the root itself
RECURSIVE Resolve(_, _, _)
Resolve(n, s, path) ==
  IF path = <<>> THEN [ok |-> TRUE, node |-> n]
  ELSE LET sub == find_namespace(st[s].subnodes, Head(path))
       IN  IF sub = {} THEN [ok |-> FALSE, node |-> 0]
           ELSE LET k == CHOOSE x \in sub : TRUE IN Resolve(k, node[k], Tail(path))
\* the target of a ghost; a remote one is linked first
ResolveGhost(h, n) ==
  LET s == h.node[n]
      r == Resolve(0, RootNs, h.st[s].id.path)
      old == IF r.node = 0 THEN RootNs ELSE h.node[r.node]
      l == IF h.st[old].prepo = 0 THEN linkremotens(h, r.node, h.st[old].pnamespace) ELSE h
      t == IF r.node = 0 THEN RootNs ELSE l.node[r.node]
  IN  IF ~r.ok THEN [h EXCEPT !.ok = FALSE]
      ELSE IF ~l.ok THEN l
      ELSE IF Mdal[l.st[t].prepo] # Mdal[l.st[s].prepo] THEN [l EXCEPT !.ok = FALSE]
      ELSE [l EXCEPT !.st[s].ghtarget = t]
SubspaceLinked(n) ==
  LET h == IF st[node[n]].ghtarget # 0 THEN ResolveGhost(Heap, n) ELSE Heap
  IN  IF h.ok /\ h.st[h.node[n]].prepo = 0 THEN linkremotens(h, n, cur) ELSE h
hash_iterate(i) == i + 1
hash_reset == 0
\* the next subspace of the current namespace gets its references and its id
LinkDown ==
  /\ pc = "link" /\ st[cur].iterated < Len(st[cur].subnodes)
  /\ LET n == st[cur].subnodes[st[cur].iterated + 1]
     IN  \E h \in {SubspaceLinked(n)} :
           IF ~h.ok THEN GiveUp(h)
           ELSE /\ node' = h.node
                /\ frees' = Freed(h.freed)
                /\ cur' = h.node[n]
                /\ st' = [h.st EXCEPT ![cur].iterated = hash_iterate(@),
                            ![cur'].id = IdString(h.st[cur'].prepo, Append(st[cur].id.path, decl[n].name))]
                /\ UNCHANGED <<rest, decl, repo, stack, disk, walk, pc>>
LinkUp ==
  /\ pc = "link" /\ st[cur].iterated >= Len(st[cur].subnodes)
  /\ st' = Update(st, cur, [st[cur] EXCEPT !.iterated = hash_reset])
  /\ cur' = st[cur].pnamespace
  /\ pc' = IF cur' = 0 THEN "loaded" ELSE pc
  /\ UNCHANGED <<rest, decl, node, repo, stack, frees, disk, walk>>
Terminate ==
  /\ pc = "loaded"
  /\ frees' = Freed(config_term(Heap)) /\ pc' = "closed"
  /\ UNCHANGED <<rest, decl, node, st, repo, stack, cur, disk, walk>>

-----------------------------------------------------------------------------
(* config_verify().  A position in a ghost is a copy that knows its source *)
(* and stands for one namespace (tgt) at or below the source's target.     *)

PositionAt(s) == Position(0, s, st[s].id.path, st[s].perms)
\* config_enterns() without a context: into a subspace or up to the parent; above the root
\* the position stays
\* Mutant: out of a ghost one comes to the parent of its target
EnterToTarget(p, next, name, ascending) ==
  IF p.src = 0
  THEN IF next = 0 THEN p
       ELSE IF st[next].ghtarget = 0 THEN PositionAt(next)
       ELSE IF ascending THEN Abandoned
       ELSE Position(next, st[next].ghtarget, st[next].id.path,
                     st[next].perms \cap st[st[next].ghtarget].perms)
  ELSE IF ascending /\ next = st[st[p.src].ghtarget].pnamespace
       THEN IF next = 0 THEN PositionAt(RootNs) ELSE PositionAt(next)
  ELSE IF st[next].ghtarget # 0 THEN Abandoned
  ELSE Position(p.src, next, IF ascending THEN Front(p.path) ELSE Append(p.path, name),
                st[p.src].perms \cap st[next].perms)
Enter(p, next, name, ascending) ==
  IF p.src = 0
  THEN IF next = 0 THEN p
       ELSE IF st[next].ghtarget = 0 THEN PositionAt(next)
       ELSE IF ascending THEN Abandoned
       ELSE Position(next, st[next].ghtarget, st[next].id.path,
                     st[next].perms \cap st[st[next].ghtarget].perms)
  ELSE IF ascending /\ next = st[st[p.src].ghtarget].pnamespace THEN PositionAt(st[p.src].pnamespace)
  ELSE IF st[next].ghtarget # 0 \/ (ascending /\ Len(p.path) = 1) THEN Abandoned
  ELSE Position(p.src, next, IF ascending THEN Front(p.path) ELSE Append(p.path, name),
                st[p.src].perms \cap st[next].perms)
\* a ghost does not show the ghosts among the subspaces of its target
SubnodesOf(p) == IF p.src = 0 THEN st[p.tgt].subnodes
                 ELSE SelectSeq(st[p.tgt].subnodes, LAMBDA n : st[node[n]].ghtarget = 0)

\* what there is on the MDAL of a repository: a namespace with its references, and the
\* directories above it
HasRefs(r, path) == <<r, path>> \in disk
HasDir(r, path) == \E d \in disk : d[1] = r /\ IsPrefix(path, d[2])
\* a context for a position: the paths are those of the ghost, in its repository, and the
\* references those of the namespace shown
Fortifies(p) ==
  /\ HasRefs(st[p.tgt].prepo, st[p.tgt].id.path)
  /\ p.src # 0 => HasDir(st[p.src].prepo, p.path)

StartVerify ==
  /\ pc = "loaded" /\ walk.res = "none"
  /\ \E fix \in BOOLEAN, there \in Disks :
       LET root == <<st[RootNs].prepo, <<>>>>
           w == [NoWalk EXCEPT !.fix = fix, !.pos = PositionAt(RootNs)]
       IN  /\ disk' = IF fix THEN there \cup {root} ELSE there
           /\ IF root \in disk' THEN pc' = "seek" /\ walk' = w
              ELSE pc' = pc /\ walk' = [w EXCEPT !.res = "fail"]
  /\ UNCHANGED <<rest, decl, node, st, repo, stack, cur, frees>>
\* config_traverse() to the namespace named: each on the way is entered with a context
SeekDown ==
  /\ pc = "seek"
  /\ \E n \in ToSet(SubnodesOf(walk.pos)) :
       IF Fortifies(walk.pos)
       THEN pc' = pc /\ walk' = [walk EXCEPT !.pos = Enter(walk.pos, node[n], decl[n].name, FALSE)]
       ELSE pc' = "loaded" /\ walk' = [walk EXCEPT !.res = "fail"]
  /\ UNCHANGED <<rest, decl, node, st, repo, stack, cur, frees, disk>>
StartWalk ==
  /\ pc = "seek"
  /\ walk' = [walk EXCEPT !.from = walk.pos, !.iter = <<0>>, !.create = TRUE]
  /\ pc' = "walk"
  /\ UNCHANGED <<rest, decl, node, st, repo, stack, cur, frees, disk>>
\* createnamespace() on the MDAL of the namespace shown
Created(p) == IF walk.fix THEN disk \cup {<<st[p.tgt].prepo, p.path>>} ELSE disk
\* the namespace at the position: its repository is checked once (checksec, ne_verify: no
\* problem, a problem, a failure), and it is made or looked for
VerifyHere ==
  /\ pc = "walk" /\ walk.iter # <<>> /\ walk.create
  /\ LET p == walk.pos
         r == st[p.tgt].prepo
     IN  \E check \in (IF r \in walk.vrepos THEN {"ok"} ELSE {"ok", "problem", "failure"}) :
           IF check = "failure"
           THEN /\ walk' = [walk EXCEPT !.res = "fail"] /\ pc' = "loaded" /\ UNCHANGED disk
           ELSE /\ disk' = Created(p)
                /\ walk' = [walk EXCEPT !.create = FALSE, !.seen = Append(@, p), !.vrepos = @ \cup {r},
                              !.errs = @ + (IF check = "problem" THEN 1 ELSE 0)
                                         + (IF p.src = 0 /\ <<r, p.path>> \notin disk' THEN 1 ELSE 0)]
                /\ UNCHANGED pc
  /\ UNCHANGED <<rest, decl, node, st, repo, stack, cur, frees>>
VerifyDown ==
  /\ pc = "walk" /\ walk.iter # <<>> /\ ~walk.create
  /\ Last(walk.iter) < Len(SubnodesOf(walk.pos))
  /\ LET n == SubnodesOf(walk.pos)[Last(walk.iter) + 1]
         p == Enter(walk.pos, node[n], decl[n].name, FALSE)
     IN  IF p = Abandoned THEN walk' = [walk EXCEPT !.res = "lost"] /\ pc' = "loaded"
         ELSE /\ walk' = [walk EXCEPT !.pos = p, !.create = TRUE,
                            !.iter = Append(Append(Front(@), Last(@) + 1), 0)]
              /\ UNCHANGED pc
  /\ UNCHANGED <<rest, decl, node, st, repo, stack, cur, frees, disk>>
VerifyUp ==
  /\ pc = "walk" /\ walk.iter # <<>> /\ ~walk.create
  /\ Last(walk.iter) >= Len(SubnodesOf(walk.pos))
  /\ LET p == Enter(walk.pos, st[walk.pos.tgt].pnamespace, "..", TRUE)
     IN  IF p = Abandoned THEN walk' = [walk EXCEPT !.res = "lost"] /\ pc' = "loaded"
         ELSE walk' = [walk EXCEPT !.pos = p, !.iter = Front(@)] /\ UNCHANGED pc
  /\ UNCHANGED <<rest, decl, node, st, repo, stack, cur, frees, disk>>
EndWalk ==
  /\ pc = "walk" /\ walk.iter = <<>>
  /\ walk' = [walk EXCEPT !.res = "ok"] /\ pc' = "loaded"
  /\ UNCHANGED <<rest, decl, node, st, repo, stack, cur, frees, disk>>

Read == OpenRepo \/ DataSection \/ OpenMeta \/ CloseMeta \/ create_repo \/ OpenNs \/ PermsElement
        \/ BadElement \/ CloseNs
establish_nsrefs == StartLinking \/ LinkDown \/ LinkUp
config_verify == VerifyHere \/ VerifyDown \/ VerifyUp \/ EndWalk
LoadNext == Read \/ establish_nsrefs \/ Terminate \/ StartVerify \/ SeekDown \/ StartWalk \/ config_verify

-----------------------------------------------------------------------------
(* Properties *)

Loaded == pc \in {"loaded", "seek", "walk"}
\* the nodes of the tree, from the one of the root
RECURSIVE NodesBelow(_)
NodesBelow(n) == {n} \cup UNION {NodesBelow(k) : k \in ToSet(st[node[n]].subnodes)}
Tree == {node[n] : n \in NodesBelow(CHOOSE n \in Roots : TRUE)}

\* However a configuration ends (an element that does not parse, a reference that cannot be
\* resolved, config_term()), each namespace structure made has been freed, and none twice:
\* remote namespaces change owners while establish_nsrefs() is on its way.
FreedOnce ==
  /\ \A i \in Decls : frees[i] <= 1
  /\ pc \in {"failed", "closed"} => \A i \in Decls : frees[i] = 1

\* In a configuration that was accepted every namespace in the tree (config->rootns) is in it
\* once, in the repository that declares it, knows the parent it is found under and has the path
\* by which it is found; no remote reference is left, every ghost has a target in the tree, and
\* nothing in the tree or referred to from it has been freed.
LoadedIsSound ==
  Loaded =>
    LET root == CHOOSE n \in Roots : TRUE
    IN  /\ \A a, b \in NodesBelow(root) : node[a] = node[b] => a = b
        /\ \A n \in NodesBelow(root) :
             /\ st[node[n]].prepo # 0 /\ frees[node[n]] = 0 /\ st[node[n]].id.repo = st[node[n]].prepo
             /\ st[node[n]].ghtarget # 0 => st[node[n]].ghtarget \in Tree
             /\ \A k \in ToSet(st[node[n]].subnodes) :
                  /\ st[node[k]].pnamespace = node[n]
                  /\ st[node[k]].id.path = Append(st[node[n]].id.path, decl[k].name)

\* the paths at and below a position: those of the tree and, for each ghost, those of the
\* namespaces below its target that are no ghosts
Below(path) == {s \in Tree : IsPrefix(path, st[s].id.path)}
Shown(s, as) ==
  IF st[s].ghtarget # 0 THEN {as}
  ELSE {as \o SubSeq(st[d].id.path, Len(st[s].id.path) + 1, Len(st[d].id.path)) :
          d \in {b \in Below(st[s].id.path) : st[b].ghtarget = 0}}
PathsAt(p) ==
  IF p.src # 0 THEN Shown(p.tgt, p.path)
  ELSE UNION {IF st[s].ghtarget = 0 THEN {st[s].id.path} ELSE Shown(st[s].ghtarget, st[s].id.path) :
                s \in Below(p.path)}
SeenPaths == {walk.seen[i].path : i \in DOMAIN walk.seen}
\* A config_verify() that is not stopped by a check comes to every namespace at and below the
\* one it was given, to each once, through ghosts too, and always finds its way back.
VerifyCoversAll ==
  /\ walk.res # "lost"
  /\ walk.res = "ok" => /\ SeenPaths = PathsAt(walk.from)
                        /\ IsInjective([i \in DOMAIN walk.seen |-> walk.seen[i].path])

\* When config_verify() has reported no error, what it has looked at can be entered: always for
\* a namespace, and for a ghost if it was told to make what is missing and the ghost and
\* the namespace it shows are in one repository.
VerifiedIsUsable ==
  walk.res = "ok" /\ walk.errs = 0 /\ walk.from.src = 0 =>
    \A i \in DOMAIN walk.seen :
      LET p == walk.seen[i]
      IN  p.src = 0 \/ (walk.fix /\ st[p.src].prepo = st[p.tgt].prepo
                          /\ st[p.tgt].id.path \in SeenPaths)
            => Fortifies(p)

\* Wherever one is within a ghost (config_enterns()), it allows nothing that the ghost or the
\* namespace it shows there does not allow.
GhostIsNoWider ==
  walk.pos.src # 0 => walk.pos.perms \subseteq st[walk.pos.src].perms \cap st[walk.pos.tgt].perms

\* A configuration that loads is a tree without loose ends; one that does not is given back.
ConfigIsSound == FreedOnce /\ LoadedIsSound

\* config_verify() sees all there is, finds what cannot be used, and a ghost gives no more.
VerifyIsRight == VerifyCoversAll /\ VerifiedIsUsable /\ GhostIsNoWider
=============================================================================

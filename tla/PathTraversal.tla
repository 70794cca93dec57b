---------------------------- MODULE PathTraversal ----------------------------
(***************************************************************************)
(* From a path to a namespace, an MDAL context and a path below it:        *)
(* config_traverse() and what it calls (config_shiftns, config_enterns,    *)
(* config_validatemnt, the positions of config.c), over the contexts of    *)
(* posix_mdal.c, for the contexts of the API (marfs_opendir, marfs_chdir). *)
(*                                                                         *)
(* Namespaces form a tree of their own beside the directories in each of   *)
(* them.  A ghost namespace has the paths of its own directory tree and    *)
(* the references (and the subspaces) of its target.  A path is a sequence *)
(* of elements that begins with "/" when it is absolute.  In every         *)
(* namespace there is a directory "d", and beside the private directories  *)
(* of the MDAL at its root, which share a prefix, stand users' files only. *)
(***************************************************************************)
EXTENDS Naturals, Sequences, SequencesExt

CONSTANTS
  NSs,         \* the namespaces of the configuration
  Root,        \* the one at the mountpoint
  Parent,      \* of every namespace but the root
  Name,        \* its name there
  GhTarget,    \* of a ghost namespace, its target; NoNS for others
  Repo,        \* the repository it belongs to
  NoNS,
  Mount,       \* the elements of the mountpoint
  Paths,       \* the paths a caller may give
  Links,       \* where the symlink may be, and what it holds: records [ns, dir, to]
  ChdirsAway   \* may the working directory of a context become another one than the root?

ASSUME PathAssumption ==
  /\ Root \in NSs /\ NoNS \notin NSs /\ Mount # <<>> /\ ChdirsAway \in BOOLEAN
  /\ \A n \in NSs \ {Root} : Parent[n] \in NSs
  /\ \A n \in NSs : GhTarget[n] \in NSs => GhTarget[GhTarget[n]] = NoNS

VARIABLES
  cwd,   \* the position of the context: namespace, depth and MDAL context
  link,  \* the symlink there is
  op     \* the traversal at work

vars == <<cwd, link, op>>

LinkName == "l"
Private == "MDAL_"          \* stands for every name with the prefix of the MDAL
DirName == "d"
None == [none |-> TRUE]

\* the path of a namespace from the root of its MDAL (idstr)
RECURSIVE Id(_)
Id(n) == IF n = Root THEN <<>> ELSE Append(Id(Parent[n]), Name[n])
\* A namespace as a position refers to it: a ghost is a copy that knows its source, and
\* the target it stands for at this point.
Plain(n) == [src |-> NoNS, tgt |-> n, id |-> Id(n)]
\* directories: the path of a namespace, and the path below it
Dir(id, dir) == [id |-> id, dir |-> dir]
\* every subspace of a namespace has a directory in the MDAL; within a ghost, too

NsIds(n) == {Id(n)} \cup (IF GhTarget[n] = NoNS THEN {} ELSE
              {Id(n) \o SubSeq(i, Len(Id(GhTarget[n])) + 1, Len(i)) :
                 i \in {Id(m) : m \in {k \in NSs : IsPrefix(Id(GhTarget[n]), Id(k))
                                         /\ GhTarget[k] = NoNS}}})
Ids == UNION {NsIds(n) : n \in NSs}
IsLink(node) == link # None /\ node.id = Id(link.ns) /\ node.dir = Append(link.dir, LinkName)
Exists(node) == node.id \in Ids /\ (node.dir \in {<<>>, <<DirName>>, <<Private>>} \/ IsLink(node))

-----------------------------------------------------------------------------
(* The contexts of the MDAL: pathd is the directory paths start from, refd *)
(* the namespace whose reference tree is in use                            *)

newctxt(n) == [pathd |-> Dir(Id(n), <<>>), refd |-> Id(n)]
newsplitctxt(pathid, n) == [pathd |-> Dir(pathid, <<>>), refd |-> Id(n)]
\* the directory of a namespace relative to the reference tree: one element up is two
\* directories up, one element down is two down
namespacepath(refd, e) == IF e = ".." THEN (IF refd = <<>> THEN <<"?">> ELSE Front(refd))
                          ELSE Append(refd, e)
setnamespace(ctxt, e) ==
  LET id == namespacepath(ctxt.refd, e)
  IN  IF id \in Ids THEN [pathd |-> Dir(id, <<>>), refd |-> id] ELSE None
pathfilter(e) == e = Private
\* what the kernel makes of a relative path without symlinks before its last element
RECURSIVE Walk(_, _)
Walk(node, elems) ==
  IF elems = <<>> THEN node
  ELSE Walk(CASE Head(elems) = "." -> node
              [] Head(elems) = ".." /\ node.dir # <<>> -> Dir(node.id, Front(node.dir))
              [] Head(elems) = ".." /\ node.dir = <<>> -> Dir(<<"?">>, <<>>)
              [] OTHER -> Dir(node.id, Append(node.dir, Head(elems))), Tail(elems))

posixmdal_opendir(ctxt, rel) == Walk(ctxt.pathd, rel)
\* here the path is taken for one of namespaces
posixmdal_opendirnamespace(ctxt, rel) ==
  Dir(IF rel \in {<<>>, <<".">>} THEN ctxt.refd
      ELSE IF Len(rel) = 1 THEN namespacepath(ctxt.refd, rel[1]) ELSE <<"?">>, <<>>)
posixmdal_chdir(ctxt, node) == [ctxt EXCEPT !.pathd = node]

-----------------------------------------------------------------------------
(* Positions *)

Pos(ns, depth, ctxt) == [ns |-> ns, depth |-> depth, ctxt |-> ctxt]
config_establishposition == Pos(Plain(Root), 0, newctxt(Root))
config_fortifyposition(pos) ==
  IF pos.ctxt # None THEN pos
  ELSE [pos EXCEPT !.ctxt = IF pos.ns.src # NoNS THEN newsplitctxt(pos.ns.id, pos.ns.tgt)
                            ELSE newctxt(pos.ns.tgt)]
NoPos == Pos(None, 0, None)   \* after config_abandonposition()

\* config_enterns(): to a subspace or to the parent; "above" when there is no parent
Entered(pos, ns, update) ==
  LET p == Pos(ns, pos.depth, None) IN IF update THEN config_fortifyposition(p) ELSE p
EnterGhost(pos, next, ascending, update) ==
  IF ascending THEN NoPos
  ELSE Entered(pos, [src |-> next, tgt |-> GhTarget[next], id |-> Id(next)], update)
EnterPlain(pos, next, e, update) ==
  IF Repo[pos.ns.tgt] = Repo[next] /\ update
  THEN LET c == setnamespace(pos.ctxt, e)
       IN  IF c = None THEN NoPos ELSE Pos(Plain(next), pos.depth, c)
  ELSE Entered(pos, Plain(next), update)
\* Mutant: out of the root of a ghost one comes to the parent of its target
EnterWithinGhostLost(pos, next, e, ascending, update) ==
  IF ascending /\ next = Parent[GhTarget[pos.ns.src]] THEN Entered(pos, Plain(next), update)
  ELSE IF GhTarget[next] # NoNS THEN NoPos
  ELSE Entered(pos, [src |-> pos.ns.src, tgt |-> next,
                     id |-> IF ascending THEN Front(pos.ns.id) ELSE Append(pos.ns.id, e)], update)
EnterWithinGhost(pos, next, e, ascending, update) ==
  IF ascending /\ next = Parent[GhTarget[pos.ns.src]]
  THEN Entered(pos, Plain(Parent[pos.ns.src]), update)
  ELSE IF GhTarget[next] # NoNS THEN NoPos
  ELSE Entered(pos, [src |-> pos.ns.src, tgt |-> next,
                     id |-> IF ascending THEN Front(pos.ns.id) ELSE Append(pos.ns.id, e)], update)
config_enterns(pos, next, e, ascending, update) ==
  IF pos.ns.src # NoNS THEN EnterWithinGhost(pos, next, e, ascending, update)
  ELSE IF GhTarget[next] # NoNS THEN EnterGhost(pos, next, ascending, update)
  ELSE EnterPlain(pos, next, e, update)
\* a ghost does not have the ghosts among the subspaces of its target
Subnodes(n) == {m \in NSs \ {Root} : Parent[m] = n}
GhostSubnodes(n) == {m \in Subnodes(n) : GhTarget[m] = NoNS}
Subspace(ns, e) ==
  LET found == {n \in (IF ns.src # NoNS THEN GhostSubnodes(ns.tgt) ELSE Subnodes(ns.tgt)) : Name[n] = e}
  IN  IF found = {} THEN NoNS ELSE CHOOSE n \in found : TRUE
ParentOf(ns) == IF ns.tgt = Root THEN NoNS ELSE Parent[ns.tgt]

-----------------------------------------------------------------------------
\* config_validatemnt(): what is left of the elements once they have come to the mountpoint,
\* `at' elements of which are behind us; a failure is NoPath
NoPath == <<"fail">>
RECURSIVE Validate(_, _)
Validate(at, elems) ==
  IF elems = <<>> THEN NoPath
  ELSE IF Head(elems) = ".." THEN (IF at = 0 THEN NoPath ELSE Validate(at - 1, Tail(elems)))
  ELSE IF Head(elems) = "." THEN Validate(at, Tail(elems))
  ELSE IF Head(elems) # Mount[at + 1] THEN NoPath
  ELSE IF at + 1 = Len(Mount) THEN Tail(elems) ELSE Validate(at + 1, Tail(elems))
config_validatemnt(above, elems) == Validate(IF above THEN Len(Mount) - 1 ELSE 0, elems)

-----------------------------------------------------------------------------
(* config_traverse(): rel is what will be the subpath, up to the element   *)
(* at hand                                                                 *)

Idle == [at |-> "idle"]
Fail == op' = [op EXCEPT !.at = "fail"]
\* marfs_init, or a context whose directory was changed
Start(path, linkchk) ==
  LET abs  == path # <<>> /\ Head(path) = "/"
      rest == IF abs THEN config_validatemnt(FALSE, Tail(path)) ELSE path
      stay == ~abs \/ (cwd.ns = Plain(Root) /\ cwd.depth = 0)
      pos  == IF stay THEN cwd ELSE config_establishposition
  IN  /\ op.at = "idle"
      /\ op' = [at |-> IF rest = NoPath THEN "fail" ELSE IF abs /\ rest = <<>> THEN "done" ELSE "walk",
                pos |-> pos, rel |-> IF abs /\ rest = <<>> THEN <<".">> ELSE <<>>, rest |-> rest,
                depth |-> pos.depth, nonNS |-> FALSE, linkchk |-> linkchk, from |-> cwd, path |-> path]
      /\ UNCHANGED <<cwd, link>>

(* config_shiftns(): as many elements as lead from namespace to namespace, *)
(* one at a step                                                           *)

ShiftTo(pos, rest) == op' = [op EXCEPT !.pos = pos, !.rest = rest]
\* from the root one may only come back through the mountpoint
ShiftAbove ==
  /\ Head(op.rest) = ".." /\ ParentOf(op.pos.ns) = NoNS
  /\ \E rest \in {config_validatemnt(TRUE, Tail(op.rest))} :
       IF rest = NoPath THEN Fail ELSE ShiftTo(op.pos, rest)
\* When the step to the parent fails the position is gone, but the loop goes on with it.
ShiftUp ==
  /\ Head(op.rest) = ".." /\ ParentOf(op.pos.ns) # NoNS
  /\ \E pos \in {config_enterns(op.pos, ParentOf(op.pos.ns), "..", TRUE, TRUE)} :
       IF pos = NoPos THEN op' = [op EXCEPT !.at = "crash"] ELSE ShiftTo(pos, Tail(op.rest))
ShiftDown ==
  /\ Head(op.rest) \notin {"..", "."}
  /\ \E sub \in {Subspace(op.pos.ns, Head(op.rest))} :
       /\ sub # NoNS
       /\ \E pos \in {config_enterns(op.pos, sub, Head(op.rest), FALSE, Tail(op.rest) # <<>>)} :
            IF pos = NoPos THEN Fail ELSE ShiftTo(pos, Tail(op.rest))
ShiftDot == Head(op.rest) = "." /\ ShiftTo(op.pos, Tail(op.rest))
\* The rest is a path below the namespace arrived at, whose directory it is relative to.
ShiftEnd ==
  /\ op.rest # <<>> =>
       Head(op.rest) \notin {"..", "."} /\ Subspace(op.pos.ns, Head(op.rest)) = NoNS
  /\ IF op.rest # <<>> /\ pathfilter(Head(op.rest)) THEN Fail
     ELSE op' = [op EXCEPT !.at = "walk", !.pos.depth = 0, !.rel = <<>>, !.nonNS = TRUE]
config_shiftns ==
  /\ op.at = "shift" /\ UNCHANGED <<cwd, link>>
  /\ \/ ShiftEnd
     \/ op.rest # <<>> /\ (ShiftAbove \/ ShiftUp \/ ShiftDown \/ ShiftDot)

-----------------------------------------------------------------------------
(* The loop of config_traverse() *)

\* on to the next element
Advance(depth) ==
  op' = [op EXCEPT !.rel = Append(@, Head(op.rest)), !.rest = Tail(@), !.depth = depth, !.nonNS = FALSE]
\* the target of a symlink takes the place of its name; an absolute one leads to the root
Substitute(to) ==
  IF Head(to) # "/"
  THEN op' = [op EXCEPT !.rest = to \o Tail(@), !.nonNS = FALSE]
  ELSE LET rest == config_validatemnt(FALSE, Tail(to) \o Tail(op.rest))
       IN  IF rest = NoPath THEN Fail
           ELSE op' = [op EXCEPT !.rest = rest, !.rel = <<>>, !.depth = 0, !.nonNS = FALSE, !.pos =
                         IF @.ns # Plain(Root) THEN config_establishposition ELSE [@ EXCEPT !.depth = 0]]
Follows(final) == op.linkchk = 1 \/ (op.linkchk > 1 /\ ~final)
Element(e, rest) ==
  \E node \in {Walk(op.pos.ctxt.pathd, Append(op.rel, e))} :
    IF Follows(rest = <<>>) /\ IsLink(node) THEN Substitute(link.to) ELSE Advance(op.depth + 1)
AtNamespace == op.depth = 0 /\ ~op.nonNS
Shift == op' = [op EXCEPT !.at = "shift"]
Step ==
  /\ op.at = "walk" /\ UNCHANGED <<cwd, link>>
  /\ IF op.rest = <<>> THEN op' = [op EXCEPT !.at = "done"]
     ELSE \E e \in {Head(op.rest)} :
       CASE e = ".." -> IF op.depth = 0 THEN Shift ELSE Advance(op.depth - 1)
         [] e = "." -> Advance(op.depth)
         [] e \notin {"..", "."} ->
              IF AtNamespace /\ Subspace(op.pos.ns, e) # NoNS THEN Shift
              ELSE IF AtNamespace /\ pathfilter(e) THEN Fail
              ELSE Element(e, Tail(op.rest))

\* the caller is done with the position
pathcleanup == op.at \in {"done", "fail", "crash"} /\ op' = Idle /\ UNCHANGED <<cwd, link>>

\* marfs_opendir() and marfs_chdir(): the directory becomes the one paths start from; the
\* reference tree stays the one it was
marfs_opendir ==
  IF op.depth > 0 THEN posixmdal_opendir(op.pos.ctxt, op.rel)
  ELSE IF op.pos.ctxt = None THEN Dir(op.pos.ns.id, <<>>)
  ELSE posixmdal_opendirnamespace(op.pos.ctxt, op.rel)
marfs_chdir ==
  /\ op.at = "done" /\ op.linkchk = 1 /\ Exists(marfs_opendir) /\ ~IsLink(marfs_opendir)
  /\ ChdirsAway \/ marfs_opendir = Dir(<<>>, <<>>)
  /\ cwd' = Pos(op.pos.ns, op.depth, posixmdal_chdir(cwd.ctxt, marfs_opendir))
  /\ op' = Idle /\ UNCHANGED link

Init == cwd = config_establishposition /\ link \in Links /\ op = Idle
Next == (\E p \in Paths, l \in 1 .. 2 : Start(p, l)) \/ Step \/ config_shiftns \/ pathcleanup \/ marfs_chdir
Spec == Init /\ [][Next]_vars /\ WF_vars(Step \/ config_shiftns)

-----------------------------------------------------------------------------
(* What a path means: one tree, in which a namespace is a directory of its *)
(* parent.  A place is a namespace and a path below it, or so many         *)
(* elements of the mountpoint.                                             *)

Place(ns, dir) == [ns |-> ns, dir |-> dir, above |-> Len(Mount)]
Above(n) == [Place(Plain(Root), <<>>) EXCEPT !.above = n]
Nowhere == [Place(Plain(Root), <<"nowhere">>) EXCEPT !.above = 0]
Up(p) ==
  CASE p.above < Len(Mount) -> IF p.above = 0 THEN Nowhere ELSE Above(p.above - 1)
    [] p.above = Len(Mount) /\ p.dir # <<>> -> Place(p.ns, Front(p.dir))
    [] p.above = Len(Mount) /\ p.dir = <<>> ->
         IF p.ns = Plain(Root) THEN Above(Len(Mount) - 1)
         ELSE IF p.ns.src # NoNS /\ p.ns.id # Id(p.ns.src)
              THEN Place([p.ns EXCEPT !.tgt = Parent[@], !.id = Front(@)], <<>>)
              ELSE Place(Plain(Parent[IF p.ns.src # NoNS THEN p.ns.src ELSE p.ns.tgt]), <<>>)
Down(p, e) ==
  CASE p.above < Len(Mount) -> IF Mount[p.above + 1] = e THEN Above(p.above + 1) ELSE Nowhere
    [] p.above = Len(Mount) ->
         IF p.dir = <<>> /\ Subspace(p.ns, e) # NoNS
         THEN LET n == Subspace(p.ns, e)
              IN  Place(IF p.ns.src # NoNS THEN [p.ns EXCEPT !.tgt = n, !.id = Append(@, e)]
                        ELSE IF GhTarget[n] # NoNS
                             THEN [src |-> n, tgt |-> GhTarget[n], id |-> Id(n)] ELSE Plain(n), <<>>)
         ELSE Place(p.ns, Append(p.dir, e))
RECURSIVE Meaning(_, _, _)
Meaning(p, elems, linkchk) ==
  IF elems = <<>> \/ p = Nowhere THEN p
  ELSE LET e == Head(elems)
           q == Down(p, e)
           follow == p.above = Len(Mount) /\ IsLink(Dir(q.ns.id, q.dir))
                       /\ (linkchk = 1 \/ Len(elems) > 1)
       IN  CASE e = "/" -> Meaning(Above(0), Tail(elems), linkchk)
             [] e = "." -> Meaning(p, Tail(elems), linkchk)
             [] e = ".." -> Meaning(Up(p), Tail(elems), linkchk)
             [] e \notin {"/", ".", ".."} ->
                  IF follow THEN Meaning(p, link.to \o Tail(elems), linkchk)
                  ELSE Meaning(q, Tail(elems), linkchk)
Cwd == Place(op.from.ns, op.from.ctxt.pathd.dir)
Meant == Meaning(Cwd, op.path, op.linkchk)

-----------------------------------------------------------------------------
(* Properties *)

\* Where config_traverse() arrives is what the path means: the namespace whose permissions
\* and quotas will apply, the number of directories below it, the directory the MDAL will
\* come to, and the reference tree a file created there will go to.
ResolvesRight ==
  op.at = "done" =>
    /\ op.pos.ns = Meant.ns /\ op.depth = Len(Meant.dir) /\ Meant.above = Len(Mount)
    /\ op.pos.ctxt # None =>
         /\ Walk(op.pos.ctxt.pathd, op.rel) = Dir(Meant.ns.id, Meant.dir)
         /\ op.pos.ctxt.refd = Id(Meant.ns.tgt)
    /\ op.pos.ctxt = None => op.depth = 0
\* No path leads to the private directories at the root of a namespace.
StaysOutOfPrivate == op.at = "done" => \A i \in DOMAIN Meant.dir : i = 1 => ~pathfilter(Meant.dir[i])
\* A path into the file system is not refused, unless it names a private directory on its
\* way; and no step goes on with a position that was abandoned.
FailsForAReason ==
  /\ op.at # "crash"
  /\ op.at = "fail" => Meant.above < Len(Mount) \/ Private \in Range(op.path)
\* The traversal of every path comes to an end.
TraversalEnds == op.at \in {"walk", "shift"} ~> op.at \notin {"walk", "shift"}

\* A path leads where it says, never to a private place, and is refused only for a reason.
PathsAreRight == ResolvesRight /\ StaysOutOfPrivate /\ FailsForAReason
=============================================================================

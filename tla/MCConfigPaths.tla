--------------------------- MODULE MCConfigPaths ---------------------------
(* What becomes of a path: the configuration is loaded and its namespaces are verified, tables are
   looked up, config_traverse finds the namespace and the rest of the path, and then the MDAL
   changes the metadata there.  They share no state, and take turns by scenes. *)
EXTENDS PathTraversal, MetadataOps, MCConfigLoad, TLC
CONSTANTS f1, f2, c1, c2
\* A root with a subspace s, below it t in another repository, below it u, and a ghost g of t.
MCParent == [S |-> "R", T |-> "S", U |-> "T", G |-> "R"]
MCName == [S |-> "s", T |-> "t", U |-> "u", G |-> "g"]
MCGhTarget == [n \in {"R", "S", "T", "U", "G"} |-> IF n = "G" THEN "T" ELSE "none"]
MCRepo == [n \in {"R", "S", "T", "U", "G"} |-> IF n \in {"T", "U"} THEN 2 ELSE 1]
MCMount == <<"m", "n">>
Elems == {"..", "s", "t", "g", "d", "u", "l", "n", "MDAL_"}
Upto(k) == UNION {[1 .. i -> Elems] : i \in 0 .. k}
MCPaths == {p \in Upto(2) : p # <<>>} \cup [1 .. 3 -> Elems \ {"n", "d", "MDAL_"}] \cup {<<"/", "m", "n">> \o p : p \in Upto(2)}
             \cup {<<"/", "m", "..", "m", "n", "d">>, <<"/", "m">>, <<"s", "t", "u", "..", "..", "..", "g">>,
                   <<"g", "u", "..", "..", "s">>, <<"d", ".", "..", "s", ".">>}
MCLinks == {None} \cup {[ns |-> n, dir |-> d, to |-> t] : n \in {"R", "G"}, d \in {<<>>, <<"d">>},
             t \in {<<"d">>, <<"..", "s">>, <<"/", "m", "n", "g">>, <<"u">>, <<"/", "m", "x">>}}

\* a namespace, a ghost of it, and another that shares nothing with them
McNamespaces == {"home", "ghost", "other"}
McTargetOf == [n \in McNamespaces |-> IF n = "ghost" THEN "home" ELSE NoSpace]
McNsParent == [n \in McNamespaces |-> IF n = "home" THEN "other" ELSE NoSpace]
McPathsIn == [n \in McNamespaces |->
                CASE n = "home" -> {<<"d">>, <<"d", "a">>}
                  [] n = "ghost" -> {<<"d">>, <<"d", "a">>}
                  [] n = "other" -> {<<"a">>}]
McConfigVer == <<"other", <<"a">>>>
McFQuota == [n \in McNamespaces |-> IF n = "home" THEN 1 ELSE 0]
McWatched == {"home", "ghost"}
McFiles == {f1, f2}
McCreators == {c1, c2}
\* nothing, or a file in a directory
McStarts == {<<>>, (<<"home", <<"d">>>> :> "dir" @@ <<"home", <<"d", "a">>>> :> f1)}
\* no file is made in the third
All == [n \in McNamespaces |-> IF n = "other" THEN Perms \ {"writedata"} ELSE Perms]
Only(n, ps) == [All EXCEPT ![n] = ps]
McConfigs == {[itype |-> "interactive", iperms |-> All, bperms |-> Only("home", {})],
              [itype |-> "batch", iperms |-> All, bperms |-> Only("ghost", {"readmeta"})]}

VARIABLE scene
SceneVars == <<vars, metavars, ConfigVars, scene>>
NoMetadata == conf.itype = "batch" /\ ent = [n \in Namespaces |-> [p \in PathsIn[n] |-> NoEnt]]
SceneInit ==
  /\ Init /\ MetaInit
  /\ \/ scene = "config" /\ link = None /\ NoMetadata /\ ConfigOrRing
     \/ scene = "paths" /\ NoMetadata /\ NoConfigOrRing
     \/ scene = "metadata" /\ link = None /\ NoConfigOrRing
SceneNext ==
  /\ scene' = scene
  /\ \/ scene = "config" /\ ConfigNext /\ UNCHANGED <<vars, metavars>>
     \/ scene = "paths" /\ Next /\ UNCHANGED <<metavars, ConfigVars>>
     \/ scene = "metadata" /\ MetaNext /\ UNCHANGED <<vars, ConfigVars>>
SceneSpec == SceneInit /\ [][SceneNext]_SceneVars
             /\ WF_vars(Step \/ config_shiftns) /\ MetaFairness

\* Every traversal comes to an end, and a reference that no path leads to goes.
TraversalsAndOrphansEnd == TraversalEnds /\ OrphansGo
=============================================================================

--------------------------- MODULE MCRepackRebuild ---------------------------
(* The maintenance of stored files: the repacking of a file, and, by itself,
   the rebuild of the object of two files by its marker. *)
EXTENDS Repack, RebuildMarkers
\* two files that share an object
MCObjsOf == [f \in StreamFiles |-> {0}]

VARIABLE scene
SceneInit ==
  /\ Init /\ scene \in {"repack", "markers"}
  /\ IF scene = "markers" THEN InitMarkers ELSE NoStreams
SceneNext ==
  /\ scene' = scene
  /\ \/ scene = "repack" /\ Next /\ UNCHANGED mvars
     \/ scene = "markers" /\ MarkNext /\ UNCHANGED vars
SceneSpec == SceneInit /\ [][SceneNext]_<<vars, mvars, scene>> /\ Fairness /\ MarkFairness

\* Nothing stays half done for ever: every repack that died is cleaned up, so that the file can be
\* repacked again (datastream_repack_cleanup), and every marked object is rebuilt, unless it has
\* lost more than its erasure code can give back (rebuild_obj).
MaintenanceEnds == MarkersGo /\ MarkedIsRebuilt
=============================================================================

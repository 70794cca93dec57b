---------------------------- MODULE MCDatastream ----------------------------
(* Datastream, for TLC: three files with recovery infos of different       *)
(* lengths; the second can get a longer recovery path, the third a shorter. *)
EXTENDS Datastream
Lens    == <<{1}, {1}, {2}>>
NewLens == <<{}, {2}, {1}>>
MCInfoLens    == [f \in 0 .. (MaxFiles - 1) |-> Lens[f + 1]]
MCNewInfoLens == [f \in 0 .. (MaxFiles - 1) |-> NewLens[f + 1]]
=============================================================================

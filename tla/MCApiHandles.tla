---------------------------- MODULE MCApiHandles ----------------------------
(* Instances for TLC of the handles of the API *)
EXTENDS ApiHandles, TLC
CONSTANTS t1, t2, u1, u2, h1, h2
McThreads == {t1, t2}
McUsers == {u1, u2}
McHandles == {h1, h2}
\* three subspaces, of which the second has no directory; four entries, the second private
McSubspaces == <<TRUE, FALSE, TRUE>>
McEntries == <<FALSE, TRUE, FALSE, FALSE>>
Symmetry == Permutations(McThreads) \cup Permutations(McUsers) \cup Permutations(McHandles)
=============================================================================

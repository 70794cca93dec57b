-------------------------- MODULE MCResourceManager --------------------------
EXTENDS ResourceManager, TLC
\* ranges of unequal length, an empty range, and directories that do not exist
MCRefNodes == (0 :> 3) @@ (1 :> 1)
MCAbsent == {<<0, 2>>}
=============================================================================

------------------------- MODULE MCGarbageCollection -------------------------
EXTENDS GarbageCollection
\* file f of a stream from object a to object b
F(a, b) == [objno |-> a, endobj |-> b]
Of(s) == [f \in 0 .. Len(s) - 1 |-> s[f + 1]]
\* files that share objects, a file with objects of its own, an object per file
MCLayouts == {Of(<<F(0, 0), F(0, 1), F(1, 1), F(1, 1)>>), Of(<<F(0, 0), F(1, 3)>>), Of(<<F(0, 1), F(2, 2)>>)}
=============================================================================

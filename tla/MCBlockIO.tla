----------------------------- MODULE MCBlockIO -----------------------------
(* Instances of BlockIO for TLC.                                           *)
EXTENDS BlockIO

\* <<versz, partsz, parts>>: parts smaller and larger than an IO, neither dividing
\* the other; a last block that is incomplete, and one that is carried over
Mixed == {<<6, 2, 3>>, <<6, 2, 7>>, <<4, 5, 2>>}
=============================================================================

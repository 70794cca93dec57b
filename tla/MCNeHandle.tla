---------------------------- MODULE MCNeHandle ----------------------------
(***************************************************************************)
(* Instances of NeHandle for TLC.                                          *)
(***************************************************************************)
EXTENDS NeHandle

\* any damage to at most two parts
AnyDamage == UNION {kSubset(k, Blocks \X (0 .. (Stripes - 1))) : k \in 0 .. 2}
=============================================================================

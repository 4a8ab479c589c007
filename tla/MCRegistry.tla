----------------------------- MODULE MCRegistry -----------------------------
(***************************************************************************)
(* Instances of Registry for TLC.                                          *)
(***************************************************************************)
EXTENDS Registry

CONSTANTS t1, t2, k1, k2
MCIds == {t1, t2}
MCKeys == {k1, k2}
Symm == Permutations(MCIds) \cup Permutations(MCKeys)

MCDeltas == {-1, 1}
=============================================================================

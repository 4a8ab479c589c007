-------------------------------- MODULE Maps --------------------------------
(***************************************************************************)
(* Go maps as functions on the keys that are present.                      *)
(***************************************************************************)
EXTENDS Functions

EmptyMap == <<>>

Put(f, k, v) == [x \in DOMAIN f \cup {k} |-> IF x = k THEN v ELSE f[x]]

Without(f, S) == Restrict(f, DOMAIN f \ S)
=============================================================================

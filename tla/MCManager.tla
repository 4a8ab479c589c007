----------------------------- MODULE MCManager ------------------------------
(***************************************************************************)
(* Instances of Manager for TLC.                                           *)
(***************************************************************************)
EXTENDS Manager

CONSTANTS a, b, x, y, k1, k2, c1, c2

MCIds == {<<a>>, <<b>>}
OneId == {<<a>>}
MCKeys == {k1, k2}
MCCreds == {c1, c2}
OneCred == {c1}
OneEmail == {<<x>>}
TwoEmails == {<<x>>, <<y>>}

Symm == Permutations({a, b}) \cup Permutations({x, y}) \cup
        Permutations(MCKeys) \cup Permutations(MCCreds)
=============================================================================

---------------------------- MODULE MCAccounting ----------------------------
(***************************************************************************)
(* Instances of Accounting for TLC.                                        *)
(***************************************************************************)
EXTENDS Accounting

CONSTANTS a, x, y, k1, c1

MCIds == {<<a>>}
MCKeys == {k1}
MCEmails == {<<x>>, <<y>>}
MCCreds == {c1}

Symm == Permutations({x, y})
=============================================================================

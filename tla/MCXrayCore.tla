----------------------------- MODULE MCXrayCore -----------------------------
(***************************************************************************)
(* Instances of XrayCore for TLC.                                          *)
(***************************************************************************)
EXTENDS XrayCore

CONSTANTS p1, p2
=============================================================================

------------------------------- MODULE MCAgent ------------------------------
(***************************************************************************)
(* An instance of Agent for TLC.                                           *)
(***************************************************************************)
EXTENDS Agent

CONSTANTS a, b, x, k1, k2, c1, master, corekey

MCIds == {<<a>>, <<b>>}
MCEmails == {<<x>>}
=============================================================================

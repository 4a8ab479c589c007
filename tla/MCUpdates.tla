----------------------------- MODULE MCUpdates ------------------------------
(***************************************************************************)
(* Two update requests at the same time.                                   *)
(***************************************************************************)
EXTENDS Updates

CONSTANTS u1, u2, v1, v2, hole

MCBlocks == v1 :> 1 @@ v2 :> 2
=============================================================================

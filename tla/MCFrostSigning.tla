--------------------------- MODULE MCFrostSigning ---------------------------
(***************************************************************************)
(* FrostSigning for TLC.                                                   *)
(***************************************************************************)
EXTENDS FrostSigning, TLC
=============================================================================

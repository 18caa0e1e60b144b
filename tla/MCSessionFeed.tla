--------------------------- MODULE MCSessionFeed ---------------------------
(***************************************************************************)
(* SessionFeed for TLC.                                                    *)
(***************************************************************************)
EXTENDS SessionFeed, TLC
=============================================================================

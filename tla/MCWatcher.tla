----------------------------- MODULE MCWatcher -----------------------------
(***************************************************************************)
(* Watcher for TLC: the three configurations differ in their bounds and in *)
(* the property they ask about.                                            *)
(***************************************************************************)
EXTENDS Watcher, TLC
=============================================================================

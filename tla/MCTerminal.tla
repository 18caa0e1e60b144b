----------------------------- MODULE MCTerminal -----------------------------
(***************************************************************************)
(* Terminal for TLC.                                                       *)
(***************************************************************************)
EXTENDS Terminal, TLC

\* The hosts are alike: the first page may be taken to show any of them.
MCInit     == Init /\ shown = CHOOSE h \in Hosts : TRUE
MCFairSpec == MCInit /\ [][Next]_vars /\ Fairness
=============================================================================

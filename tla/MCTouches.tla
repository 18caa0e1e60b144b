----------------------------- MODULE MCTouches -----------------------------
(* Instances of Touches for TLC. *)
EXTENDS Touches, TLC

\* Handlers are interchangeable.  Sessions are too, but only one is used.
HandlerSymmetry == Permutations(Handlers)

=============================================================================

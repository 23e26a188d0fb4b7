----------------------------- MODULE MCDispatcher -----------------------------
(* Instances of Dispatcher for TLC. *)
EXTENDS Dispatcher, TLC

CONSTANTS x, s, c1, c2, c3

\* Connections are interchangeable: each is an identity, nothing more.
Symmetry == Permutations({c1, c2, c3})

=============================================================================

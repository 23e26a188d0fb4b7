-------------------------- MODULE MCConnLimiter ---------------------------
(* IPs and goroutines are interchangeable.                                 *)
EXTENDS ConnLimiter, TLC

Symmetry == Permutations(IPs) \cup Permutations(Threads)
=============================================================================

----------------------------- MODULE MCLimiter ------------------------------
(* Users, IPs and goroutines are interchangeable.                          *)
EXTENDS Limiter, TLC

Symmetry == Permutations(Users) \cup Permutations(IPs) \cup Permutations(Threads)
=============================================================================

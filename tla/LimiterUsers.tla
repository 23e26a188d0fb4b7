---------------------------- MODULE LimiterUsers -----------------------------
(***************************************************************************)
(* What the two halves of a Limiter have in common: Limiter and its        *)
(* ConnLimiter work on the same users, their IPs and the goroutines of the *)
(* data path, which CheckLimit takes through one and then the other.       *)
(***************************************************************************)
CONSTANTS
  Users, IPs,
  Threads   \* the goroutines of the data path

None == "none"
ASSUME NoneOK == None \notin Users

=============================================================================

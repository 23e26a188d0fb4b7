---------------------------- MODULE NodeService ------------------------------
(***************************************************************************)
(* What node/task.go (72-74) and node/reload.go (24-53) promise of a       *)
(* running node: it serves one configuration to the users of one list, as  *)
(* the panel answered in one pull, or it keeps what it served.  A pull     *)
(* asks for the configuration and then for the users and takes on both     *)
(* together; when a step of it fails, nothing of either is served.  Only a *)
(* failure of the repair itself breaks the promise, until the node closes. *)
(***************************************************************************)
CONSTANTS
  Configs, Lists,  \* what the panel may answer; a list gives limits to users
  NoConfig,        \* no configuration, or none but the one served
  NoUsers          \* the empty list, or none but the one served

VARIABLES
  panel,   \* [cfg, users]: the answers of the panel at present
  asked,   \* [step, cfg, users]: the answers of the pull under way
  node,    \* [status, cfg, users]: who is served what
  limits,  \* [known, list]: whom the limiter lets through, with which limits
  open     \* does the limiter let anybody through?

vars == <<panel, asked, node, limits, open>>

Nothing == [step |-> "none", cfg |-> NoConfig, users |-> NoUsers]
Broken == [status |-> "broken", cfg |-> NoConfig, users |-> {}]
Closed == [status |-> "closed", cfg |-> NoConfig, users |-> {}]
Known(l) == [known |-> TRUE, list |-> l]
Unknown == [known |-> FALSE, list |-> NoUsers]

Init ==
  \E c \in Configs, l \in Lists :
    /\ panel = [cfg |-> c, users |-> l]
    /\ asked = Nothing
    /\ node = [status |-> "up", cfg |-> c, users |-> DOMAIN l]
    /\ limits = Known(l)
    /\ open = TRUE

PanelChange ==
  /\ \E c \in Configs, l \in Lists : panel' = [cfg |-> c, users |-> l]
  /\ UNCHANGED <<asked, node, limits, open>>

\* The two requests of a pull, between which the panel may change.
AskConfig ==
  /\ asked.step = "none" /\ node.status # "closed"
  /\ \E c \in {panel.cfg, NoConfig} :
       asked' = [step |-> "users", cfg |-> c, users |-> NoUsers]
  /\ UNCHANGED <<panel, node, limits, open>>

AskUsers ==
  /\ asked.step = "users"
  /\ \E l \in {panel.users, NoUsers} :
       asked' = [step |-> "both", cfg |-> asked.cfg, users |-> l]
  /\ UNCHANGED <<panel, node, limits, open>>

\* A failed request or a failed reload, and an answer without news.
Abandon == asked' = Nothing /\ UNCHANGED <<panel, node, limits, open>>

Serve(c, us) ==
  node' = IF node.status = "up" THEN [status |-> "up", cfg |-> c, users |-> us] ELSE node

\* The incremental update, which does not take an empty list for an answer.
AdoptUsers ==
  /\ asked.step = "both" /\ asked.cfg = NoConfig /\ asked.users # NoUsers
  /\ Serve(node.cfg, DOMAIN asked.users)
  /\ limits' = IF limits.known THEN Known(asked.users) ELSE Unknown
  /\ asked' = Nothing
  /\ UNCHANGED <<panel, open>>

\* The reload, which does not tell the limiter of the users.
AdoptConfig ==
  /\ asked.step = "both" /\ asked.cfg # NoConfig
  /\ Serve(asked.cfg, DOMAIN asked.users)
  /\ limits' = IF limits = Known(asked.users) THEN limits ELSE Unknown
  /\ asked' = Nothing
  /\ UNCHANGED <<panel, open>>

\* A call fails that no rollback undoes, or a pull has slipped past Close.
Break ==
  /\ node.status = "up" /\ node' = Broken
  /\ asked' = Nothing
  /\ UNCHANGED <<panel, limits, open>>

\* Close lets nobody in any more; the node goes when no pull is under way.
Stop == open /\ open' = FALSE /\ UNCHANGED <<panel, asked, node, limits>>
End ==
  /\ ~open /\ asked = Nothing /\ node' = Closed
  /\ UNCHANGED <<panel, asked, limits, open>>

Next ==
  \/ PanelChange \/ AskConfig \/ AskUsers \/ Abandon
  \/ AdoptUsers \/ AdoptConfig \/ Break \/ Stop \/ End

Spec == Init /\ [][Next]_vars

=============================================================================

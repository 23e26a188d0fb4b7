--------------------------- MODULE NodeController ---------------------------
(***************************************************************************)
(* One running controller (node/task.go, node/reload.go and Close of       *)
(* node/controller.go) between the panel it polls and the core and limiter *)
(* it drives.  A behaviour begins when Controller.Start has returned nil.  *)
(*                                                                         *)
(* The monitor's execution is one step per call it makes outside the       *)
(* package (api client, core, limiter), so that the panel, Close and the   *)
(* connections see every state in between.                                 *)
(*                                                                         *)
(* A user list of the panel is a function from uuids to limits: userKey    *)
(* compares uuid, speed and device limit, and duplicates of a uuid are not *)
(* modelled.  A Go nil slice and an empty one are the same list NoUsers.   *)
(*                                                                         *)
(* buildNodeTag depends on the client's host, type and id only, which do   *)
(* not change while it lives: the reload always keeps the logical tag, the *)
(* runtime key and the limiter object, and the branches of the reload for  *)
(* a changed tag cannot be taken.                                          *)
(***************************************************************************)
EXTENDS Naturals

CONSTANTS
  Configs,         \* node configurations of the panel, each a body of its own
  Unparsable,      \* those GetNodeInfo cannot decode
  Invalid,         \* those the reload's pre-validation refuses
  Uuids, Limits,   \* users and their limits
  EmptyLists,      \* may the panel's user list become empty?
  UserETags,       \* does the panel answer the user list with an ETag?
  Failures,        \* the calls that may fail, by call site
  MaxFaults,       \* bound: failures in a behaviour
  MaxConfigChanges, MaxUserChanges,  \* hist: changes made at the panel
  NoConfig         \* no configuration: a nil NodeInfo, no inbound, a failed body

ASSUME ConfigsOK == Configs \ (Unparsable \cup Invalid) # {} /\ NoConfig \notin Configs
ASSUME BoundsOK == MaxFaults \in Nat /\ MaxConfigChanges \in Nat /\ MaxUserChanges \in Nat
ASSUME FlagsOK == {EmptyLists, UserETags} \subseteq BOOLEAN

NoUsers == [u \in {} |-> 0]
UserLists == UNION { [S -> Limits] : S \in SUBSET Uuids }
PanelLists == IF EmptyLists THEN UserLists ELSE UserLists \ {NoUsers}

\* compareUserList, by what the key of a user holds.
Deleted(old, new) == { u \in DOMAIN old : u \notin DOMAIN new \/ new[u] # old[u] }
\* Faulty variant: a user whose limits changed is not "added".
AddedByUuid(old, new) == DOMAIN new \ DOMAIN old
Added(old, new) == { u \in DOMAIN new : u \notin DOMAIN old \/ old[u] # new[u] }

VARIABLES
  panel,    \* [cfg, users]: what the panel would answer
  client,   \* [body, userEtag]: responseBodyHash with nodeEtag, userEtag
  ctl,      \* [info, userList] of the Controller
  limits,   \* UserLimitInfo of the controller's limiter
  limiter,  \* is the limiter registered?
  core,     \* [entry, inbound, users]: Selector.nodes, the core's inbound and its users
  mon,      \* [at, newN, newU]: the monitor's goroutine
  closer,   \* where Controller.Close is
  hist      \* failures and panel changes so far; broken: a failure that is not
            \* undone; stale: a reload has changed the user list; straggler: a
            \* goroutine had passed hasClosed when Close closed the task

vars == <<panel, client, ctl, limits, limiter, core, mon, closer, hist>>

-----------------------------------------------------------------------------
(* The panel and the failures of calls.                                    *)

PanelConfigChange ==
  /\ hist.cfgs < MaxConfigChanges
  /\ \E c \in Configs \ {panel.cfg} : panel' = [panel EXCEPT !.cfg = c]
  /\ hist' = [hist EXCEPT !.cfgs = @ + 1]
  /\ UNCHANGED <<client, ctl, limits, limiter, core, mon, closer>>

PanelUsersChange ==
  /\ hist.users < MaxUserChanges
  /\ \E l \in PanelLists \ {panel.users} : panel' = [panel EXCEPT !.users = l]
  /\ hist' = [hist EXCEPT !.users = @ + 1]
  /\ UNCHANGED <<client, ctl, limits, limiter, core, mon, closer>>

\* A request that fails is repeated at the next pull; a reload that fails in
\* one of the others is rolled back or not begun.
Undone == {"GetNodeInfo", "GetUserList", "EnsureCertificate",
           "AddNode(new)", "AddUsers(new)", "DelNode(new)"}

Fails(site) ==
  /\ site \in Failures
  /\ hist.faults < MaxFaults
  /\ hist' = [hist EXCEPT !.faults = @ + 1, !.broken = @ \/ site \notin Undone]

Works == UNCHANGED hist

-----------------------------------------------------------------------------
(* The core behind the Selector.                                           *)

\* A core refuses an inbound whose tag it has.  (The outbound half of xray's
\* AddNode depends on the options and the tag, not on the configuration, and
\* DelNode has removed it: after Start it has no failure of its own.)
CanAddNode == core.inbound = NoConfig
NodeAdded(c) == core' = [entry |-> TRUE, inbound |-> c, users |-> {}]

\* The Selector refuses a tag without an entry, a core an inbound it has not.
CanDelNode == core.entry /\ core.inbound # NoConfig
\* Faulty variant: the users of the deleted inbound stay.
NodeDeletedKeepsUsers == core' = [core EXCEPT !.entry = FALSE, !.inbound = NoConfig]
NodeDeleted == core' = [entry |-> FALSE, inbound |-> NoConfig, users |-> {}]

\* DelNode returned an error: an inbound the core had is closed and
\* forgotten all the same, but its entry in Selector.nodes stays.
DelNodeFailed(site) ==
  \/ ~CanDelNode /\ UNCHANGED core /\ Works
  \/ /\ CanDelNode /\ Fails(site)
     /\ core' = [core EXCEPT !.inbound = NoConfig, !.users = {}]

\* Users are added and removed one by one; the first that exists already, or
\* does not exist, ends the call.
CanAddUsers(us) == core.entry /\ core.inbound # NoConfig /\ us \cap core.users = {}
UsersAdded(us) == core' = [core EXCEPT !.users = @ \cup us]
AddUsersFailed(us, site) ==
  /\ \/ ~CanAddUsers(us) /\ Works
     \/ CanAddUsers(us) /\ Fails(site)
  /\ IF core.entry /\ core.inbound # NoConfig
     THEN \E done \in SUBSET (us \ core.users) : core' = [core EXCEPT !.users = @ \cup done]
     ELSE UNCHANGED core

CanDelUsers(us) == core.entry /\ core.inbound # NoConfig /\ us \subseteq core.users
UsersDeleted(us) == core' = [core EXCEPT !.users = @ \ us]
DelUsersFailed(us, site) ==
  /\ \/ ~CanDelUsers(us) /\ Works
     \/ CanDelUsers(us) /\ Fails(site)
  /\ \E done \in SUBSET (us \cap core.users) : core' = [core EXCEPT !.users = @ \ done]

-----------------------------------------------------------------------------
(* nodeInfoMonitor.                                                        *)

Goto(label) == mon' = [mon EXCEPT !.at = label]
At(label) == mon.at = label

\* nodeInfoMonitor returns: its locals are gone.
Return == mon' = [at |-> "idle", newN |-> NoConfig, newU |-> NoUsers]

\* The task's timer fires and checkedExecute finds running set.  From here
\* to its second critical section the goroutine holds no lock.
Tick ==
  /\ At("idle") /\ closer \in {"up", "stopping"}
  /\ Goto("ready")
  /\ UNCHANGED <<panel, client, ctl, limits, limiter, core, closer, hist>>

\* Faulty variant, for the mutation runs only: a failed request leaves the
\* hash of the configuration that was asked for.
GetNodeInfoKeepsFailed ==
  /\ At("ready")
  /\ \E body \in {panel.cfg, NoConfig} :
       /\ IF body = NoConfig THEN Fails("GetNodeInfo") ELSE Works
       /\ client' = [client EXCEPT !.body = panel.cfg]
       /\ IF body = NoConfig \/ body \in Unparsable THEN Return
          ELSE mon' = [at |-> "users", newU |-> NoUsers,
                       newN |-> IF body = client.body THEN NoConfig ELSE body]
  /\ UNCHANGED <<panel, ctl, limits, limiter, core, closer>>

\* GetNodeInfo, under the task's lock.  A body equal to the last one (or a
\* 304: hash and ETag are kept together) is "no change", also when both are
\* the body of a failed request.  The hash is kept before the status and the
\* content of the answer are looked at.
GetNodeInfo ==
  /\ At("ready")
  /\ \E body \in {panel.cfg, NoConfig} :
       /\ IF body = NoConfig THEN Fails("GetNodeInfo") ELSE Works
       /\ client' = [client EXCEPT !.body = body]
       /\ IF body = client.body
          THEN mon' = [at |-> "users", newN |-> NoConfig, newU |-> NoUsers]
          ELSE IF body \in Unparsable \cup {NoConfig} THEN Return
          ELSE mon' = [at |-> "users", newN |-> body, newU |-> NoUsers]
  /\ UNCHANGED <<panel, ctl, limits, limiter, core, closer>>

\* What the monitor does with the answers: a reload when there is a new
\* configuration, else the difference of the user lists, unless the new one
\* is empty (GetUserAlive, in between, cannot fail).
Dispatch(l) ==
  CASE mon.newN # NoConfig -> mon' = [mon EXCEPT !.at = "reload", !.newU = l]
    [] mon.newN = NoConfig /\ l = NoUsers -> Return
    [] mon.newN = NoConfig /\ l # NoUsers -> mon' = [mon EXCEPT !.at = "delUsers", !.newU = l]

\* GetUserList keeps the ETag of a list it has decoded to its end, and a 304
\* gives a nil list.
GetUserList ==
  /\ At("users")
  /\ \/ /\ Fails("GetUserList")
        /\ Return
        /\ UNCHANGED client
     \/ /\ Works
        /\ UserETags /\ client.userEtag = panel.users
        /\ Dispatch(NoUsers)
        /\ UNCHANGED client
     \/ /\ Works
        /\ ~(UserETags /\ client.userEtag = panel.users)
        /\ Dispatch(panel.users)
        /\ client' = [client EXCEPT !.userEtag = IF UserETags THEN panel.users ELSE NoUsers]
  /\ UNCHANGED <<panel, ctl, limits, limiter, core, closer>>

\* The incremental branch, one core call per step.
DelUsers ==
  LET us == Deleted(ctl.userList, mon.newU) IN
  /\ At("delUsers")
  /\ \/ us = {} /\ Goto("addUsers") /\ Works /\ UNCHANGED core
     \/ us # {} /\ CanDelUsers(us) /\ UsersDeleted(us) /\ Goto("addUsers") /\ Works
     \/ us # {} /\ DelUsersFailed(us, "DelUsers") /\ Return
  /\ UNCHANGED <<panel, client, ctl, limits, limiter, closer>>

AddUsers ==
  LET us == Added(ctl.userList, mon.newU) IN
  /\ At("addUsers")
  /\ \/ us = {} /\ Goto("updateUser") /\ Works /\ UNCHANGED core
     \/ us # {} /\ CanAddUsers(us) /\ UsersAdded(us) /\ Goto("updateUser") /\ Works
     \/ us # {} /\ AddUsersFailed(us, "AddUsers") /\ Return
  /\ UNCHANGED <<panel, client, ctl, limits, limiter, closer>>

\* Faulty variant: the user list is replaced and the limiter is not told of
\* the users whose limits changed.
UpdateUserSkipsChanged ==
  LET deleted == Deleted(ctl.userList, mon.newU)
      added == Added(ctl.userList, mon.newU) \ deleted
  IN /\ At("updateUser")
     /\ limits' = [u \in (DOMAIN limits \ deleted) \cup added |->
                     IF u \in added THEN mon.newU[u] ELSE limits[u]]
     /\ ctl' = [ctl EXCEPT !.userList = mon.newU]
     /\ Return
     /\ UNCHANGED <<panel, client, limiter, core, closer, hist>>

\* Limiter.UpdateUser and the assignment of userList.
UpdateUser ==
  LET deleted == Deleted(ctl.userList, mon.newU)
      added == Added(ctl.userList, mon.newU)
  IN /\ At("updateUser")
     /\ limits' = [u \in (DOMAIN limits \ deleted) \cup added |->
                     IF u \in added THEN mon.newU[u] ELSE limits[u]]
     /\ ctl' = [ctl EXCEPT !.userList = mon.newU]
     /\ Return
     /\ UNCHANGED <<panel, client, limiter, core, closer, hist>>

-----------------------------------------------------------------------------
(* reloadNodeConfig.                                                       *)

\* Layer 1, the pre-validation, which may abort; then DelNode(old), whose
\* failure aborts without a rollback.
ReloadDelNode ==
  /\ At("reload")
  /\ \/ mon.newN \in Invalid /\ Return /\ Works /\ UNCHANGED core
     \/ mon.newN \notin Invalid /\ Fails("EnsureCertificate") /\ Return /\ UNCHANGED core
     \/ mon.newN \notin Invalid /\ CanDelNode /\ NodeDeleted /\ Goto("reloadAddNode") /\ Works
     \/ mon.newN \notin Invalid /\ DelNodeFailed("DelNode(old)") /\ Return
  /\ UNCHANGED <<panel, client, ctl, limits, limiter, closer>>

\* The bookkeeping of a successful reload.  The limiter object stays, and its
\* per-user limits are not touched.
Commit ==
  /\ ctl' = [info |-> mon.newN, userList |-> mon.newU]
  /\ hist' = [hist EXCEPT !.stale = @ \/ mon.newU # ctl.userList]
  /\ Return

ReloadAddNode ==
  /\ At("reloadAddNode")
  /\ \/ /\ CanAddNode /\ NodeAdded(mon.newN)
        /\ IF mon.newU = NoUsers THEN Commit
           ELSE Goto("reloadAddUsers") /\ Works /\ UNCHANGED ctl
     \/ /\ (~CanAddNode /\ Works) \/ (CanAddNode /\ Fails("AddNode(new)"))
        /\ Goto("rollback")
        /\ UNCHANGED <<core, ctl>>
  /\ UNCHANGED <<panel, client, limits, limiter, closer>>

ReloadAddUsers ==
  LET us == DOMAIN mon.newU IN
  /\ At("reloadAddUsers")
  /\ \/ CanAddUsers(us) /\ UsersAdded(us) /\ Commit
     \/ AddUsersFailed(us, "AddUsers(new)") /\ Goto("delNew") /\ UNCHANGED ctl
  /\ UNCHANGED <<panel, client, limits, limiter, closer>>

\* Faulty variant: the partially installed inbound is left to the rollback.
RollbackDelNodeSkipped ==
  /\ At("delNew")
  /\ Goto("rollback")
  /\ UNCHANGED <<panel, client, ctl, limits, limiter, core, closer, hist>>

\* DelNode of the new inbound, whose error is logged and ignored.
RollbackDelNode ==
  /\ At("delNew")
  /\ \/ CanDelNode /\ NodeDeleted /\ Works
     \/ DelNodeFailed("DelNode(new)")
  /\ Goto("rollback")
  /\ UNCHANGED <<panel, client, ctl, limits, limiter, closer>>

\* The rollback closure: AddNode(old), then AddUsers(old).
RollbackAddNode ==
  /\ At("rollback")
  /\ \/ /\ CanAddNode /\ NodeAdded(ctl.info) /\ Works
        /\ IF ctl.userList = NoUsers THEN Return ELSE Goto("rollbackUsers")
     \/ /\ (~CanAddNode /\ Works) \/ (CanAddNode /\ Fails("AddNode(old)"))
        /\ Return
        /\ UNCHANGED core
  /\ UNCHANGED <<panel, client, ctl, limits, limiter, closer>>

RollbackAddUsers ==
  LET us == DOMAIN ctl.userList IN
  /\ At("rollbackUsers")
  /\ \/ CanAddUsers(us) /\ UsersAdded(us) /\ Works
     \/ AddUsersFailed(us, "AddUsers(old)")
  /\ Return
  /\ UNCHANGED <<panel, client, ctl, limits, limiter, closer>>

-----------------------------------------------------------------------------
(* Controller.Close.                                                       *)

Executing == mon.at \notin {"idle", "ready"}

DeleteLimiter ==
  /\ closer = "up"
  /\ limiter' = FALSE
  /\ closer' = "stopping"
  /\ UNCHANGED <<panel, client, ctl, limits, core, mon, hist>>

\* Faulty variant: Close does not wait for the monitor's execution.
CloseTasksAtOnce ==
  /\ closer = "stopping"
  /\ closer' = "stopped"
  /\ UNCHANGED <<panel, client, ctl, limits, limiter, core, mon, hist>>

\* Task.Close needs the monitor's mutex, which its execution holds.  A
\* goroutine that has passed hasClosed is not held up by it: it takes the
\* mutex afterwards.
CloseTasks ==
  /\ closer = "stopping" /\ ~Executing
  /\ closer' = "stopped"
  /\ hist' = [hist EXCEPT !.straggler = At("ready")]
  /\ UNCHANGED <<panel, client, ctl, limits, limiter, core, mon>>

\* DelNode; the port reservation goes and Close returns whatever it said.
CloseDelNode ==
  /\ closer = "stopped"
  /\ \/ CanDelNode /\ NodeDeleted /\ Works
     \/ DelNodeFailed("Close")
  /\ closer' = "closed"
  /\ UNCHANGED <<panel, client, ctl, limits, limiter, mon>>

-----------------------------------------------------------------------------
\* Controller.Start has returned nil: the node and the users the panel
\* answered with are in the core, the limiter and the controller's fields.
Init ==
  \E c \in Configs \ (Unparsable \cup Invalid), l \in PanelLists :
    /\ panel = [cfg |-> c, users |-> l]
    /\ client = [body |-> c, userEtag |-> IF UserETags THEN l ELSE NoUsers]
    /\ ctl = [info |-> c, userList |-> l]
    /\ limits = l
    /\ limiter = TRUE
    /\ core = [entry |-> TRUE, inbound |-> c, users |-> DOMAIN l]
    /\ mon = [at |-> "idle", newN |-> NoConfig, newU |-> NoUsers]
    /\ closer = "up"
    /\ hist = [faults |-> 0, cfgs |-> 0, users |-> 0, broken |-> FALSE, stale |-> FALSE,
               straggler |-> FALSE]

nodeInfoMonitor ==
  \/ GetNodeInfo \/ GetUserList
  \/ DelUsers \/ AddUsers \/ UpdateUser
  \/ ReloadDelNode \/ ReloadAddNode \/ ReloadAddUsers
  \/ RollbackDelNode \/ RollbackAddNode \/ RollbackAddUsers

Next ==
  \/ PanelConfigChange \/ PanelUsersChange
  \/ Tick \/ nodeInfoMonitor
  \/ DeleteLimiter \/ CloseTasks \/ CloseDelNode

Spec == Init /\ [][Next]_vars

\* The timer fires and its goroutine runs; every request has a time limit.
\* Nobody is obliged to close the controller or to change the panel.
Fairness == WF_vars(Tick) /\ WF_vars(nodeInfoMonitor)

FairSpec == Spec /\ Fairness

-----------------------------------------------------------------------------
(* Properties.                                                             *)

Labels == {"idle", "ready", "users", "reload", "delUsers", "addUsers", "updateUser",
           "reloadAddNode", "reloadAddUsers", "delNew", "rollback", "rollbackUsers"}

\* The types of the state; nobody is served without an inbound.
TypeOK ==
  /\ panel \in [cfg : Configs, users : UserLists]
  /\ client \in [body : Configs \cup {NoConfig}, userEtag : UserLists]
  /\ ctl \in [info : Configs, userList : UserLists]
  /\ limits \in UserLists /\ limiter \in BOOLEAN
  /\ core \in [entry : BOOLEAN, inbound : Configs \cup {NoConfig}, users : SUBSET Uuids]
  /\ core.inbound = NoConfig => core.users = {}
  /\ mon \in [at : Labels, newN : Configs \cup {NoConfig}, newU : UserLists]
  /\ closer \in {"up", "stopping", "stopped", "closed"}
  /\ hist \in [faults : Nat, cfgs : Nat, users : Nat,
               broken : BOOLEAN, stale : BOOLEAN, straggler : BOOLEAN]

\* Between two executions of the monitor of a running controller.
Settled == ~Executing /\ closer = "up"

\* "leave the OLD node serving until the operator can fix the new config"
\* (reload.go:52): unless a call failed that no rollback undoes, the core
\* serves the configuration and exactly the users the controller has
\* on its books, a pair that the panel once had.
InStep ==
  Settled /\ ~hist.broken =>
    /\ core.entry
    /\ core.inbound = ctl.info
    /\ core.users = DOMAIN ctl.userList

\* Under any failures, also those of a rollback, a controller between two
\* executions has its own configuration's inbound or none at all: never the
\* one of the failed new configuration, and never an inbound the Selector
\* has no entry for and could not delete any more.
InfoOrDown ==
  Settled => \/ core.inbound = NoConfig
             \/ core.entry /\ core.inbound = ctl.info

\* "UpdateUser refreshes per-user state when the panel reports user
\* adds/removes" (limiter.go:133): the limiter has the users and limits of
\* the list on the controller's books, also when an update stopped halfway,
\* so whoever else the core still has is rejected by CheckLimit.
LimitsInStep == Settled /\ ~hist.stale => limits = ctl.userList

\* The users a connection of whom CheckLimit would let through.
Admitted == IF limiter THEN core.users \cap DOMAIN limits ELSE {}

\* "Reloading to a 0-user state is a legitimate operator action (panel just
\* removed every user)" (reload.go:171-173): nobody whom the panel still has
\* on its list is cut off by a reload.  (For runs in which the panel's list
\* stays as it is: a user added there is served after the next pull only.)
NobodyLost == Settled => DOMAIN panel.users \subseteq Admitted

\* NodeService, as this controller has it: the answers the monitor holds;
\* what the core serves between two executions, and during one the pair on
\* the controller's books; and the limiter, up to the first reload that has
\* changed the users without telling it.
Asked == [step |-> CASE mon.at \in {"idle", "ready"} -> "none" [] mon.at = "users" -> "users"
                     [] OTHER -> "both",
          cfg |-> mon.newN, users |-> mon.newU]
Served ==
  CASE closer = "closed" /\ ~hist.straggler ->
         [status |-> "closed", cfg |-> core.inbound, users |-> core.users]
    [] hist.straggler \/ (closer # "closed" /\ hist.broken) ->
         [status |-> "broken", cfg |-> NoConfig, users |-> {}]
    [] OTHER ->
         [status |-> "up",
          cfg |-> IF Executing THEN ctl.info ELSE IF core.entry THEN core.inbound ELSE NoConfig,
          users |-> IF Executing THEN DOMAIN ctl.userList ELSE core.users]
Enforced == [known |-> ~hist.stale, list |-> IF hist.stale THEN NoUsers ELSE limits]

Service == INSTANCE NodeService WITH
  Lists <- PanelLists, asked <- Asked, node <- Served, limits <- Enforced, open <- limiter

\* reload.go:24-53 and task.go:72-74: every step of the controller is one
\* NodeService allows.  A pull takes on what the panel has answered it as a
\* whole, users and limits with the configuration, or leaves what was served.
KeepsPromise == Service!Spec

\* "Close tears down the controller" (controller.go:283): when it has
\* returned, and ever after, no inbound of the controller is live and its
\* limiter is gone.  (A goroutine that had passed hasClosed may still reload,
\* across Close's DelNode, and leave an inbound.)
ClosedIsDown ==
  closer = "closed" => ~limiter /\ (hist.straggler \/ core.inbound = NoConfig)

\* "branches on ... user adds/removes (incremental)" (task.go:72-74): when
\* the panel's list has settled, the core serves its users and the controller
\* has their limits on its books.
UsersConverge ==
  <>[](\/ closer # "up"
       \/ core.users = DOMAIN panel.users /\ ctl.userList = panel.users
       \/ Executing)

\* "branches on whether the node config itself changed (full inbound
\* rebuild)" (task.go:72-74): when the panel's configuration has settled on
\* one that can be used, the core's inbound has it in the end.
ConfigConverges ==
  <>[](\/ closer # "up"
       \/ panel.cfg \in Unparsable \cup Invalid
       \/ core.inbound = panel.cfg
       \/ Executing)

=============================================================================

------------------------ MODULE NodeControllerProofs ------------------------
(***************************************************************************)
(* Proofs about one controller, for any configurations, users and limits,  *)
(* any set of calls that may fail and any number of failures and changes.  *)
(*                                                                         *)
(* InStep, InfoOrDown and ClosedIsDown speak of the controller between two *)
(* executions of its monitor.  ControllerInv says what the core holds at   *)
(* each place of an execution, whatever has failed before (Place), and     *)
(* whom it serves there if nothing has failed for good (Serving).          *)
(***************************************************************************)
EXTENDS NodeController, TLAPS

\* Nobody but the monitor and Close works on the core: no goroutine of the
\* monitor has slipped past the close of its task.
Mine == closer \in {"up", "stopping"} \/ (closer = "stopped" /\ ~hist.straggler)

\* The monitor has not begun to change the core, or goes about the users.
Asking == mon.at \in {"idle", "ready", "users", "reload"}
Updating == mon.at \in {"delUsers", "addUsers", "updateUser"}

Has(c) == core.entry /\ core.inbound = c

\* The node on its way through a reload.
Place ==
  /\ Asking \/ Updating => core.inbound = NoConfig \/ Has(ctl.info)
  /\ mon.at \in {"reloadAddNode", "rollback"} => core.inbound = NoConfig
  /\ mon.at \in {"reloadAddUsers", "delNew"} => Has(mon.newN)
  /\ mon.at = "rollbackUsers" => Has(ctl.info)
  /\ mon.at \in {"reloadAddUsers", "rollbackUsers"} => core.users = {}

\* The users on their way through an update.
Serving ==
  /\ Asking \/ Updating => Has(ctl.info)
  /\ Asking \/ At("delUsers") => core.users = DOMAIN ctl.userList
  /\ At("addUsers") => core.users = DOMAIN ctl.userList \ Deleted(ctl.userList, mon.newU)
  /\ At("updateUser") => core.users = DOMAIN mon.newU

\* A reload has a configuration to go to.
Reloading == mon.at \in {"reload", "reloadAddNode", "reloadAddUsers", "delNew"}

\* Close has stopped the monitor, or a goroutine has slipped past it.
Closing ==
  /\ closer # "up" => ~limiter
  /\ closer \in {"up", "stopping"} => ~hist.straggler
  /\ closer \in {"stopped", "closed"} /\ ~hist.straggler => mon.at = "idle"
  /\ closer = "closed" /\ ~hist.straggler => core.inbound = NoConfig

\* The inductive invariant of the controller.
ControllerInv ==
  /\ TypeOK
  /\ Reloading => mon.newN # NoConfig
  /\ Mine => Place
  /\ Mine /\ ~hist.broken => Serving
  /\ ~hist.stale => limits = ctl.userList
  /\ Closing

-----------------------------------------------------------------------------
(* Lists of users.                                                         *)

(* A user list is a function to limits from some of the uuids.             *)
LEMMA ListShape ==
  \A l : l \in UserLists <=> DOMAIN l \subseteq Uuids /\ l = [u \in DOMAIN l |-> l[u]] /\ \A u \in DOMAIN l : l[u] \in Limits
BY DEF UserLists

(* A nil slice of users is a list.                                         *)
LEMMA NoUsersIsList == NoUsers \in UserLists /\ DOMAIN NoUsers = {}
<1>1. DOMAIN NoUsers = {} /\ NoUsers = [u \in DOMAIN NoUsers |-> NoUsers[u]]
  BY DEF NoUsers
<1> QED BY <1>1, ListShape

(* compareUserList: without the deleted and with the added ones, the users *)
(* of the old list are those of the new.                                   *)
LEMMA DifferenceOfLists ==
  ASSUME NEW old, NEW new
  PROVE  /\ Deleted(old, new) \subseteq DOMAIN old
         /\ Added(old, new) \cap (DOMAIN old \ Deleted(old, new)) = {}
         /\ (DOMAIN old \ Deleted(old, new)) \cup Added(old, new) = DOMAIN new
BY DEF Deleted, Added

(* What Limiter.UpdateUser makes of a limiter that has the old list is the *)
(* new list.                                                               *)
LEMMA UpdatedList ==
  ASSUME NEW old \in UserLists, NEW new \in UserLists
  PROVE  [u \in (DOMAIN old \ Deleted(old, new)) \cup Added(old, new) |->
            IF u \in Added(old, new) THEN new[u] ELSE old[u]] = new
<1>1. new = [u \in DOMAIN new |-> new[u]]
  BY ListShape
<1>2. ASSUME NEW u \in DOMAIN new
      PROVE  (IF u \in Added(old, new) THEN new[u] ELSE old[u]) = new[u]
  BY <1>2 DEF Added
<1> QED BY <1>1, <1>2, DifferenceOfLists

(* Whatever the limiter had, UpdateUser leaves it a user list.             *)
LEMMA UpdatedIsList ==
  ASSUME NEW l \in UserLists, NEW old \in UserLists, NEW new \in UserLists
  PROVE  [u \in (DOMAIN l \ Deleted(old, new)) \cup Added(old, new) |->
            IF u \in Added(old, new) THEN new[u] ELSE l[u]] \in UserLists
<1> DEFINE S == (DOMAIN l \ Deleted(old, new)) \cup Added(old, new)
           r == [u \in S |-> IF u \in Added(old, new) THEN new[u] ELSE l[u]]
<1>1. Added(old, new) \subseteq DOMAIN new
  BY DEF Added
<1>2. S \subseteq Uuids /\ \A u \in S : r[u] \in Limits
  BY <1>1, ListShape
<1>3. DOMAIN r = S /\ r = [u \in DOMAIN r |-> r[u]]
  OBVIOUS
<1> HIDE DEF r
<1>4. r \in UserLists
  BY <1>2, <1>3, ListShape
<1> QED BY <1>4 DEF r

-----------------------------------------------------------------------------
(* The calls.                                                              *)

(* A failure is remembered unless it is undone.                            *)
LEMMA FailsNotes ==
  ASSUME TypeOK, NEW site, Fails(site)
  PROVE  /\ hist' \in [faults : Nat, cfgs : Nat, users : Nat,
                       broken : BOOLEAN, stale : BOOLEAN, straggler : BOOLEAN]
         /\ hist'.stale = hist.stale /\ hist'.straggler = hist.straggler
         /\ ~hist'.broken => ~hist.broken /\ site \in Undone
<1> DEFINE b == hist.broken \/ site \notin Undone
           n == hist.faults + 1
<1>1. b \in BOOLEAN /\ n \in Nat /\ hist' = [hist EXCEPT !.faults = n, !.broken = b]
  BY DEF Fails, TypeOK
<1> HIDE DEF b, n
<1>2. /\ hist' \in [faults : Nat, cfgs : Nat, users : Nat,
                    broken : BOOLEAN, stale : BOOLEAN, straggler : BOOLEAN]
      /\ hist'.stale = hist.stale /\ hist'.straggler = hist.straggler /\ hist'.broken = b
  BY <1>1 DEF TypeOK
<1> QED BY <1>2 DEF b

\* The type of the core, and of what the calls leave of it.
CoreOK ==
  /\ core \in [entry : BOOLEAN, inbound : Configs \cup {NoConfig}, users : SUBSET Uuids]
  /\ core.inbound = NoConfig => core.users = {}
HistOK == hist \in [faults : Nat, cfgs : Nat, users : Nat,
                    broken : BOOLEAN, stale : BOOLEAN, straggler : BOOLEAN]

\* hist after a call that is undone, or after one that is not.
Noted(undone) ==
  /\ HistOK'
  /\ hist'.stale = hist.stale /\ hist'.straggler = hist.straggler
  /\ ~hist'.broken => ~hist.broken /\ undone

(* DelNode by a call that failed: the inbound is as it was if it could not *)
(* be deleted, else it is gone, but for the entry.                         *)
LEMMA DelNodeFailing ==
  ASSUME TypeOK, NEW site, DelNodeFailed(site)
  PROVE  /\ CoreOK' /\ Noted(~CanDelNode \/ site \in Undone)
         /\ ~CanDelNode => UNCHANGED core
         /\ CanDelNode => core'.entry = core.entry /\ core'.inbound = NoConfig
BY FailsNotes DEF DelNodeFailed, TypeOK, CoreOK, HistOK, Noted, Works

(* AddUsers by a call that failed: some of the users may be added.         *)
LEMMA AddUsersFailing ==
  ASSUME TypeOK, NEW us, NEW site, us \subseteq Uuids, AddUsersFailed(us, site)
  PROVE  /\ CoreOK' /\ Noted(~CanAddUsers(us) \/ site \in Undone)
         /\ core'.entry = core.entry /\ core'.inbound = core.inbound
<1>1. Noted(~CanAddUsers(us) \/ site \in Undone)
  BY FailsNotes DEF AddUsersFailed, TypeOK, HistOK, Noted, Works
<1>2. CASE core.entry /\ core.inbound # NoConfig
  <2>1. PICK done \in SUBSET (us \ core.users) : core' = [core EXCEPT !.users = @ \cup done]
    BY <1>2 DEF AddUsersFailed
  <2> QED BY <1>1, <1>2, <2>1 DEF TypeOK, CoreOK
<1>3. CASE ~(core.entry /\ core.inbound # NoConfig)
  BY <1>1, <1>3 DEF AddUsersFailed, TypeOK, CoreOK
<1> QED BY <1>2, <1>3

(* DelUsers by a call that failed: some of the users may be deleted.       *)
LEMMA DelUsersFailing ==
  ASSUME TypeOK, NEW us, NEW site, DelUsersFailed(us, site)
  PROVE  /\ CoreOK' /\ Noted(~CanDelUsers(us) \/ site \in Undone)
         /\ core'.entry = core.entry /\ core'.inbound = core.inbound
<1>1. Noted(~CanDelUsers(us) \/ site \in Undone)
  BY FailsNotes DEF DelUsersFailed, TypeOK, HistOK, Noted, Works
<1>2. PICK done \in SUBSET (us \cap core.users) : core' = [core EXCEPT !.users = @ \ done]
  BY DEF DelUsersFailed
<1> QED BY <1>1, <1>2 DEF TypeOK, CoreOK

(* AddUsers by a call that worked.                                         *)
LEMMA UsersAddedTo ==
  ASSUME TypeOK, NEW us \in SUBSET Uuids, CanAddUsers(us), UsersAdded(us)
  PROVE  CoreOK' /\ core'.entry = core.entry /\ core'.inbound = core.inbound /\ core'.users = core.users \cup us
BY DEF TypeOK, CoreOK, CanAddUsers, UsersAdded

(* DelUsers by a call that worked.                                         *)
LEMMA UsersDeletedFrom ==
  ASSUME TypeOK, NEW us, UsersDeleted(us)
  PROVE  CoreOK' /\ core'.entry = core.entry /\ core'.inbound = core.inbound /\ core'.users = core.users \ us
BY DEF TypeOK, CoreOK, UsersDeleted

-----------------------------------------------------------------------------
(* The steps of the panel, and of the monitor outside a reload.            *)

\* The conjuncts of ControllerInv but for the types.
Parts ==
  /\ Reloading => mon.newN # NoConfig
  /\ Mine => Place
  /\ Mine /\ ~hist.broken => Serving
  /\ ~hist.stale => limits = ctl.userList
  /\ Closing

(* The controller that Start has brought up.                               *)
LEMMA InitController == Init => ControllerInv
<1> SUFFICES ASSUME Init PROVE ControllerInv
  OBVIOUS
<1>1. PICK c \in Configs \ (Unparsable \cup Invalid), l \in PanelLists :
        /\ panel = [cfg |-> c, users |-> l]
        /\ client = [body |-> c, userEtag |-> IF UserETags THEN l ELSE NoUsers]
        /\ ctl = [info |-> c, userList |-> l]
        /\ limits = l
        /\ limiter = TRUE
        /\ core = [entry |-> TRUE, inbound |-> c, users |-> DOMAIN l]
        /\ mon = [at |-> "idle", newN |-> NoConfig, newU |-> NoUsers]
        /\ closer = "up"
        /\ hist = [faults |-> 0, cfgs |-> 0, users |-> 0, broken |-> FALSE, stale |-> FALSE,
                   straggler |-> FALSE]
  BY DEF Init
<1>2. l \in UserLists /\ DOMAIN l \subseteq Uuids /\ c # NoConfig
  BY ConfigsOK, ListShape DEF PanelLists
<1>3. TypeOK
  BY <1>1, <1>2, NoUsersIsList DEF TypeOK, Labels
<1>4. Parts
  BY <1>1 DEF Parts, Reloading, Mine, Place, Serving, Closing, Asking, Updating, At, Has
<1> QED BY <1>3, <1>4 DEF ControllerInv, Parts

(* What the panel does is seen by nobody until it is asked.                *)
LEMMA PanelKeeps ==
  ASSUME ControllerInv, PanelConfigChange \/ PanelUsersChange
  PROVE  ControllerInv'
<1>1. /\ UNCHANGED <<client, ctl, limits, limiter, core, mon, closer>>
      /\ hist'.broken = hist.broken /\ hist'.stale = hist.stale /\ hist'.straggler = hist.straggler
      /\ HistOK'
  BY DEF PanelConfigChange, PanelUsersChange, ControllerInv, TypeOK, HistOK
<1>2. panel' \in [cfg : Configs, users : UserLists]
  BY DEF PanelConfigChange, PanelUsersChange, PanelLists, ControllerInv, TypeOK
<1>3. TypeOK'
  BY <1>1, <1>2 DEF ControllerInv, TypeOK, HistOK
<1>4. Parts'
  BY <1>1
  DEF ControllerInv, Parts, Reloading, Mine, Place, Serving, Closing, Asking, Updating, At, Has
<1> QED BY <1>3, <1>4 DEF ControllerInv, Parts

(* The monitor goes on without having touched the core, the controller's   *)
(* books or the limiter: from asking to asking or to the incremental       *)
(* update, or back to idle where nothing was changed yet.                  *)
LEMMA AskingKeeps ==
  ASSUME ControllerInv, Asking, mon.at = "idle" => closer \in {"up", "stopping"},
         UNCHANGED <<panel, ctl, limits, limiter, core, closer>>,
         client' \in [body : Configs \cup {NoConfig}, userEtag : UserLists], Noted(TRUE),
         mon' \in [at : Labels, newN : Configs \cup {NoConfig}, newU : UserLists],
         mon'.at \in {"idle", "ready", "users", "reload", "delUsers"},
         mon'.at = "reload" => mon'.newN # NoConfig
  PROVE  ControllerInv'
<1>1. TypeOK'
  BY DEF ControllerInv, TypeOK, Noted, HistOK
<1>2. Parts'
  BY DEF ControllerInv, Parts, Reloading, Mine, Place, Serving, Closing, Asking, Updating, At, Has, Noted
<1> QED BY <1>1, <1>2 DEF ControllerInv, Parts

(* The timer of the monitor's task.                                        *)
LEMMA TickKeeps ==
  ASSUME ControllerInv, Tick
  PROVE  ControllerInv'
<1>1. /\ mon'.at = "ready" /\ mon' \in [at : Labels, newN : Configs \cup {NoConfig}, newU : UserLists]
      /\ Asking /\ closer \in {"up", "stopping"}
      /\ UNCHANGED <<panel, client, ctl, limits, limiter, core, closer, hist>>
  BY DEF Tick, At, Goto, Asking, ControllerInv, TypeOK, Labels
<1>2. Noted(TRUE) /\ client' \in [body : Configs \cup {NoConfig}, userEtag : UserLists]
  BY <1>1 DEF Noted, ControllerInv, TypeOK, HistOK
<1> QED BY <1>1, <1>2, AskingKeeps

(* The two requests of the monitor.                                        *)
LEMMA RequestKeeps ==
  ASSUME ControllerInv, GetNodeInfo \/ GetUserList
  PROVE  ControllerInv'
<1>1. /\ mon.at \in {"ready", "users"} /\ UNCHANGED <<panel, ctl, limits, limiter, core, closer>>
  BY DEF GetNodeInfo, GetUserList, At
<1>2. Noted(TRUE)
  BY FailsNotes DEF GetNodeInfo, GetUserList, Works, Noted, HistOK, Undone, ControllerInv, TypeOK
<1>3. client' \in [body : Configs \cup {NoConfig}, userEtag : UserLists]
  BY NoUsersIsList DEF GetNodeInfo, GetUserList, ControllerInv, TypeOK
<1>4. /\ mon' \in [at : Labels, newN : Configs \cup {NoConfig}, newU : UserLists]
      /\ mon'.at \in {"idle", "users", "reload", "delUsers"}
      /\ mon'.at = "reload" => mon'.newN # NoConfig
  <2>1. CASE GetNodeInfo
    <3>1. PICK body \in {panel.cfg, NoConfig} :
            \/ mon' = [at |-> "users", newN |-> NoConfig, newU |-> NoUsers]
            \/ Return
            \/ mon' = [at |-> "users", newN |-> body, newU |-> NoUsers]
      BY <2>1 DEF GetNodeInfo
    <3> QED BY <3>1, NoUsersIsList DEF Return, ControllerInv, TypeOK, Labels
  <2>2. CASE GetUserList
    <3>1. \/ Return
          \/ \E l \in UserLists : Dispatch(l)
      BY <2>2, NoUsersIsList DEF GetUserList, ControllerInv, TypeOK
    <3>2. \/ Return
          \/ \E l \in UserLists :
               \/ mon.newN # NoConfig /\ mon' = [mon EXCEPT !.at = "reload", !.newU = l]
               \/ mon' = [mon EXCEPT !.at = "delUsers", !.newU = l]
      BY <3>1 DEF Dispatch
    <3>3. CASE Return
      BY <3>3, NoUsersIsList DEF Return, Labels
    <3>4. ASSUME NEW l \in UserLists, NEW label \in {"reload", "delUsers"}, mon' = [mon EXCEPT !.at = label, !.newU = l]
          PROVE  mon' \in [at : Labels, newN : Configs \cup {NoConfig}, newU : UserLists] /\ mon'.at = label /\ mon'.newN = mon.newN
      BY <3>4 DEF ControllerInv, TypeOK, Labels
    <3> QED BY <3>2, <3>3, <3>4
  <2> QED BY <2>1, <2>2
<1> QED BY <1>1, <1>2, <1>3, <1>4, AskingKeeps DEF Asking

(* The incremental update: whom the core serves follows the difference of  *)
(* the lists, or a call has failed for good.                               *)
LEMMA UpdatingKeeps ==
  ASSUME ControllerInv, DelUsers \/ AddUsers
  PROVE  ControllerInv'
<1> DEFINE del == Deleted(ctl.userList, mon.newU)
           add == Added(ctl.userList, mon.newU)
<1>1. /\ Updating /\ UNCHANGED <<panel, client, ctl, limits, limiter, closer>>
      /\ mon.at \in {"delUsers", "addUsers"}
  BY DEF DelUsers, AddUsers, At, Updating
<1>2. add \subseteq Uuids /\ del \subseteq Uuids
  BY ListShape DEF ControllerInv, TypeOK, Added, Deleted
<1>3. /\ CoreOK' /\ core'.entry = core.entry /\ core'.inbound = core.inbound
      /\ \/ /\ Noted(TRUE) /\ UNCHANGED hist /\ mon'= [mon EXCEPT !.at = "addUsers"] /\ core'.users = core.users \ del
            /\ mon.at = "delUsers"
         \/ /\ Noted(TRUE) /\ UNCHANGED hist /\ mon'= [mon EXCEPT !.at = "updateUser"] /\ core'.users = core.users \cup add
            /\ mon.at = "addUsers"
         \/ mon.at = "delUsers" /\ Return /\ Noted(~CanDelUsers(del))
         \/ mon.at = "addUsers" /\ Return /\ Noted(~CanAddUsers(add))
  <2>0. TypeOK /\ CoreOK /\ HistOK
    BY DEF ControllerInv, TypeOK, CoreOK, HistOK
  <2>a. UNCHANGED hist => Noted(TRUE)
    BY <2>0 DEF Noted, HistOK
  <2>1. CASE DelUsers
    <3>1. CASE del = {} /\ Goto("addUsers") /\ Works /\ UNCHANGED core
      BY <2>0, <2>a, <2>1, <3>1 DEF DelUsers, Goto, Works, At, CoreOK
    <3>2. CASE del # {} /\ CanDelUsers(del) /\ UsersDeleted(del) /\ Goto("addUsers") /\ Works
      BY <2>0, <2>a, <2>1, <3>2, UsersDeletedFrom DEF DelUsers, Goto, Works, At
    <3>3. CASE DelUsersFailed(del, "DelUsers") /\ Return
      <4>1. "DelUsers" \notin Undone
        BY DEF Undone
      <4>2. CoreOK' /\ core'.entry = core.entry /\ core'.inbound = core.inbound /\ Noted(~CanDelUsers(del) \/ "DelUsers" \in Undone)
        BY <2>0, <3>3, DelUsersFailing
      <4> QED BY <2>1, <3>3, <4>1, <4>2 DEF DelUsers, At, Noted
    <3> QED BY <2>1, <3>1, <3>2, <3>3 DEF DelUsers
  <2>2. CASE AddUsers
    <3>1. CASE add = {} /\ Goto("updateUser") /\ Works /\ UNCHANGED core
      BY <2>0, <2>a, <2>2, <3>1 DEF AddUsers, Goto, Works, At, CoreOK
    <3>2. CASE add # {} /\ CanAddUsers(add) /\ UsersAdded(add) /\ Goto("updateUser") /\ Works
      BY <1>2, <2>0, <2>a, <2>2, <3>2, UsersAddedTo DEF AddUsers, Goto, Works, At
    <3>3. CASE AddUsersFailed(add, "AddUsers") /\ Return
      <4>1. "AddUsers" \notin Undone
        BY DEF Undone
      <4>2. CoreOK' /\ core'.entry = core.entry /\ core'.inbound = core.inbound /\ Noted(~CanAddUsers(add) \/ "AddUsers" \in Undone)
        BY <1>2, <2>0, <3>3, AddUsersFailing
      <4> QED BY <2>2, <3>3, <4>1, <4>2 DEF AddUsers, At, Noted
    <3> QED BY <2>2, <3>1, <3>2, <3>3 DEF AddUsers
  <2> QED BY <2>1, <2>2
<1>4. /\ mon' \in [at : Labels, newN : Configs \cup {NoConfig}, newU : UserLists]
      /\ \/ mon'.at = "idle"
         \/ mon.at = "delUsers" /\ mon'.at = "addUsers" /\ mon'.newU = mon.newU
         \/ mon.at = "addUsers" /\ mon'.at = "updateUser" /\ mon'.newU = mon.newU
  <2>1. CASE Return
    BY <2>1, NoUsersIsList DEF Return, Labels
  <2>2. CASE ~Return
    BY <1>3, <2>2 DEF ControllerInv, TypeOK, Labels
  <2> QED BY <2>1, <2>2
<1>5. hist'.stale = hist.stale /\ hist'.straggler = hist.straggler /\ HistOK' /\ (~hist'.broken => ~hist.broken)
  BY <1>3 DEF Noted
<1>6. TypeOK'
  BY <1>1, <1>3, <1>4, <1>5 DEF ControllerInv, TypeOK, CoreOK, HistOK
<1>7. (Reloading => mon.newN # NoConfig)' /\ (~hist.stale => limits = ctl.userList)' /\ (Mine => Place)' /\ Closing'
  BY <1>1, <1>3, <1>4, <1>5 DEF ControllerInv, Reloading, Mine, Place, Asking, Updating, Has, Closing
<1>8. (Mine /\ ~hist.broken => Serving)'
  <2> SUFFICES ASSUME Mine', ~hist'.broken PROVE Serving'
    OBVIOUS
  <2>1. Mine /\ ~hist.broken /\ Serving
    BY <1>1, <1>5 DEF ControllerInv, Mine
  <2>2. Has(ctl.info)' /\ core.inbound # NoConfig
    BY <1>1, <1>3, <2>1, ConfigsOK DEF Serving, Has, ControllerInv, TypeOK
  <2>3. CASE mon.at = "delUsers"
    <3>1. core.users = DOMAIN ctl.userList /\ CanDelUsers(del)
      BY <1>1, <2>1, <2>2, <2>3, DifferenceOfLists DEF Serving, At, Has, CanDelUsers
    <3>2. mon'.at = "addUsers" /\ mon'.newU = mon.newU /\ core'.users = core.users \ del
      BY <1>3, <1>4, <2>3, <3>1 DEF Noted, Return, ControllerInv, TypeOK
    <3> QED BY <1>1, <2>2, <3>1, <3>2 DEF Serving, At, Asking
  <2>4. CASE mon.at = "addUsers"
    <3>1. core.users = DOMAIN ctl.userList \ del /\ CanAddUsers(add)
      BY <1>1, <2>1, <2>2, <2>4, DifferenceOfLists DEF Serving, At, Has, CanAddUsers
    <3>2. mon'.at = "updateUser" /\ mon'.newU = mon.newU /\ core'.users = core.users \cup add
      BY <1>3, <1>4, <2>4, <3>1 DEF Noted, Return, ControllerInv, TypeOK
    <3> QED BY <1>1, <2>2, <3>1, <3>2, DifferenceOfLists DEF Serving, At, Asking
  <2> QED BY <1>1, <2>3, <2>4
<1> QED BY <1>6, <1>7, <1>8 DEF ControllerInv

(* The limiter and the books get the new list together.                    *)
LEMMA UpdateUserKeeps ==
  ASSUME ControllerInv, UpdateUser
  PROVE  ControllerInv'
<1>1. /\ mon.at = "updateUser" /\ Return /\ UNCHANGED <<panel, client, limiter, core, closer, hist>>
      /\ ctl' = [ctl EXCEPT !.userList = mon.newU]
      /\ limits' = [u \in (DOMAIN limits \ Deleted(ctl.userList, mon.newU)) \cup Added(ctl.userList, mon.newU) |->
                      IF u \in Added(ctl.userList, mon.newU) THEN mon.newU[u] ELSE limits[u]]
  BY DEF UpdateUser, At
<1>2. mon.newU \in UserLists /\ ctl.userList \in UserLists /\ limits \in UserLists
  BY DEF ControllerInv, TypeOK
<1>3. limits' \in UserLists /\ (limits = ctl.userList => limits' = mon.newU)
  <2>1. limits' \in UserLists
    BY <1>1, <1>2, UpdatedIsList
  <2>2. CASE limits = ctl.userList
    <3>1. limits' = [u \in (DOMAIN ctl.userList \ Deleted(ctl.userList, mon.newU)) \cup Added(ctl.userList, mon.newU) |->
                       IF u \in Added(ctl.userList, mon.newU) THEN mon.newU[u] ELSE ctl.userList[u]]
      BY <1>1, <2>2
    <3>2. limits' = mon.newU
      BY <1>2, <3>1, UpdatedList
    <3> QED BY <2>1, <3>2
  <2> QED BY <2>1, <2>2
<1>4. ctl' \in [info : Configs, userList : UserLists] /\ ctl'.info = ctl.info /\ ctl'.userList = mon.newU
  BY <1>1, <1>2 DEF ControllerInv, TypeOK
<1>5. mon' \in [at : Labels, newN : Configs \cup {NoConfig}, newU : UserLists] /\ mon'.at = "idle"
  BY <1>1, NoUsersIsList DEF Return, Labels
<1>6. TypeOK'
  BY <1>1, <1>3, <1>4, <1>5 DEF ControllerInv, TypeOK
<1>7. Parts'
  BY <1>1, <1>3, <1>4, <1>5
  DEF Parts, ControllerInv, Reloading, Mine, Place, Serving, Asking, Updating, At, Has, Closing
<1> QED BY <1>6, <1>7 DEF ControllerInv, Parts

-----------------------------------------------------------------------------
(* The reload.                                                             *)

(* Where a step goes: back to idle, or to the next label of the reload.    *)
LEMMA WhereTo ==
  ASSUME TypeOK
  PROVE  /\ Return => /\ mon' \in [at : Labels, newN : Configs \cup {NoConfig}, newU : UserLists]
                      /\ mon'.at = "idle"
         /\ \A label \in Labels :
              Goto(label) => /\ mon' \in [at : Labels, newN : Configs \cup {NoConfig}, newU : UserLists]
                             /\ mon'.at = label /\ mon'.newN = mon.newN /\ mon'.newU = mon.newU
BY NoUsersIsList DEF TypeOK, Return, Goto, Labels

(* Before DelNode a reload may be given up; DelNode makes room for the new *)
(* inbound, or has failed for good.                                        *)
LEMMA ReloadDelNodeKeeps ==
  ASSUME ControllerInv, ReloadDelNode
  PROVE  ControllerInv'
<1>0. TypeOK /\ CoreOK /\ HistOK
  BY DEF ControllerInv, TypeOK, CoreOK, HistOK
<1>1. mon.at = "reload" /\ UNCHANGED <<panel, client, ctl, limits, limiter, closer>>
  BY DEF ReloadDelNode, At
<1>2. /\ CoreOK'
      /\ \/ Return /\ UNCHANGED core /\ Noted(TRUE)
         \/ Return /\ core'.inbound = NoConfig /\ Noted(FALSE)
         \/ Goto("reloadAddNode") /\ core'.inbound = NoConfig /\ Noted(TRUE)
  <2>1. UNCHANGED hist => Noted(TRUE)
    BY <1>0 DEF Noted, HistOK
  <2>2. CASE Return /\ Works /\ UNCHANGED core
    BY <1>0, <2>1, <2>2 DEF Works, CoreOK
  <2>3. CASE Fails("EnsureCertificate") /\ Return /\ UNCHANGED core
    BY <1>0, <2>3, FailsNotes DEF Noted, HistOK, CoreOK, Undone
  <2>4. CASE CanDelNode /\ NodeDeleted /\ Goto("reloadAddNode") /\ Works
    BY <1>0, <2>1, <2>4 DEF NodeDeleted, Works, CoreOK
  <2>5. CASE DelNodeFailed("DelNode(old)") /\ Return
    <3>1. CASE ~CanDelNode
      BY <1>0, <2>1, <2>5, <3>1 DEF DelNodeFailed, Works, CoreOK
    <3>2. CASE CanDelNode
      <4>1. "DelNode(old)" \notin Undone
        BY DEF Undone
      <4>2. CoreOK' /\ core'.inbound = NoConfig /\ Noted(~CanDelNode \/ "DelNode(old)" \in Undone)
        BY <1>0, <2>5, <3>2, DelNodeFailing
      <4> QED BY <2>5, <3>2, <4>1, <4>2 DEF Noted
    <3> QED BY <3>1, <3>2
  <2> QED BY <2>2, <2>3, <2>4, <2>5 DEF ReloadDelNode
<1>3. /\ mon' \in [at : Labels, newN : Configs \cup {NoConfig}, newU : UserLists]
      /\ \/ mon'.at = "idle" /\ UNCHANGED core
         \/ mon'.at = "idle" /\ core'.inbound = NoConfig /\ hist'.broken
         \/ mon'.at = "reloadAddNode" /\ mon'.newN = mon.newN /\ core'.inbound = NoConfig
  BY <1>0, <1>2, WhereTo DEF Noted, Labels
<1>4. /\ hist'.stale = hist.stale /\ hist'.straggler = hist.straggler /\ HistOK'
      /\ ~hist'.broken => ~hist.broken
  BY <1>2 DEF Noted
<1>5. TypeOK'
  BY <1>0, <1>1, <1>2, <1>3, <1>4 DEF TypeOK, CoreOK, HistOK
<1>6. Parts'
  BY <1>1, <1>3, <1>4
  DEF Parts, ControllerInv, Reloading, Mine, Place, Serving, Asking, Updating, At, Has, Closing
<1> QED BY <1>5, <1>6 DEF ControllerInv, Parts

(* A reload that is through puts the configuration and the users it has    *)
(* installed on the controller's books, and notes that the limiter may     *)
(* have other users.                                                       *)
LEMMA CommitNotes ==
  ASSUME TypeOK, Commit, mon.newN # NoConfig
  PROVE  /\ ctl' \in [info : Configs, userList : UserLists]
         /\ ctl'.info = mon.newN /\ ctl'.userList = mon.newU
         /\ hist'.broken = hist.broken /\ hist'.straggler = hist.straggler /\ HistOK'
         /\ ~hist'.stale => ~hist.stale /\ mon.newU = ctl.userList
         /\ Return
<1> DEFINE s == hist.stale \/ mon.newU # ctl.userList
<1>1. s \in BOOLEAN /\ hist' = [hist EXCEPT !.stale = s]
  BY DEF Commit, TypeOK
<1> HIDE DEF s
<1>2. hist'.broken = hist.broken /\ hist'.straggler = hist.straggler /\ HistOK' /\ hist'.stale = s
  BY <1>1 DEF TypeOK, HistOK
<1>3. /\ ctl' \in [info : Configs, userList : UserLists]
      /\ ctl'.info = mon.newN /\ ctl'.userList = mon.newU /\ Return
  BY DEF Commit, TypeOK
<1> QED BY <1>2, <1>3 DEF s

(* The new inbound is installed in the room made for it, or the rollback   *)
(* begins.                                                                 *)
LEMMA ReloadAddNodeKeeps ==
  ASSUME ControllerInv, ReloadAddNode
  PROVE  ControllerInv'
<1>0. TypeOK /\ CoreOK /\ HistOK
  BY DEF ControllerInv, TypeOK, CoreOK, HistOK
<1>1. mon.at = "reloadAddNode" /\ mon.newN # NoConfig /\ UNCHANGED <<panel, client, limits, limiter, closer>>
  BY DEF ReloadAddNode, At, ControllerInv, Reloading
<1>2. UNCHANGED hist => Noted(TRUE)
  BY <1>0 DEF Noted, HistOK
<1>3. CASE CanAddNode /\ NodeAdded(mon.newN) /\ mon.newU = NoUsers /\ Commit
  <2>1. CoreOK' /\ core'.entry /\ core'.inbound = mon.newN /\ core'.users = {}
    BY <1>0, <1>3 DEF NodeAdded, CoreOK, TypeOK
  <2>2. /\ ctl' \in [info : Configs, userList : UserLists]
        /\ ctl'.info = mon.newN /\ ctl'.userList = mon.newU /\ DOMAIN ctl'.userList = {}
        /\ hist'.broken = hist.broken /\ hist'.straggler = hist.straggler /\ HistOK'
        /\ ~hist'.stale => ~hist.stale /\ mon.newU = ctl.userList
        /\ Return
    BY <1>0, <1>1, <1>3, CommitNotes, NoUsersIsList
  <2>3. mon' \in [at : Labels, newN : Configs \cup {NoConfig}, newU : UserLists] /\ mon'.at = "idle"
    BY <1>0, <2>2, WhereTo
  <2>4. TypeOK'
    BY <1>0, <1>1, <2>1, <2>2, <2>3 DEF TypeOK, CoreOK, HistOK
  <2>5. Parts'
    BY <1>1, <2>1, <2>2, <2>3
    DEF Parts, ControllerInv, Reloading, Mine, Place, Serving, Asking, Updating, At, Has, Closing
  <2> QED BY <2>4, <2>5 DEF ControllerInv, Parts
<1>4. CASE CanAddNode /\ NodeAdded(mon.newN) /\ Goto("reloadAddUsers") /\ Works /\ UNCHANGED ctl
  <2>1. CoreOK' /\ core'.entry /\ core'.inbound = mon.newN /\ core'.users = {}
    BY <1>0, <1>4 DEF NodeAdded, CoreOK, TypeOK
  <2>2. UNCHANGED <<hist, ctl>>
    BY <1>4 DEF Works
  <2>3. /\ mon' \in [at : Labels, newN : Configs \cup {NoConfig}, newU : UserLists]
        /\ mon'.at = "reloadAddUsers" /\ mon'.newN = mon.newN
    BY <1>0, <1>4, WhereTo DEF Labels
  <2>4. TypeOK'
    BY <1>0, <1>1, <2>1, <2>2, <2>3 DEF TypeOK, CoreOK, HistOK
  <2>5. Parts'
    BY <1>1, <2>1, <2>2, <2>3
    DEF Parts, ControllerInv, Reloading, Mine, Place, Serving, Asking, Updating, At, Has, Closing
  <2> QED BY <2>4, <2>5 DEF ControllerInv, Parts
<1>5. CASE /\ (~CanAddNode /\ Works) \/ (CanAddNode /\ Fails("AddNode(new)"))
           /\ Goto("rollback") /\ UNCHANGED <<core, ctl>>
  <2>1. Noted(TRUE)
    BY <1>0, <1>2, <1>5, FailsNotes DEF Works, Noted, HistOK
  <2>2. UNCHANGED <<core, ctl>>
    BY <1>5
  <2>3. mon' \in [at : Labels, newN : Configs \cup {NoConfig}, newU : UserLists] /\ mon'.at = "rollback"
    BY <1>0, <1>5, WhereTo DEF Labels
  <2>4. TypeOK'
    BY <1>0, <1>1, <2>1, <2>2, <2>3 DEF TypeOK, Noted, HistOK
  <2>5. Parts'
    BY <1>1, <2>1, <2>2, <2>3
    DEF Parts, ControllerInv, Reloading, Mine, Place, Serving, Asking, Updating, At, Has, Closing, Noted
  <2> QED BY <2>4, <2>5 DEF ControllerInv, Parts
<1> QED BY <1>3, <1>4, <1>5 DEF ReloadAddNode

(* The new users come to an inbound without users, or the inbound has to   *)
(* go again.                                                               *)
LEMMA ReloadAddUsersKeeps ==
  ASSUME ControllerInv, ReloadAddUsers
  PROVE  ControllerInv'
<1> DEFINE us == DOMAIN mon.newU
<1>0. TypeOK /\ CoreOK /\ HistOK /\ us \in SUBSET Uuids
  BY ListShape DEF ControllerInv, TypeOK, CoreOK, HistOK
<1>1. mon.at = "reloadAddUsers" /\ mon.newN # NoConfig /\ UNCHANGED <<panel, client, limits, limiter, closer>>
  BY DEF ReloadAddUsers, At, ControllerInv, Reloading
<1>2. CASE CanAddUsers(us) /\ UsersAdded(us) /\ Commit
  <2>1. CoreOK' /\ core'.entry = core.entry /\ core'.inbound = core.inbound /\ core'.users = core.users \cup us
    BY <1>0, <1>2, UsersAddedTo
  <2>2. /\ ctl' \in [info : Configs, userList : UserLists]
        /\ ctl'.info = mon.newN /\ ctl'.userList = mon.newU
        /\ hist'.broken = hist.broken /\ hist'.straggler = hist.straggler /\ HistOK'
        /\ ~hist'.stale => ~hist.stale /\ mon.newU = ctl.userList
        /\ Return
    BY <1>0, <1>1, <1>2, CommitNotes
  <2>3. mon' \in [at : Labels, newN : Configs \cup {NoConfig}, newU : UserLists] /\ mon'.at = "idle"
    BY <1>0, <2>2, WhereTo
  <2>4. TypeOK'
    BY <1>0, <1>1, <2>1, <2>2, <2>3 DEF TypeOK, CoreOK, HistOK
  <2>5. Parts'
    BY <1>1, <2>1, <2>2, <2>3
    DEF Parts, ControllerInv, Reloading, Mine, Place, Serving, Asking, Updating, At, Has, Closing
  <2> QED BY <2>4, <2>5 DEF ControllerInv, Parts
<1>3. CASE AddUsersFailed(us, "AddUsers(new)") /\ Goto("delNew") /\ UNCHANGED ctl
  <2>1. CoreOK' /\ core'.entry = core.entry /\ core'.inbound = core.inbound
    BY <1>0, <1>3, AddUsersFailing
  <2>2. /\ hist'.stale = hist.stale /\ hist'.straggler = hist.straggler /\ HistOK'
        /\ ~hist'.broken => ~hist.broken
    BY <1>0, <1>3, AddUsersFailing DEF Noted
  <2>3. /\ mon' \in [at : Labels, newN : Configs \cup {NoConfig}, newU : UserLists]
        /\ mon'.at = "delNew" /\ mon'.newN = mon.newN
    BY <1>0, <1>3, WhereTo DEF Labels
  <2>4. TypeOK'
    BY <1>0, <1>1, <1>3, <2>1, <2>2, <2>3 DEF TypeOK, CoreOK, HistOK
  <2>5. Parts'
    BY <1>1, <1>3, <2>1, <2>2, <2>3
    DEF Parts, ControllerInv, Reloading, Mine, Place, Serving, Asking, Updating, At, Has, Closing
  <2> QED BY <2>4, <2>5 DEF ControllerInv, Parts
<1> QED BY <1>2, <1>3 DEF ReloadAddUsers

(* The rollback finds no inbound of the new configuration: DelNode takes   *)
(* away the partially installed one also when it returns an error, and it  *)
(* could delete it, since the reload has installed it with its entry.      *)
LEMMA RollbackDelNodeKeeps ==
  ASSUME ControllerInv, RollbackDelNode
  PROVE  ControllerInv'
<1>0. TypeOK /\ CoreOK /\ HistOK
  BY DEF ControllerInv, TypeOK, CoreOK, HistOK
<1>1. mon.at = "delNew" /\ Goto("rollback") /\ UNCHANGED <<panel, client, ctl, limits, limiter, closer>>
  BY DEF RollbackDelNode, At
<1>2. UNCHANGED hist => Noted(TRUE)
  BY <1>0 DEF Noted, HistOK
<1>3. CoreOK' /\ (CanDelNode => core'.inbound = NoConfig) /\ Noted(TRUE)
  <2>1. CASE CanDelNode /\ NodeDeleted /\ Works
    BY <1>0, <1>2, <2>1 DEF NodeDeleted, CoreOK, Works
  <2>2. CASE DelNodeFailed("DelNode(new)")
    <3>1. "DelNode(new)" \in Undone
      BY DEF Undone
    <3> QED BY <1>0, <2>2, <3>1, DelNodeFailing DEF Noted
  <2> QED BY <2>1, <2>2 DEF RollbackDelNode
<1>4. mon' \in [at : Labels, newN : Configs \cup {NoConfig}, newU : UserLists] /\ mon'.at = "rollback"
  BY <1>0, <1>1, WhereTo DEF Labels
<1>5. Mine => CanDelNode
  BY <1>1 DEF ControllerInv, Reloading, Place, Has, CanDelNode
<1>6. TypeOK'
  BY <1>0, <1>1, <1>3, <1>4 DEF TypeOK, CoreOK, HistOK, Noted
<1>7. Parts'
  BY <1>1, <1>3, <1>4, <1>5
  DEF Parts, ControllerInv, Reloading, Mine, Place, Serving, Asking, Updating, At, Has, Closing, Noted
<1> QED BY <1>6, <1>7 DEF ControllerInv, Parts

(* The rollback serves the old configuration again, and the old users      *)
(* unless one of its own calls fails: with no inbound AddNode has nothing  *)
(* else to refuse, and neither has AddUsers of a core without users.       *)
LEMMA RollbackAddNodeKeeps ==
  ASSUME ControllerInv, RollbackAddNode
  PROVE  ControllerInv'
<1>0. TypeOK /\ CoreOK /\ HistOK
  BY DEF ControllerInv, TypeOK, CoreOK, HistOK
<1>1. mon.at = "rollback" /\ UNCHANGED <<panel, client, ctl, limits, limiter, closer>>
  BY DEF RollbackAddNode, At
<1>2. UNCHANGED hist => Noted(TRUE)
  BY <1>0 DEF Noted, HistOK
<1>3. CASE CanAddNode /\ NodeAdded(ctl.info) /\ Works
  <2>1. CoreOK' /\ core'.entry /\ core'.inbound = ctl.info /\ core'.users = {} /\ UNCHANGED hist
    BY <1>0, <1>3, ConfigsOK DEF NodeAdded, CoreOK, TypeOK, Works
  <2>2. /\ mon' \in [at : Labels, newN : Configs \cup {NoConfig}, newU : UserLists]
        /\ \/ mon'.at = "idle" /\ DOMAIN ctl.userList = {}
           \/ mon'.at = "rollbackUsers"
    <3>1. CASE ctl.userList = NoUsers /\ Return
      BY <1>0, <3>1, WhereTo, NoUsersIsList
    <3>2. CASE Goto("rollbackUsers")
      BY <1>0, <3>2, WhereTo DEF Labels
    <3>3. \/ ctl.userList = NoUsers /\ Return
          \/ Goto("rollbackUsers")
          \/ Return /\ UNCHANGED core
      BY DEF RollbackAddNode
    <3>4. ~UNCHANGED core
      BY <2>1, <1>3, ConfigsOK, <1>0 DEF CanAddNode, TypeOK
    <3> QED BY <3>1, <3>2, <3>3, <3>4
  <2>3. TypeOK'
    BY <1>0, <1>1, <2>1, <2>2 DEF TypeOK, CoreOK, HistOK
  <2>4. Parts'
    BY <1>1, <2>1, <2>2
    DEF Parts, ControllerInv, Reloading, Mine, Place, Serving, Asking, Updating, At, Has, Closing
  <2> QED BY <2>3, <2>4 DEF ControllerInv, Parts
<1>4. CASE /\ (~CanAddNode /\ Works) \/ (CanAddNode /\ Fails("AddNode(old)"))
           /\ Return /\ UNCHANGED core
  <2>1. "AddNode(old)" \notin Undone
    BY DEF Undone
  <2>2. Noted(~CanAddNode)
    BY <1>0, <1>2, <1>4, <2>1, FailsNotes DEF Works, Noted, HistOK
  <2>3. mon' \in [at : Labels, newN : Configs \cup {NoConfig}, newU : UserLists] /\ mon'.at = "idle" /\ UNCHANGED core
    BY <1>0, <1>4, WhereTo
  <2>4. Mine => CanAddNode
    BY <1>1 DEF ControllerInv, Place, CanAddNode
  <2>5. TypeOK'
    BY <1>0, <1>1, <2>2, <2>3 DEF TypeOK, Noted, HistOK
  <2>6. Parts'
    BY <1>1, <2>2, <2>3, <2>4
    DEF Parts, ControllerInv, Reloading, Mine, Place, Serving, Asking, Updating, At, Has, Closing, Noted
  <2> QED BY <2>5, <2>6 DEF ControllerInv, Parts
<1> QED BY <1>3, <1>4 DEF RollbackAddNode

(* The old users come back to the old inbound.                             *)
LEMMA RollbackAddUsersKeeps ==
  ASSUME ControllerInv, RollbackAddUsers
  PROVE  ControllerInv'
<1> DEFINE us == DOMAIN ctl.userList
<1>0. TypeOK /\ CoreOK /\ HistOK /\ us \in SUBSET Uuids
  BY ListShape DEF ControllerInv, TypeOK, CoreOK, HistOK
<1>1. mon.at = "rollbackUsers" /\ Return /\ UNCHANGED <<panel, client, ctl, limits, limiter, closer>>
  BY DEF RollbackAddUsers, At
<1>2. mon' \in [at : Labels, newN : Configs \cup {NoConfig}, newU : UserLists] /\ mon'.at = "idle"
  BY <1>0, <1>1, WhereTo
<1>3. /\ CoreOK' /\ core'.entry = core.entry /\ core'.inbound = core.inbound
      /\ \/ Noted(TRUE) /\ core'.users = core.users \cup us
         \/ Noted(~CanAddUsers(us))
  <2>1. CASE CanAddUsers(us) /\ UsersAdded(us) /\ Works
    BY <1>0, <2>1, UsersAddedTo DEF Works, Noted, HistOK
  <2>2. CASE AddUsersFailed(us, "AddUsers(old)")
    <3>1. "AddUsers(old)" \notin Undone
      BY DEF Undone
    <3>2. /\ CoreOK' /\ core'.entry = core.entry /\ core'.inbound = core.inbound
          /\ Noted(~CanAddUsers(us) \/ "AddUsers(old)" \in Undone)
      BY <1>0, <2>2, AddUsersFailing
    <3> QED BY <3>1, <3>2 DEF Noted
  <2> QED BY <2>1, <2>2 DEF RollbackAddUsers
<1>4. Mine => CanAddUsers(us) /\ core.users = {}
  BY <1>0, <1>1, ConfigsOK DEF ControllerInv, TypeOK, Place, Has, CanAddUsers
<1>5. TypeOK'
  BY <1>0, <1>1, <1>2, <1>3 DEF TypeOK, CoreOK, HistOK, Noted
<1>6. Parts'
  BY <1>1, <1>2, <1>3, <1>4
  DEF Parts, ControllerInv, Reloading, Mine, Place, Serving, Asking, Updating, At, Has, Closing, Noted
<1> QED BY <1>5, <1>6 DEF ControllerInv, Parts

-----------------------------------------------------------------------------
(* Close.                                                                  *)

(* Task.Close finds the monitor idle, or its goroutine ready to slip past. *)
LEMMA StoppingKeeps ==
  ASSUME ControllerInv, DeleteLimiter \/ CloseTasks
  PROVE  ControllerInv'
<1>1. CASE DeleteLimiter
  <2>1. /\ closer = "up" /\ limiter' = FALSE /\ closer' = "stopping"
        /\ UNCHANGED <<panel, client, ctl, limits, core, mon, hist>>
    BY <1>1 DEF DeleteLimiter
  <2>2. TypeOK'
    BY <2>1 DEF ControllerInv, TypeOK
  <2>3. Parts'
    BY <2>1
    DEF Parts, ControllerInv, Reloading, Mine, Place, Serving, Asking, Updating, At, Has, Closing
  <2> QED BY <2>2, <2>3 DEF ControllerInv, Parts
<1>2. CASE CloseTasks
  <2> DEFINE s == mon.at = "ready"
  <2>0. s \in BOOLEAN /\ hist' = [hist EXCEPT !.straggler = s]
    BY <1>2 DEF CloseTasks, At
  <2> HIDE DEF s
  <2>1. /\ HistOK' /\ hist'.straggler = s /\ hist'.broken = hist.broken /\ hist'.stale = hist.stale
        /\ closer = "stopping" /\ closer' = "stopped" /\ mon.at \in {"idle", "ready"}
        /\ UNCHANGED <<panel, client, ctl, limits, limiter, core, mon>>
    BY <1>2, <2>0 DEF CloseTasks, Executing, HistOK, ControllerInv, TypeOK
  <2>2. TypeOK'
    BY <2>1 DEF ControllerInv, TypeOK, HistOK
  <2>3. Parts'
    BY <2>1
    DEF Parts, ControllerInv, Reloading, Mine, Place, Serving, Asking, Updating, At, Has, Closing, s
  <2> QED BY <2>2, <2>3 DEF ControllerInv, Parts
<1> QED BY <1>1, <1>2

(* DelNode of Close takes the inbound away, whatever it returns: where     *)
(* nobody has slipped past, the inbound can be deleted or there is none.   *)
LEMMA CloseDelNodeKeeps ==
  ASSUME ControllerInv, CloseDelNode
  PROVE  ControllerInv'
<1>0. TypeOK /\ CoreOK /\ HistOK
  BY DEF ControllerInv, TypeOK, CoreOK, HistOK
<1>1. closer = "stopped" /\ closer' = "closed" /\ UNCHANGED <<panel, client, ctl, limits, limiter, mon>>
  BY DEF CloseDelNode
<1>2. /\ CoreOK' /\ (CanDelNode => core'.inbound = NoConfig) /\ (~CanDelNode => UNCHANGED core)
      /\ HistOK' /\ hist'.straggler = hist.straggler /\ hist'.stale = hist.stale
  <2>1. CASE CanDelNode /\ NodeDeleted /\ Works
    BY <1>0, <2>1 DEF NodeDeleted, CoreOK, Works, HistOK
  <2>2. CASE DelNodeFailed("Close")
    BY <1>0, <2>2, DelNodeFailing DEF Noted
  <2> QED BY <2>1, <2>2 DEF CloseDelNode
<1>3. ~hist.straggler => core'.inbound = NoConfig
  <2>1. ~hist.straggler => Place /\ Asking
    BY <1>1 DEF ControllerInv, Closing, Mine, Asking
  <2> QED BY <1>0, <1>2, <2>1, ConfigsOK DEF Place, Has, CanDelNode, TypeOK
<1>4. TypeOK'
  BY <1>0, <1>1, <1>2 DEF TypeOK, CoreOK, HistOK
<1>5. Parts'
  BY <1>1, <1>2, <1>3
  DEF Parts, ControllerInv, Reloading, Mine, Closing
<1> QED BY <1>4, <1>5 DEF ControllerInv, Parts

-----------------------------------------------------------------------------
(* What a controller promises.                                             *)

(* ControllerInv is an invariant.                                          *)
THEOREM ControllerStaysInStep == Spec => []ControllerInv
<1>1. ASSUME ControllerInv, [Next]_vars
      PROVE  ControllerInv'
  <2>1. CASE Next
    BY <1>1, <2>1, PanelKeeps, TickKeeps, RequestKeeps, UpdatingKeeps, UpdateUserKeeps,
       ReloadDelNodeKeeps, ReloadAddNodeKeeps, ReloadAddUsersKeeps,
       RollbackDelNodeKeeps, RollbackAddNodeKeeps, RollbackAddUsersKeeps,
       StoppingKeeps, CloseDelNodeKeeps
    DEF Next, nodeInfoMonitor
  <2>2. CASE UNCHANGED vars
    <3>1. TypeOK'
      BY <1>1, <2>2 DEF vars, ControllerInv, TypeOK
    <3>2. Parts'
      BY <1>1, <2>2
      DEF vars, Parts, ControllerInv, Reloading, Mine, Place, Serving, Asking, Updating, At, Has, Closing
    <3> QED BY <3>1, <3>2 DEF ControllerInv, Parts
  <2> QED BY <1>1, <2>1, <2>2
<1> QED BY <1>1, InitController, PTL DEF Spec

(* The controller, the core and the limiter keep their types, and nobody   *)
(* is served without an inbound.                                           *)
THEOREM ControllerTypes == Spec => []TypeOK
BY ControllerStaysInStep, PTL DEF ControllerInv

(* reloadNodeConfig with its rollback, and the incremental update: between *)
(* two executions of a running controller the core serves the              *)
(* configuration and exactly the users on the controller's books, unless a *)
(* call failed that no rollback undoes.                                    *)
THEOREM CoreInStep == Spec => []InStep
<1>1. ControllerInv => InStep
  BY DEF ControllerInv, InStep, Settled, Executing, Mine, Serving, Asking, Has
<1> QED BY <1>1, ControllerStaysInStep, PTL

(* Whatever fails, also in a rollback: between two executions there is the *)
(* inbound of the controller's configuration or none.                      *)
THEOREM OwnInboundOrNone == Spec => []InfoOrDown
<1>1. ControllerInv => InfoOrDown
  BY DEF ControllerInv, InfoOrDown, Settled, Executing, Mine, Place, Asking, Has
<1> QED BY <1>1, ControllerStaysInStep, PTL

(* Limiter.UpdateUser: the limiter has the list on the controller's books, *)
(* but for the users a reload has changed.                                 *)
THEOREM LimiterInStep == Spec => []LimitsInStep
<1>1. ControllerInv => LimitsInStep
  BY DEF ControllerInv, LimitsInStep
<1> QED BY <1>1, ControllerStaysInStep, PTL

(* Controller.Close: when it has returned, the limiter is gone, and so is  *)
(* the inbound unless a goroutine of the monitor slipped past the close.   *)
THEOREM CloseTearsDown == Spec => []ClosedIsDown
<1>1. ControllerInv => ClosedIsDown
  BY DEF ControllerInv, ClosedIsDown, Closing
<1> QED BY <1>1, ControllerStaysInStep, PTL

-----------------------------------------------------------------------------
(* The controller implements NodeService.                                  *)

\* What the monitor holds of the panel's answers at its places.
Holding ==
  /\ mon.at \in {"idle", "ready"} => mon.newN = NoConfig /\ mon.newU = NoUsers
  /\ mon.at = "users" => mon.newU = NoUsers
  /\ Updating => mon.newN = NoConfig /\ mon.newU # NoUsers

(* Every step leaves the monitor with the answers of its pull, or none.    *)
LEMMA StepHolds ==
  ASSUME ControllerInv, Holding, [Next]_vars PROVE Holding'
<1>0. TypeOK
  BY DEF ControllerInv
<1>1. CASE UNCHANGED mon
  BY <1>1 DEF Holding, Updating
<1>2. CASE Return
  BY <1>2 DEF Return, Holding, Updating
<1>3. ASSUME NEW label \in Labels, Goto(label), label # "users", label \in {"idle", "ready"} => At("idle"),
             label \in {"delUsers", "addUsers", "updateUser"} => Updating
      PROVE  Holding'
  <2>1. mon'.at = label /\ mon'.newN = mon.newN /\ mon'.newU = mon.newU
    BY <1>0, <1>3, WhereTo
  <2> QED BY <1>3, <2>1 DEF Holding, Updating, At
<1>4. CASE Tick
  BY <1>3, <1>4 DEF Tick, Labels, At
<1>5. CASE GetNodeInfo
  <2>1. Return \/ \E c : mon' = [at |-> "users", newN |-> c, newU |-> NoUsers]
    BY <1>5 DEF GetNodeInfo
  <2> QED BY <1>2, <2>1 DEF Holding, Updating
<1>6. CASE GetUserList
  <2>1. Return \/ \E l : Dispatch(l)
    BY <1>6 DEF GetUserList
  <2>2. ASSUME NEW l, Dispatch(l), ~Return PROVE Holding'
    <3>1. CASE mon.newN # NoConfig
      <4>1. mon'.at = "reload"
        BY <1>0, <2>2, <3>1 DEF Dispatch, TypeOK
      <4> QED BY <4>1 DEF Holding, Updating
    <3>2. CASE mon.newN = NoConfig
      <4>1. mon'.at = "delUsers" /\ mon'.newN = NoConfig /\ mon'.newU = l /\ l # NoUsers
        BY <1>0, <2>2, <3>2 DEF Dispatch, TypeOK
      <4> QED BY <4>1 DEF Holding, Updating
    <3> QED BY <3>1, <3>2
  <2> QED BY <1>2, <2>1, <2>2
<1>7. CASE DelUsers \/ AddUsers
  BY <1>2, <1>3, <1>7 DEF DelUsers, AddUsers, Labels, At, Updating
<1>8. CASE UpdateUser
  BY <1>2, <1>8 DEF UpdateUser
<1>9. CASE ReloadDelNode \/ ReloadAddNode \/ ReloadAddUsers
  BY <1>2, <1>3, <1>9 DEF ReloadDelNode, ReloadAddNode, ReloadAddUsers, Commit, Labels
<1>10. CASE RollbackDelNode \/ RollbackAddNode \/ RollbackAddUsers
  BY <1>2, <1>3, <1>10 DEF RollbackDelNode, RollbackAddNode, RollbackAddUsers, Labels
<1>11. CASE PanelConfigChange \/ PanelUsersChange \/ DeleteLimiter \/ CloseTasks \/ CloseDelNode
  BY <1>1, <1>11 DEF PanelConfigChange, PanelUsersChange, DeleteLimiter, CloseTasks, CloseDelNode
<1>12. CASE UNCHANGED vars
  BY <1>1, <1>12 DEF vars
<1> QED BY <1>4, <1>5, <1>6, <1>7, <1>8, <1>9, <1>10, <1>11, <1>12 DEF Next, nodeInfoMonitor

\* The service by the controller's books alone.
Books ==
  IF closer = "closed" /\ ~hist.straggler THEN Service!Closed
  ELSE IF hist.straggler \/ hist.broken THEN Service!Broken
  ELSE [status |-> "up", cfg |-> ctl.info, users |-> DOMAIN ctl.userList]
ServesBooks == Served = Books

(* Between two executions the core serves what is on the books, and after  *)
(* Close nothing: by the invariant.                                        *)
LEMMA ServedIsBooks == ControllerInv => ServesBooks
<1> SUFFICES ASSUME ControllerInv PROVE Served = Books
  BY DEF ServesBooks
<1>1. CASE closer = "closed" /\ ~hist.straggler
  <2>1. core.inbound = NoConfig /\ core.users = {}
    BY <1>1 DEF ControllerInv, Closing, TypeOK
  <2> QED BY <1>1, <2>1 DEF Served, Books, Service!Closed
<1>2. CASE hist.straggler \/ (closer # "closed" /\ hist.broken)
  BY <1>2 DEF Served, Books, Service!Broken
<1>3. CASE closer # "closed" /\ ~hist.straggler /\ ~hist.broken
  <2>1. Mine /\ Serving
    BY <1>3 DEF ControllerInv, TypeOK, Mine
  <2>2. ~Executing => core.entry /\ core.inbound = ctl.info /\ core.users = DOMAIN ctl.userList
    BY <2>1 DEF Executing, Serving, Asking, Has
  <2> QED BY <1>3, <2>2 DEF Served, Books
<1> QED BY <1>1, <1>2, <1>3

(* A failure that is undone breaks nothing.                                *)
LEMMA UndoneBreaksNothing ==
  ASSUME TypeOK, NEW site \in Undone, Fails(site)
  PROVE  hist'.broken = hist.broken
<1>1. hist' = [hist EXCEPT !.faults = @ + 1, !.broken = hist.broken \/ site \notin Undone]
  BY DEF Fails
<1>2. hist'.broken = (hist.broken \/ site \notin Undone)
  BY <1>1 DEF TypeOK
<1> QED BY <1>2 DEF TypeOK

(* The monitor's return lets go of the answers; inside a reload or an      *)
(* update it keeps them.                                                   *)
LEMMA AnswersOf ==
  ASSUME TypeOK
  PROVE  /\ Return => Asked' = Service!Nothing
         /\ mon.at = "idle" /\ Holding => Asked = Service!Nothing
         /\ \A label \in Labels \ {"idle", "ready", "users"} :
              mon.at \notin {"idle", "ready", "users"} /\ Goto(label) => Asked' = Asked
         /\ \A label \in {"idle", "ready"} :
              mon.at \in {"idle", "ready"} /\ Goto(label) => Asked' = Asked
<1>1. Return => Asked' = Service!Nothing
  BY DEF Return, Asked, Service!Nothing
<1>2. mon.at = "idle" /\ Holding => Asked = Service!Nothing
  BY DEF Holding, Asked, Service!Nothing
<1>3. ASSUME NEW label \in Labels \ {"idle", "ready", "users"}, mon.at \notin {"idle", "ready", "users"}, Goto(label)
      PROVE  Asked' = Asked
  <2>1. mon'.at = label /\ mon'.newN = mon.newN /\ mon'.newU = mon.newU
    BY <1>3, WhereTo
  <2> QED BY <1>3, <2>1 DEF Asked
<1>4. ASSUME NEW label \in {"idle", "ready"}, mon.at \in {"idle", "ready"}, Goto(label)
      PROVE  Asked' = Asked
  <2>1. mon'.at = label /\ mon'.newN = mon.newN /\ mon'.newU = mon.newU
    BY <1>4, WhereTo DEF Labels
  <2> QED BY <1>4, <2>1 DEF Asked
<1> QED BY <1>1, <1>2, <1>3, <1>4

\* A step that leaves the books, the limiter and Close alone, and breaks the
\* service only by giving up the pull.
Quiet ==
  /\ UNCHANGED <<panel, ctl, limits, limiter, closer>>
  /\ hist'.stale = hist.stale /\ hist'.straggler = hist.straggler
  /\ hist.broken => hist'.broken
  /\ \/ Asked' = Asked /\ hist'.broken = hist.broken
     \/ Asked' = Service!Nothing

(* A quiet step is a stutter, an abandoned pull or a broken service.       *)
LEMMA QuietServes ==
  ASSUME TypeOK, TypeOK', ServesBooks, ServesBooks', Quiet
  PROVE  [Service!Next]_Service!vars
<1>1. UNCHANGED <<panel, limiter, Enforced>>
  BY DEF Quiet, Enforced
<1>2. CASE Books' = Books
  <2>1. UNCHANGED Served
    BY <1>2 DEF ServesBooks
  <2> QED BY <1>1, <2>1 DEF Quiet, Service!Next, Service!Abandon, Service!vars
<1>3. CASE Books' # Books
  <2>1. ~(closer = "closed" /\ ~hist.straggler) /\ ~hist.straggler /\ ~hist.broken /\ hist'.broken
    BY <1>3 DEF Books, Quiet, TypeOK, Service!Closed, Service!Broken
  <2>2. Served.status = "up" /\ Served' = Service!Broken
    BY <2>1 DEF Books, ServesBooks, Quiet, TypeOK, Service!Broken
  <2>3. Asked' = Service!Nothing
    BY <2>1 DEF Quiet
  <2> QED BY <1>1, <2>2, <2>3 DEF Service!Next, Service!Break
<1> QED BY <1>2, <1>3

(* The calls on the core before the books are written, and the rollback.   *)
LEMMA CallsAreQuiet ==
  ASSUME ControllerInv, Holding,
         Tick \/ DelUsers \/ AddUsers \/ ReloadDelNode \/ RollbackDelNode \/ RollbackAddNode \/ RollbackAddUsers
  PROVE  Quiet
<1>0. TypeOK
  BY DEF ControllerInv
<1>1. UNCHANGED <<panel, ctl, limits, limiter, closer>>
  BY DEF Tick, DelUsers, AddUsers, ReloadDelNode, RollbackDelNode, RollbackAddNode, RollbackAddUsers
<1>2. /\ hist'.stale = hist.stale /\ hist'.straggler = hist.straggler
      /\ hist.broken => hist'.broken
  <2>1. \/ UNCHANGED hist
        \/ \E site : Fails(site)
    BY DEF Tick, DelUsers, AddUsers, ReloadDelNode, RollbackDelNode, RollbackAddNode, RollbackAddUsers,
           DelUsersFailed, AddUsersFailed, DelNodeFailed, Works
  <2> QED BY <1>0, <2>1, FailsNotes DEF TypeOK
<1>3. UNCHANGED hist => hist'.broken = hist.broken
  OBVIOUS
<1>4. CASE Tick
  BY <1>0, <1>1, <1>2, <1>3, <1>4, AnswersOf DEF Quiet, Tick, At
<1>5. CASE DelUsers \/ AddUsers
  <2>1. \/ Return
        \/ UNCHANGED hist /\ Goto("addUsers") /\ mon.at = "delUsers"
        \/ UNCHANGED hist /\ Goto("updateUser") /\ mon.at = "addUsers"
    BY <1>5 DEF DelUsers, AddUsers, Works, At
  <2> QED BY <1>0, <1>1, <1>2, <1>3, <2>1, AnswersOf DEF Quiet, Labels
<1>6. CASE ReloadDelNode
  <2>1. \/ Return
        \/ UNCHANGED hist /\ Goto("reloadAddNode") /\ mon.at = "reload"
    BY <1>6 DEF ReloadDelNode, Works, At
  <2> QED BY <1>0, <1>1, <1>2, <1>3, <2>1, AnswersOf DEF Quiet, Labels
<1>7. CASE RollbackDelNode
  <2>1. mon.at = "delNew" /\ Goto("rollback") /\ (UNCHANGED hist \/ Fails("DelNode(new)"))
    BY <1>7 DEF RollbackDelNode, DelNodeFailed, Works, At
  <2>2. hist'.broken = hist.broken
    BY <1>0, <2>1, UndoneBreaksNothing DEF Undone
  <2> QED BY <1>0, <1>1, <1>2, <2>1, <2>2, AnswersOf DEF Quiet, Labels
<1>8. CASE RollbackAddNode \/ RollbackAddUsers
  <2>1. \/ Return
        \/ UNCHANGED hist /\ Goto("rollbackUsers") /\ mon.at = "rollback"
    BY <1>8 DEF RollbackAddNode, RollbackAddUsers, Works, At
  <2> QED BY <1>0, <1>1, <1>2, <1>3, <2>1, AnswersOf DEF Quiet, Labels
<1> QED BY <1>4, <1>5, <1>6, <1>7, <1>8

\* A step of the controller whose both states are as the invariant says.
Between ==
  /\ ControllerInv /\ ControllerInv' /\ Holding
  /\ ServesBooks /\ ServesBooks'

(* GetNodeInfo asks for the configuration or fails; the monitor of a       *)
(* closed controller would be idle.                                        *)
LEMMA GetNodeInfoServes ==
  ASSUME Between, GetNodeInfo
  PROVE  [Service!Next]_Service!vars
<1>0. TypeOK /\ TypeOK' /\ ServesBooks /\ ServesBooks' /\ mon.at = "ready"
  BY DEF Between, ControllerInv, GetNodeInfo, At
<1>1. UNCHANGED <<panel, ctl, limits, limiter, core, closer>>
  BY DEF GetNodeInfo
<1>2. /\ hist'.stale = hist.stale /\ hist'.straggler = hist.straggler /\ hist'.broken = hist.broken
  <2>1. UNCHANGED hist \/ Fails("GetNodeInfo")
    BY DEF GetNodeInfo, Works
  <2> QED BY <1>0, <2>1, FailsNotes, UndoneBreaksNothing DEF Undone
<1>3. CASE Return
  <2>1. Quiet
    BY <1>0, <1>1, <1>2, <1>3, AnswersOf DEF Quiet
  <2> QED BY <1>0, <2>1, QuietServes
<1>4. ASSUME NEW c \in {panel.cfg, NoConfig}, mon' = [at |-> "users", newN |-> c, newU |-> NoUsers]
      PROVE  Service!AskConfig
  <2>1. Asked.step = "none" /\ Asked' = [step |-> "users", cfg |-> c, users |-> NoUsers]
    BY <1>0, <1>4 DEF Asked
  <2>2. ~(closer = "closed" /\ ~hist.straggler)
    BY <1>0 DEF Between, ControllerInv, Closing
  <2>3. Served.status # "closed" /\ UNCHANGED Served
    BY <1>0, <1>1, <1>2, <2>2 DEF ServesBooks, Books, Service!Broken
  <2> QED BY <1>1, <1>2, <2>1, <2>3 DEF Service!AskConfig, Enforced
<1>5. Return \/ \E c \in {panel.cfg, NoConfig} : mon' = [at |-> "users", newN |-> c, newU |-> NoUsers]
  BY DEF GetNodeInfo
<1> QED BY <1>3, <1>4, <1>5 DEF Service!Next

(* GetUserList asks for the users, fails or finds nothing to do.           *)
LEMMA GetUserListServes ==
  ASSUME Between, GetUserList
  PROVE  [Service!Next]_Service!vars
<1>0. TypeOK /\ TypeOK' /\ ServesBooks /\ ServesBooks' /\ mon.at = "users"
  BY DEF Between, ControllerInv, GetUserList, At
<1>1. UNCHANGED <<panel, ctl, limits, limiter, core, closer>>
  BY DEF GetUserList
<1>2. /\ hist'.stale = hist.stale /\ hist'.straggler = hist.straggler /\ hist'.broken = hist.broken
  <2>1. UNCHANGED hist \/ Fails("GetUserList")
    BY DEF GetUserList, Works
  <2> QED BY <1>0, <2>1, FailsNotes, UndoneBreaksNothing DEF Undone
<1>3. CASE Return
  <2>1. Quiet
    BY <1>0, <1>1, <1>2, <1>3, AnswersOf DEF Quiet
  <2> QED BY <1>0, <2>1, QuietServes
<1>4. ASSUME NEW l \in {panel.users, NoUsers}, NEW label \in {"reload", "delUsers"},
             mon' = [mon EXCEPT !.at = label, !.newU = l]
      PROVE  Service!AskUsers
  <2>1. mon'.at = label /\ mon'.newN = mon.newN /\ mon'.newU = l
    BY <1>0, <1>4 DEF TypeOK
  <2>2. /\ Asked.step = "users" /\ Asked.cfg = mon.newN
        /\ Asked' = [step |-> "both", cfg |-> mon.newN, users |-> l]
    BY <1>0, <2>1 DEF Asked
  <2>3. UNCHANGED Served
    BY <1>0, <1>1, <1>2 DEF ServesBooks, Books
  <2> QED BY <1>1, <1>2, <2>2, <2>3 DEF Service!AskUsers, Enforced
<1>5. Return \/ \E l \in {panel.users, NoUsers} : Dispatch(l)
  BY DEF GetUserList
<1>6. \/ Return
      \/ \E l \in {panel.users, NoUsers}, label \in {"reload", "delUsers"} :
           mon' = [mon EXCEPT !.at = label, !.newU = l]
  BY <1>5 DEF Dispatch
<1> QED BY <1>3, <1>4, <1>6 DEF Service!Next

(* The incremental update takes on the users that were asked for.  What    *)
(* UpdateUser makes of the limits is the new list, if they were the old.   *)
LEMMA UpdateUserServes ==
  ASSUME Between, UpdateUser
  PROVE  Service!AdoptUsers
<1>0. TypeOK /\ TypeOK' /\ ServesBooks /\ ServesBooks' /\ mon.at = "updateUser"
  BY DEF Between, ControllerInv, UpdateUser, At
<1>1. /\ UNCHANGED <<panel, limiter, core, closer, hist>> /\ Return
      /\ ctl'.info = ctl.info /\ ctl'.userList = mon.newU
  BY <1>0 DEF UpdateUser, TypeOK
<1>2. /\ Asked = [step |-> "both", cfg |-> NoConfig, users |-> mon.newU] /\ mon.newU # NoUsers
      /\ Asked' = Service!Nothing
  BY <1>0, <1>1, AnswersOf DEF Asked, Between, Holding, Updating
<1>3. Served' = IF Served.status = "up"
                THEN [status |-> "up", cfg |-> Served.cfg, users |-> DOMAIN mon.newU] ELSE Served
  BY <1>0, <1>1 DEF ServesBooks, Books, Service!Closed, Service!Broken
<1>4. ~hist.stale => limits' = mon.newU
  <2>1. ~hist.stale => limits = ctl.userList
    BY DEF Between, ControllerInv
  <2>2. ctl.userList \in UserLists /\ mon.newU \in UserLists
    BY <1>0 DEF TypeOK
  <2> QED BY <2>1, <2>2, UpdatedList DEF UpdateUser
<1>5. Enforced' = IF Enforced.known THEN Service!Known(mon.newU) ELSE Service!Unknown
  BY <1>1, <1>4 DEF Enforced, Service!Known, Service!Unknown
<1> QED BY <1>1, <1>2, <1>3, <1>5 DEF Service!AdoptUsers, Service!Serve

(* The bookkeeping of a reload takes on both answers of the pull.          *)
LEMMA CommitServes ==
  ASSUME Between, Reloading, Commit, mon.at \notin {"reload", "delNew"}, UNCHANGED <<panel, limits, limiter, closer>>
  PROVE  Service!AdoptConfig
<1>0. TypeOK /\ TypeOK' /\ ServesBooks /\ ServesBooks' /\ mon.newN # NoConfig
  BY DEF Between, ControllerInv
<1>1. Return /\ ctl' = [info |-> mon.newN, userList |-> mon.newU]
  BY DEF Commit
<1>2. hist'.stale = (hist.stale \/ mon.newU # ctl.userList)
      /\ hist'.broken = hist.broken /\ hist'.straggler = hist.straggler
  <2> DEFINE s == hist.stale \/ mon.newU # ctl.userList
  <2>1. hist' = [hist EXCEPT !.stale = s]
    BY DEF Commit
  <2> HIDE DEF s
  <2>2. hist'.stale = s /\ hist'.broken = hist.broken /\ hist'.straggler = hist.straggler
    BY <1>0, <2>1 DEF TypeOK
  <2> QED BY <2>2 DEF s
<1>3. /\ Asked = [step |-> "both", cfg |-> mon.newN, users |-> mon.newU]
      /\ Asked' = Service!Nothing
  BY <1>0, <1>1, AnswersOf DEF Asked, Reloading
<1>4. Served' = IF Served.status = "up"
                THEN [status |-> "up", cfg |-> mon.newN, users |-> DOMAIN mon.newU] ELSE Served
  BY <1>0, <1>1, <1>2 DEF ServesBooks, Books, Service!Closed, Service!Broken
<1>5. Enforced' = IF Enforced = Service!Known(mon.newU) THEN Enforced ELSE Service!Unknown
  <2>1. CASE hist.stale
    <3>1. hist'.stale = TRUE
      BY <1>2, <2>1
    <3>2. Enforced = Service!Unknown /\ Enforced' = Service!Unknown
      BY <2>1, <3>1 DEF Enforced, Service!Unknown
    <3> QED BY <3>2
  <2>2. CASE ~hist.stale
    <3>1. limits = ctl.userList /\ Enforced = Service!Known(ctl.userList)
      BY <2>2 DEF Between, ControllerInv, Enforced, Service!Known
    <3>2. CASE mon.newU = ctl.userList
      <4>1. ~hist'.stale
        BY <1>2, <2>2, <3>2
      <4> QED BY <2>2, <3>1, <3>2, <4>1 DEF Enforced, Service!Known
    <3>3. CASE mon.newU # ctl.userList
      <4>1. hist'.stale = TRUE
        BY <1>2, <3>3
      <4>2. Enforced' = Service!Unknown /\ Enforced # Service!Known(mon.newU)
        BY <3>1, <3>3, <4>1 DEF Enforced, Service!Known, Service!Unknown
      <4> QED BY <4>2
    <3> QED BY <3>2, <3>3
  <2> QED BY <2>1, <2>2
<1> QED BY <1>0, <1>3, <1>4, <1>5 DEF Service!AdoptConfig, Service!Serve

(* The new inbound and its users, which commit, go on or are rolled back.  *)
LEMMA ReloadServes ==
  ASSUME Between, ReloadAddNode \/ ReloadAddUsers
  PROVE  [Service!Next]_Service!vars
<1>0. TypeOK /\ TypeOK' /\ ServesBooks /\ ServesBooks'
  BY DEF Between, ControllerInv
<1>1. mon.at \in {"reloadAddNode", "reloadAddUsers"} /\ UNCHANGED <<panel, limits, limiter, closer>>
  BY DEF ReloadAddNode, ReloadAddUsers, At
<1>2. CASE Commit
  BY <1>1, <1>2, CommitServes DEF Service!Next, Reloading
<1>3. ASSUME UNCHANGED ctl, NEW label \in {"reloadAddUsers", "rollback", "delNew"}, Goto(label),
             UNCHANGED hist \/ Fails("AddNode(new)") \/ Fails("AddUsers(new)")
      PROVE  [Service!Next]_Service!vars
  <2>1. hist'.broken = hist.broken /\ hist'.stale = hist.stale /\ hist'.straggler = hist.straggler
    BY <1>0, <1>3, FailsNotes, UndoneBreaksNothing DEF Undone
  <2>2. Asked' = Asked
    BY <1>0, <1>1, <1>3, AnswersOf DEF Labels
  <2>3. Quiet
    BY <1>1, <1>3, <2>1, <2>2 DEF Quiet
  <2> QED BY <1>0, <2>3, QuietServes
<1>4. \/ Commit
      \/ /\ UNCHANGED ctl
         /\ Goto("reloadAddUsers") \/ Goto("rollback") \/ Goto("delNew")
         /\ UNCHANGED hist \/ Fails("AddNode(new)") \/ Fails("AddUsers(new)")
  BY DEF ReloadAddNode, ReloadAddUsers, AddUsersFailed, Works
<1> QED BY <1>2, <1>3, <1>4

(* The panel answers with lists it may have.                               *)
PanelMayHave == panel.cfg \in Configs /\ panel.users \in PanelLists

LEMMA StepMayHave ==
  ASSUME TypeOK, PanelMayHave, [Next]_vars PROVE PanelMayHave'
BY DEF PanelMayHave, TypeOK, Next, vars, nodeInfoMonitor, PanelConfigChange, PanelUsersChange, Tick,
       GetNodeInfo, GetUserList, DelUsers, AddUsers, UpdateUser, ReloadDelNode, ReloadAddNode, ReloadAddUsers,
       RollbackDelNode, RollbackAddNode, RollbackAddUsers, DeleteLimiter, CloseTasks, CloseDelNode

(* A change at the panel is one of the abstract panel.                     *)
LEMMA PanelServes ==
  ASSUME Between, PanelMayHave, PanelConfigChange \/ PanelUsersChange
  PROVE  Service!PanelChange
<1>0. TypeOK /\ ServesBooks /\ ServesBooks'
  BY DEF Between, ControllerInv
<1>1. /\ UNCHANGED <<ctl, limits, limiter, core, mon, closer>>
      /\ hist'.broken = hist.broken /\ hist'.stale = hist.stale /\ hist'.straggler = hist.straggler
  BY <1>0 DEF PanelConfigChange, PanelUsersChange, TypeOK
<1>2. \E c \in Configs, l \in PanelLists : panel' = [cfg |-> c, users |-> l]
  BY <1>0 DEF PanelConfigChange, PanelUsersChange, PanelMayHave, TypeOK
<1>3. UNCHANGED <<Asked, Served, Enforced>>
  BY <1>0, <1>1 DEF Asked, ServesBooks, Books, Enforced
<1> QED BY <1>1, <1>2, <1>3 DEF Service!PanelChange

(* Close: nobody is let in any more; the tasks stop, or a goroutine has    *)
(* slipped past and takes the service with it; then the node goes.         *)
LEMMA CloseServes ==
  ASSUME Between, DeleteLimiter \/ CloseTasks \/ CloseDelNode
  PROVE  [Service!Next]_Service!vars
<1>0. TypeOK /\ TypeOK' /\ ServesBooks /\ ServesBooks'
  BY DEF Between, ControllerInv
<1>1. CASE DeleteLimiter
  <2>1. closer = "up" /\ closer' = "stopping" /\ limiter' = FALSE /\ UNCHANGED <<panel, ctl, limits, core, mon, hist>>
    BY <1>1 DEF DeleteLimiter
  <2>2. UNCHANGED <<Asked, Served, Enforced>>
    BY <1>0, <2>1 DEF Asked, ServesBooks, Books, Enforced
  <2>3. CASE limiter
    BY <2>1, <2>2, <2>3 DEF Service!Next, Service!Stop
  <2>4. CASE ~limiter
    BY <1>0, <2>1, <2>2, <2>4 DEF Service!vars, TypeOK
  <2> QED BY <2>3, <2>4
<1>2. CASE CloseTasks
  <2> DEFINE s == mon.at = "ready"
  <2>1. /\ closer = "stopping" /\ closer' = "stopped" /\ UNCHANGED <<panel, ctl, limits, limiter, core, mon>>
        /\ hist' = [hist EXCEPT !.straggler = s]
    BY <1>2 DEF CloseTasks, At
  <2> HIDE DEF s
  <2>2. hist'.straggler = s /\ hist'.broken = hist.broken /\ hist'.stale = hist.stale /\ ~hist.straggler
    BY <1>0, <2>1 DEF TypeOK, Between, ControllerInv, Closing
  <2>3. UNCHANGED <<panel, limiter, Asked, Enforced>>
    BY <2>1, <2>2 DEF Asked, Enforced
  <2>4. CASE ~s \/ hist.broken
    <3>1. UNCHANGED Served
      BY <1>0, <2>1, <2>2, <2>4 DEF ServesBooks, Books
    <3> QED BY <2>3, <3>1 DEF Service!vars
  <2>5. CASE s /\ ~hist.broken
    <3>1. Served.status = "up" /\ Served' = Service!Broken
      BY <1>0, <2>1, <2>2, <2>5 DEF ServesBooks, Books
    <3>2. mon.at = "ready"
      BY <2>5 DEF s
    <3>3. Asked = Service!Nothing
      BY <3>2 DEF Between, Holding, Asked, Service!Nothing
    <3> QED BY <2>3, <3>1, <3>3 DEF Service!Next, Service!Break
  <2> QED BY <2>4, <2>5
<1>3. CASE CloseDelNode
  <2>1. closer = "stopped" /\ closer' = "closed" /\ UNCHANGED <<panel, ctl, limits, limiter, mon>>
    BY <1>3 DEF CloseDelNode
  <2>2. hist'.straggler = hist.straggler /\ hist'.stale = hist.stale
    <3>1. UNCHANGED hist \/ Fails("Close")
      BY <1>3 DEF CloseDelNode, DelNodeFailed, Works
    <3> QED BY <1>0, <3>1, FailsNotes
  <2>3. UNCHANGED <<panel, limiter, Asked, Enforced>>
    BY <2>1, <2>2 DEF Asked, Enforced
  <2>4. CASE hist.straggler
    <3>1. UNCHANGED Served
      BY <1>0, <2>1, <2>2, <2>4 DEF ServesBooks, Books
    <3> QED BY <2>3, <3>1 DEF Service!vars
  <2>5. CASE ~hist.straggler
    <3>1. ~limiter /\ mon.at = "idle"
      BY <2>1, <2>5 DEF Between, ControllerInv, Closing
    <3>2. Asked = Service!Nothing
      BY <1>0, <3>1, AnswersOf DEF Between
    <3>3. Served' = Service!Closed
      BY <1>0, <2>1, <2>2, <2>5 DEF ServesBooks, Books
    <3> QED BY <2>3, <3>1, <3>2, <3>3 DEF Service!Next, Service!End
  <2> QED BY <2>4, <2>5
<1> QED BY <1>1, <1>2, <1>3

(* What Start has brought up is a service.                                 *)
LEMMA InitServes == Init => Service!Init /\ Holding /\ PanelMayHave
<1> SUFFICES ASSUME Init PROVE Service!Init /\ Holding /\ PanelMayHave
  OBVIOUS
<1>1. PICK c \in Configs \ (Unparsable \cup Invalid), l \in PanelLists :
        /\ panel = [cfg |-> c, users |-> l]
        /\ ctl = [info |-> c, userList |-> l]
        /\ limits = l
        /\ limiter = TRUE
        /\ core = [entry |-> TRUE, inbound |-> c, users |-> DOMAIN l]
        /\ mon = [at |-> "idle", newN |-> NoConfig, newU |-> NoUsers]
        /\ closer = "up"
        /\ hist = [faults |-> 0, cfgs |-> 0, users |-> 0, broken |-> FALSE, stale |-> FALSE,
                   straggler |-> FALSE]
  BY DEF Init
<1>2. Asked = Service!Nothing
  BY <1>1 DEF Asked, Service!Nothing
<1>3. Served = [status |-> "up", cfg |-> c, users |-> DOMAIN l]
  BY <1>1 DEF Served, Executing
<1>4. Enforced = Service!Known(l)
  BY <1>1 DEF Enforced, Service!Known
<1>5. Service!Init
  BY <1>1, <1>2, <1>3, <1>4 DEF Service!Init
<1>6. Holding /\ PanelMayHave
  BY <1>1 DEF Holding, Updating, PanelMayHave
<1> QED BY <1>5, <1>6

(* Every step of the controller is one of the service, or a stutter.       *)
LEMMA StepServes ==
  ASSUME Between, PanelMayHave, [Next]_vars
  PROVE  [Service!Next]_Service!vars
<1>0. /\ ControllerInv /\ TypeOK /\ TypeOK' /\ Holding
      /\ ServesBooks /\ ServesBooks'
  BY DEF Between, ControllerInv
<1>1. CASE PanelConfigChange \/ PanelUsersChange
  BY <1>1, PanelServes DEF Service!Next
<1>2. CASE Tick \/ DelUsers \/ AddUsers \/ ReloadDelNode \/ RollbackDelNode \/ RollbackAddNode \/ RollbackAddUsers
  BY <1>0, <1>2, CallsAreQuiet, QuietServes
<1>3. CASE GetNodeInfo \/ GetUserList
  BY <1>3, GetNodeInfoServes, GetUserListServes
<1>4. CASE UpdateUser
  BY <1>4, UpdateUserServes DEF Service!Next
<1>5. CASE ReloadAddNode \/ ReloadAddUsers
  BY <1>5, ReloadServes
<1>6. CASE DeleteLimiter \/ CloseTasks \/ CloseDelNode
  BY <1>6, CloseServes
<1>7. CASE UNCHANGED vars
  BY <1>7 DEF vars, Service!vars, Asked, Served, Enforced, Executing
<1> QED BY <1>1, <1>2, <1>3, <1>4, <1>5, <1>6, <1>7 DEF Next, nodeInfoMonitor

(* The controller implements NodeService: whatever fails, and whatever the *)
(* panel does meanwhile, a pull is taken on as a whole or not at all, the  *)
(* limiter keeps to the users of an update, and a service that was broken  *)
(* is closed and nothing else.                                             *)
THEOREM ControllerKeepsPromise == Spec => KeepsPromise
<1>1. Init => Service!Init /\ Holding /\ PanelMayHave
  BY InitServes
<1>2. ControllerInv => ServesBooks /\ TypeOK
  BY ServedIsBooks DEF ControllerInv
<1>3. ControllerInv /\ Holding /\ [Next]_vars => Holding'
  BY StepHolds
<1>4. TypeOK /\ PanelMayHave /\ [Next]_vars => PanelMayHave'
  BY StepMayHave
<1>5. /\ ControllerInv /\ ControllerInv' /\ Holding /\ ServesBooks /\ ServesBooks'
      /\ PanelMayHave /\ [Next]_vars
      => [Service!Next]_Service!vars
  BY StepServes DEF Between
<1> QED BY <1>1, <1>2, <1>3, <1>4, <1>5, ControllerStaysInStep, PTL DEF Spec, KeepsPromise, Service!Spec

=============================================================================

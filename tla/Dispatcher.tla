------------------------------ MODULE Dispatcher ------------------------------
(***************************************************************************)
(* The connections of the users (core/xray/app/dispatcher/default.go,      *)
(* linkmanager.go, core/sing/hook.go) beside the monitor that removes and  *)
(* adds users (Xray.DelUsers, Sing.DelUsers, Limiter.UpdateUser).          *)
(*                                                                         *)
(* A connection enters by Dispatch ("pipe"), by DispatchLink ("link") or,  *)
(* in the sing core, by RoutedConnection ("hook").  It is admitted by      *)
(* CheckLimit, which counts it, and finds or makes the LinkManager of its  *)
(* user in two operations on a sync.Map.  Removing a user closes what its  *)
(* LinkManager knows, walking the map of links without the mutex.          *)
(*                                                                         *)
(* A LinkManager is named after the connection that made it.  CheckLimit   *)
(* is one step here (ConnLimiter and Limiter have its interleavings); the  *)
(* counters, looked up in the same two steps, are TrafficReport's.         *)
(* Sniffing only delays a connection on its way to a handler.              *)
(***************************************************************************)
EXTENDS Naturals, FiniteSets

CONSTANTS
  XrayUsers, SingUsers,  \* the users of a node of either core
  Conns,                 \* the connections of a behaviour
  ConnLimit,             \* ConnLimiter.connLimit
  Realtime,              \* ConnLimiter.realtime
  MaxChanges             \* bound: removals and additions of users

Users == XrayUsers \cup SingUsers
None == "none"

ASSUME ConnsOK == IsFiniteSet(Conns) /\ None \notin Conns /\ Realtime \in BOOLEAN

VARIABLES
  inCore,     \* the users of the inbound
  inLimiter,  \* the users in Limiter.UserLimitInfo
  registered, \* is the node's limiter registered?
  manager,    \* LinkManagers: user -> LinkManager
  links,      \* LinkManager.links
  cn,         \* the connections: [at, user, via, lm, counted, released, raced];
              \* raced is history
  slots,      \* ConnLimiter.count
  upd,        \* the monitor's update: [at, user, lm, todo]
  alive,      \* FALSE when the Go runtime ended the process
  hist        \* history: [lost, changes]

vars == <<inCore, inLimiter, registered, manager, links, cn, slots, upd, alive, hist>>
users == <<inCore, inLimiter, registered, upd>>

New == [at |-> "new", user |-> None, via |-> None, lm |-> None,
        counted |-> FALSE, released |-> FALSE, raced |-> FALSE]
NoUpdate == [at |-> "idle", user |-> None, lm |-> None, todo |-> {}]

At(c, label) == cn[c].at = label
Goto(c, label) == cn' = [cn EXCEPT ![c].at = label]
Closed == [New EXCEPT !.at = "closed"]
Refuse(c) == cn' = [cn EXCEPT ![c] = Closed]
Entering == {"check", "load", "store", "link"}   \* in getLink, DispatchLink
Held == {"route", "open", "dead"}                \* has a writer not yet closed

-----------------------------------------------------------------------------
(* A connection is admitted.                                               *)

Vias(u) == IF u \in SingUsers THEN {"hook"} ELSE {"pipe", "link"}

\* The inbound has authenticated the user.
Dial(c, u, via) ==
  /\ At(c, "new") /\ u \in inCore /\ via \in Vias(u)
  /\ cn' = [cn EXCEPT ![c] = [New EXCEPT !.at = "check", !.user = u, !.via = via]]
  /\ UNCHANGED <<users, manager, links, slots, alive, hist>>

\* The limiter of the node is not there: the dispatcher refuses, the hook of
\* the sing core returns the connection as it is.
GetLimiter(c) ==
  /\ At(c, "check") /\ ~registered
  /\ IF cn[c].via = "hook" THEN Goto(c, "open") ELSE Refuse(c)
  /\ UNCHANGED <<users, manager, links, slots, alive, hist>>

\* CheckLimit: AddConnCount counts a TCP connection, then the user may be
\* unknown or have too many devices.  Nobody takes such a count back.
CheckLimit(c, isTcp) ==
  LET u == cn[c].user
      counts == isTcp /\ ConnLimit # 0 IN
  /\ At(c, "check") /\ registered
  /\ IF ConnLimit # 0 /\ slots[u] >= ConnLimit
     THEN Refuse(c) /\ UNCHANGED <<slots, hist>>
     ELSE /\ slots' = IF counts THEN [slots EXCEPT ![u] = @ + 1] ELSE slots
          /\ \/ /\ u \in inLimiter
                /\ cn' = [cn EXCEPT ![c].at = IF cn[c].via = "hook" THEN "open" ELSE "load",
                                    ![c].counted = counts]
                /\ UNCHANGED hist
             \/ /\ Refuse(c)
                /\ hist' = IF counts THEN [hist EXCEPT !.lost[u] = @ + 1] ELSE hist
  /\ UNCHANGED <<users, manager, links, alive>>

LoadManager(c) ==
  LET m == manager[cn[c].user] IN
  /\ At(c, "load")
  /\ cn' = [cn EXCEPT ![c].lm = m, ![c].at = IF m = None THEN "store" ELSE "link"]
  /\ UNCHANGED <<users, manager, links, slots, alive, hist>>

\* A manager somebody stored meanwhile is replaced, and the links it has or
\* is about to have are out of DelUsers' reach.
StoreManager(c) ==
  LET u == cn[c].user IN
  /\ At(c, "store")
  /\ manager' = [manager EXCEPT ![u] = c]
  /\ cn' = [o \in Conns |->
              IF o = c THEN [cn[c] EXCEPT !.lm = c, !.at = "link"]
              ELSE [cn[o] EXCEPT !.raced = @ \/ (manager[u] # None /\ cn[o].lm = manager[u])]]
  /\ UNCHANGED <<users, links, slots, alive, hist>>

\* CloseAll is walking the links of the manager.
Walked(m) == upd.at = "closeAll" /\ upd.lm = m

\* Only getLink adds its link to the manager.  A walk underway may come to a
\* link added behind its back or not.
AddLink(c) ==
  LET m == cn[c].lm IN
  /\ At(c, "link")
  /\ Goto(c, "route")
  /\ links' = IF cn[c].via = "pipe" THEN [links EXCEPT ![m] = @ \cup {c}] ELSE links
  /\ \/ UNCHANGED upd
     \/ Walked(m) /\ cn[c].via = "pipe" /\ upd' = [upd EXCEPT !.todo = @ \cup {c}]
  /\ UNCHANGED <<inCore, inLimiter, registered, manager, slots, alive, hist>>

\* There is a handler for the connection, or its writer is closed and its
\* reader interrupted; in DispatchLink that writer is the managed one.
routedDispatch(c) ==
  /\ At(c, "route")
  /\ \/ Goto(c, "open")
     \/ cn[c].via = "pipe" /\ Goto(c, "dead")
  /\ UNCHANGED <<users, manager, links, slots, alive, hist>>

-----------------------------------------------------------------------------
(* A connection ends.                                                      *)

\* The hook that takes the count back is installed for TCP in realtime mode.
Hooked(c) == cn[c].counted /\ Realtime

\* Faulty variant, for the mutation runs only: without the sync.Once.
ReleasesAgain(c) == Hooked(c)
Releases(c) == Hooked(c) /\ ~cn[c].released

\* Faulty variant: the manager keeps the writer.
LinkKept(c) == links
Unlinked(c) == IF cn[c].lm = None THEN links ELSE [links EXCEPT ![cn[c].lm] = @ \ {c}]

\* ManagedWriter.Close and releaseConn.Close.  DelConnCount stops at zero.
CloseWriter(c, label) ==
  LET u == cn[c].user IN
  /\ links' = Unlinked(c)
  /\ slots' = IF Releases(c) /\ slots[u] > 0 THEN [slots EXCEPT ![u] = @ - 1] ELSE slots
  /\ cn' = [cn EXCEPT ![c] = IF label = "closed" THEN Closed
                             ELSE [@ EXCEPT !.at = label, !.released = Hooked(c)]]

\* The inbound closes, and outside getLink another side may have done so.
Close(c) ==
  /\ \/ cn[c].at \in Held \cup {"cut"} /\ CloseWriter(c, "closed")
     \/ cn[c].at \in Held /\ cn[c].via # "pipe" /\ CloseWriter(c, "cut")
  /\ UNCHANGED <<users, manager, alive, hist>>

\* "concurrent map iteration and map write": the runtime may notice that
\* AddLink or RemoveWriter meets a walk, and ends the process.
Fatal(c) ==
  /\ cn[c].lm # None /\ Walked(cn[c].lm)
  /\ cn[c].at \in Held \cup {"link", "cut"}
  /\ cn[c].via = "link" => cn[c].at # "link"
  /\ alive' = FALSE
  /\ UNCHANGED <<users, manager, links, cn, slots, hist>>

-----------------------------------------------------------------------------
(* The monitor's incremental update, and Controller.Close.                 *)

\* An update begins.  (Those of a node being closed are left out.)
Change == upd.at = "idle" /\ registered /\ hist.changes < MaxChanges

\* The inbound forgets the user.  Connections on their way are noted.
DelUsers(u) ==
  /\ Change /\ u \in inCore
  /\ inCore' = inCore \ {u}
  /\ upd' = [NoUpdate EXCEPT !.at = IF u \in SingUsers THEN "limiter" ELSE "links", !.user = u]
  /\ cn' = [c \in Conns |-> [cn[c] EXCEPT !.raced = @ \/ (cn[c].user = u /\ cn[c].at \in Entering)]]
  /\ hist' = [hist EXCEPT !.changes = @ + 1]
  /\ UNCHANGED <<inLimiter, registered, manager, links, slots, alive>>

\* Faulty variant: the manager is deleted before its links are closed.
DelLinksSwapped ==
  /\ upd.at = "links"
  /\ upd' = [upd EXCEPT !.at = "limiter"]
  /\ manager' = [manager EXCEPT ![upd.user] = None]
  /\ UNCHANGED <<inCore, inLimiter, registered, links, cn, slots, alive, hist>>

DelLinks ==
  LET m == manager[upd.user] IN
  /\ upd.at = "links"
  /\ upd' = IF m = None THEN [upd EXCEPT !.at = "limiter"]
            ELSE [upd EXCEPT !.at = "closeAll", !.lm = m, !.todo = links[m]]
  /\ UNCHANGED <<inCore, inLimiter, registered, manager, links, cn, slots, alive, hist>>

\* One link of the walk: a link removed before the walk gets there is not met.
CloseAll(c) ==
  /\ upd.at = "closeAll" /\ c \in upd.todo \cap links[upd.lm]
  /\ CloseWriter(c, "cut")
  /\ upd' = [upd EXCEPT !.todo = @ \ {c}]
  /\ UNCHANGED <<inCore, inLimiter, registered, manager, alive, hist>>

DelManager ==
  /\ upd.at = "closeAll" /\ upd.todo \cap links[upd.lm] = {}
  /\ manager' = [manager EXCEPT ![upd.user] = None]
  /\ upd' = [upd EXCEPT !.at = "limiter", !.lm = None, !.todo = {}]
  /\ UNCHANGED <<inCore, inLimiter, registered, links, cn, slots, alive, hist>>

AddUsers(u) ==
  /\ Change /\ u \notin inCore
  /\ inCore' = inCore \cup {u}
  /\ upd' = [NoUpdate EXCEPT !.at = "limiter", !.user = u]
  /\ hist' = [hist EXCEPT !.changes = @ + 1]
  /\ UNCHANGED <<inLimiter, registered, manager, links, cn, slots, alive>>

\* Limiter.UpdateUser follows the core; ConnLimiter is not told.
UpdateUser ==
  /\ upd.at = "limiter"
  /\ inLimiter' = IF upd.user \in inCore THEN inLimiter \cup {upd.user} ELSE inLimiter \ {upd.user}
  /\ upd' = NoUpdate
  /\ UNCHANGED <<inCore, registered, manager, links, cn, slots, alive, hist>>

\* Controller.Close begins, beside connections on their way.  (Between two
\* updates: one underway would go on, on a limiter nobody finds.)
DeleteLimiter ==
  /\ registered /\ upd.at = "idle"
  /\ registered' = FALSE /\ inLimiter' = {}
  /\ UNCHANGED <<inCore, upd, manager, links, cn, slots, alive, hist>>

-----------------------------------------------------------------------------
Init ==
  /\ inCore = Users /\ inLimiter = Users /\ registered = TRUE /\ alive = TRUE
  /\ manager = [u \in Users |-> None]
  /\ links = [c \in Conns |-> {}]
  /\ cn = [c \in Conns |-> New]
  /\ slots = [u \in Users |-> 0]
  /\ upd = NoUpdate
  /\ hist = [lost |-> [u \in Users |-> 0], changes |-> 0]

\* Dispatch, DispatchLink, RoutedConnection and RoutedPacketConnection.
Connection(c) ==
  \/ \E u \in Users, via \in {"pipe", "link", "hook"} : Dial(c, u, via)
  \/ GetLimiter(c) \/ (\E isTcp \in BOOLEAN : CheckLimit(c, isTcp)) \/ LoadManager(c) \/ StoreManager(c) \/ AddLink(c)
  \/ routedDispatch(c) \/ Close(c) \/ Fatal(c)

Monitor ==
  \/ \E u \in Users : DelUsers(u) \/ AddUsers(u)
  \/ DelLinks \/ (\E c \in Conns : CloseAll(c)) \/ DelManager
  \/ UpdateUser \/ DeleteLimiter

Next == alive /\ ((\E c \in Conns : Connection(c)) \/ Monitor)

Spec == Init /\ [][Next]_vars

-----------------------------------------------------------------------------
(* Properties.                                                             *)

ConnStates ==
  [at : Entering \cup Held \cup {"new", "cut", "closed"},
   user : Users \cup {None}, via : {None, "pipe", "link", "hook"},
   lm : Conns \cup {None}, counted : BOOLEAN, released : BOOLEAN, raced : BOOLEAN]

\* The types; a manager has links of its own connections only, all of them
\* still to be closed, so no closed connection is kept in memory by it
\* (RemoveWriter comes with every close, linkmanager.go:25).
TypeOK ==
  /\ inCore \subseteq Users /\ inLimiter \subseteq Users /\ {registered, alive} \subseteq BOOLEAN
  /\ manager \in [Users -> Conns \cup {None}]
  /\ cn \in [Conns -> ConnStates] /\ links \in [Conns -> SUBSET Conns]
  /\ \A m \in Conns : links[m] \subseteq { c \in Conns : cn[c].lm = m /\ cn[c].at \in Held }
  /\ slots \in [Users -> Nat] /\ hist \in [lost : [Users -> Nat], changes : Nat]
  /\ upd \in [at : {"idle", "links", "closeAll", "limiter"}, user : Users \cup {None},
              lm : Conns \cup {None}, todo : SUBSET Conns]
  /\ upd.at = "closeAll" => manager[upd.user] # None

\* When DelUsers has returned (core/xray/user.go:51-54), no connection of the
\* removed user goes on: each was in the user's LinkManager and was closed.
\* (Short of connections that were inside getLink while the user was removed
\* or whose manager was replaced by a concurrent first connection; those of
\* DispatchLink and of the sing core are never cut.)
CutOff ==
  \A u \in XrayUsers : u \notin inCore /\ upd.user # u =>
    \A c \in Conns :
      cn[c].user = u /\ cn[c].via = "pipe" /\ ~cn[c].raced => cn[c].at \notin {"route", "open"}

\* "release the ConnLimiter slots that AddConnCount claimed" (default.go:209),
\* "exactly once" (linkmanager.go:13): a user's count is the number of its
\* admitted TCP connections not yet closed, over removals and returns of the
\* user and closes by both sides - and those CheckLimit counted and refused.
Holding(u) ==
  { c \in Conns : cn[c].user = u /\ cn[c].counted /\ cn[c].at \notin {"cut", "closed"} }
SlotsExact ==
  \A u \in Users : slots[u] = Cardinality(Holding(u)) + hist.lost[u]

=============================================================================

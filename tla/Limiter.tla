------------------------------ MODULE Limiter -------------------------------
(***************************************************************************)
(* The per-user state of one Limiter (limiter/limiter.go, old_online.go,   *)
(* alive.go, clear.go, dynamic.go) without its ConnLimiter: the rest of    *)
(* CheckLimit on the data path, against UpdateUser and AliveList.Replace   *)
(* of the monitor, GetOnlineDevice of the report task, UpdateDynamicSpeed- *)
(* Limit of the speed checker and the sweep of the old online devices.     *)
(*                                                                         *)
(* CheckLimit reads UserLimitInfo, decides about the device, one step for  *)
(* each operation on a shared map, and picks the speed bucket; the others  *)
(* run between the steps.  A user stands for its uuid, its uid and its     *)
(* runtimeKey|uuid.                                                        *)
(***************************************************************************)
EXTENDS LimiterUsers, Naturals, FiniteSets

CONSTANTS
  Speeds,        \* the static speed limits the panel gives, 0 for none
  DynSpeed,      \* DynamicSpeedLimitConfig.SpeedLimit
  NodeSpeed,     \* LimitConfig.SpeedLimit, 0 for none
  DeviceLimits,  \* the device limits the panel gives, 0 for none
  MaxAlive,      \* bound: alive devices the panel reports of a user
  MaxChecks,     \* bound: calls of CheckLimit
  MaxEvents      \* bound: what the panel, the speed checker, the report and the sweep do

ASSUME NumbersOK ==
  /\ Speeds \subseteq Nat /\ DeviceLimits \subseteq Nat
  /\ DynSpeed \in Nat \ {0} /\ NodeSpeed \in Nat
  /\ {MaxAlive, MaxChecks, MaxEvents} \subseteq Nat

VARIABLES
  info,     \* UserLimitInfo: [dyn, speed, dev] of a user; dyn is "gone" for no entry
  online,   \* UserOnlineIP: the user's devices since the last report
  old,      \* OldUserOnline: ip -> uid
  alive,    \* AliveList
  bucket,   \* SpeedLimiter: the user's limit in it, 0 for no entry
  listed,   \* the users of the list UpdateUser was told of, with their limits
  check,    \* the goroutines in CheckLimit
  update,   \* [at, user]: where UpdateUser is
  report,   \* the user GetOnlineDevice is about to drop from UserOnlineIP
  stale,    \* the IP GCStale is about to delete from OldUserOnline
  safe,     \* history: a user's devices let in while no refusal was open
  mixed,    \* history: users who were updated or reported during a CheckLimit
  done      \* history: [checks, events]

limiterVars == <<info, online, old, alive, bucket, listed, check, update, report,
               stale, safe, mixed, done>>

\* determineSpeedLimit: the minimum non-zero rate.
determineSpeedLimit(a, b) ==
  IF a = 0 THEN b ELSE IF b = 0 THEN a ELSE IF a < b THEN a ELSE b

Gone == [dyn |-> "gone", speed |-> 0, dev |-> 0]
NoCheck == [at |-> "idle", user |-> None, ip |-> None, limit |-> 0, dev |-> 0]
Done(t) == check' = [check EXCEPT ![t] = NoCheck]
GoOn(t, at) == check' = [check EXCEPT ![t].at = at]

\* The device is decided about and of no more interest.
ForBucket(c) == [c EXCEPT !.at = "bucket", !.ip = None, !.dev = 0]
GotoBucket(t) == check' = [check EXCEPT ![t] = ForBucket(@)]

Event == done.events < MaxEvents /\ done' = [done EXCEPT !.events = @ + 1]

\* Somebody else may yet take the device i of u away: the goroutine that
\* stored the user's entry, or one refused with the same IP.
Open(t, u, i) == \E o \in Threads \ {t} : check[o].user = u /\
  (check[o].at \in {"old", "refuseUser"} \/ (check[o].at = "refuseIP" /\ check[o].ip = i))
LetIn(t) ==
  LET u == check[t].user  i == check[t].ip
  IN safe' = IF i \in online'[u] /\ ~Open(t, u, i) THEN [safe EXCEPT ![u] = @ \cup {i}] ELSE safe

\* The entry of u is deleted: the goroutines that hold its map of IPs go on
\* with a map nobody else will look into.
Detached(u) == [o \in Threads |->
  IF check[o].user # u THEN check[o]
  ELSE [check[o] EXCEPT !.at = CASE @ = "inner" -> "lostInner" [] @ = "refuseIP" -> "lostRefuse" [] OTHER -> @]]
DropEntry(u) == online' = [online EXCEPT ![u] = {}] /\ safe' = [safe EXCEPT ![u] = {}]

\* An old device is deleted whosever it is by then, the one that the report
\* just stored included.
Wipe(i) ==
  /\ old' = [old EXCEPT ![i] = None]
  /\ safe' = IF report = None THEN safe ELSE [safe EXCEPT ![report] = @ \ {i}]

-----------------------------------------------------------------------------
(* CheckLimit, after AddConnCount has let the connection pass.             *)

\* The user's limits.  An expired dynamic limit is reset when the user has a
\* limit of its own; else its entry is deleted.
CheckUser(t, u, i, noSSUDP) ==
  /\ check[t].at = "idle"
  /\ done.checks < MaxChecks
  /\ done' = [done EXCEPT !.checks = @ + 1]
  /\ info[u].dyn # "gone"
  /\ LET c == [at |-> "device", user |-> u, ip |-> i, dev |-> info[u].dev,
               limit |-> IF info[u].dyn = "active"
                         THEN determineSpeedLimit(info[u].speed, DynSpeed) ELSE info[u].speed]
     IN check' = [check EXCEPT ![t] = IF noSSUDP THEN c ELSE ForBucket(c)]
  /\ info' = CASE info[u].dyn # "expired" -> info
               [] info[u].dyn = "expired" /\ info[u].speed # 0 -> [info EXCEPT ![u].dyn = "off"]
               [] info[u].dyn = "expired" /\ info[u].speed = 0 -> [info EXCEPT ![u] = Gone]
  /\ mixed' = IF update.user = u \/ report = u THEN mixed \cup {u} ELSE mixed
  /\ UNCHANGED <<online, old, alive, bucket, listed, update, report, stale, safe>>

\* The device.  The panel's count of alive devices is read, and from here
\* on dev is 0 unless it has reached the limit; the user's entry is loaded,
\* or stored with this device.
CheckDevice(t) ==
  LET u == check[t].user IN
  /\ check[t].at = "device"
  /\ check' = [check EXCEPT ![t].at = IF online[u] = {} THEN "old" ELSE "inner",
                             ![t].dev = IF @ <= alive[u] THEN @ ELSE 0]
  /\ online' = [online EXCEPT ![u] = IF @ = {} THEN {check[t].ip} ELSE @]
  /\ UNCHANGED <<info, old, alive, bucket, listed, update, report, stale, safe, mixed, done>>

\* In the entry that was there, a new device is stored before the limit is
\* looked at.
CheckInner(t) ==
  LET u == check[t].user  i == check[t].ip IN
  /\ check[t].at = "inner"
  /\ online' = [online EXCEPT ![u] = @ \cup {i}]
  /\ \/ (i \in online[u] \/ check[t].dev = 0) /\ GotoBucket(t) /\ LetIn(t)
     \/ i \notin online[u] /\ check[t].dev # 0 /\ GoOn(t, "refuseIP") /\ UNCHANGED safe
  /\ UNCHANGED <<info, old, alive, bucket, listed, update, report, stale, mixed, done>>

\* Faulty variant: the whole entry goes, as for the first device of one.
RefuseIPDropsEntry(t) ==
  /\ check[t].at = "refuseIP"
  /\ DropEntry(check[t].user)
  /\ check' = [Detached(check[t].user) EXCEPT ![t] = NoCheck]
  /\ UNCHANGED <<info, old, alive, bucket, listed, update, report, stale, mixed, done>>

RefuseIP(t) ==
  LET u == check[t].user IN
  /\ check[t].at = "refuseIP"
  /\ online' = [online EXCEPT ![u] = @ \ {check[t].ip}]
  /\ safe' = [safe EXCEPT ![u] = @ \ {check[t].ip}]
  /\ Done(t)
  /\ UNCHANGED <<info, old, alive, bucket, listed, update, report, stale, mixed, done>>

\* The same in a map that is no longer the user's, whatever it holds.
CheckLost(t) ==
  /\ \/ check[t].at = "lostInner" /\ GotoBucket(t)
     \/ check[t].at = "lostInner" /\ check[t].dev # 0 /\ Done(t)
     \/ check[t].at = "lostRefuse" /\ Done(t)
  /\ UNCHANGED <<info, online, old, alive, bucket, listed, update, report, stale, safe, mixed, done>>

\* The first device of an entry is let in if it is an old one, of whichever
\* user, or the limit allows; else the entry goes, with every device that
\* was let in through it.
CheckOld(t) ==
  LET i == check[t].ip IN
  /\ check[t].at = "old"
  /\ UNCHANGED <<info, online, old, alive, bucket, listed, update, report, stale, mixed, done>>
  /\ \/ old[i] = check[t].user /\ GoOn(t, "forgetOld") /\ LetIn(t)
     \/ old[i] \notin {None, check[t].user} /\ GotoBucket(t) /\ LetIn(t)
     \/ old[i] = None /\ check[t].dev = 0 /\ GotoBucket(t) /\ LetIn(t)
     \/ old[i] = None /\ check[t].dev # 0 /\ GoOn(t, "refuseUser") /\ UNCHANGED safe

ForgetOld(t) ==
  /\ check[t].at = "forgetOld"
  /\ Wipe(check[t].ip)
  /\ GotoBucket(t)
  /\ UNCHANGED <<info, online, alive, bucket, listed, update, report, stale, mixed, done>>

RefuseUser(t) ==
  /\ check[t].at = "refuseUser"
  /\ DropEntry(check[t].user)
  /\ check' = [Detached(check[t].user) EXCEPT ![t] = NoCheck]
  /\ UNCHANGED <<info, old, alive, bucket, listed, update, report, stale, mixed, done>>

\* The bucket: one that exists is used whatever its rate.
CheckBucket(t) ==
  LET u == check[t].user  limit == determineSpeedLimit(NodeSpeed, check[t].limit) IN
  /\ check[t].at = "bucket"
  /\ bucket' = [bucket EXCEPT ![u] = IF @ = 0 THEN limit ELSE @]
  /\ Done(t)
  /\ UNCHANGED <<info, online, old, alive, listed, update, report, stale, safe, mixed, done>>

-----------------------------------------------------------------------------
(* The monitor: UpdateUser and AliveList.Replace.                          *)

InCheck(u) == \E t \in Threads : check[t].user = u
Changing(u) == mixed' = IF InCheck(u) THEN mixed \cup {u} ELSE mixed

\* A user is removed, added, or both when its limits changed.
UpdateUser(u) ==
  /\ update.at = "idle"
  /\ Event
  /\ \E l \in {Gone} \cup [dyn : {"off"}, speed : Speeds, dev : DeviceLimits] :
       /\ l # listed[u]
       /\ listed' = [listed EXCEPT ![u] = l]
  /\ update' = [at |-> IF listed[u] # Gone THEN "delInfo" ELSE "add", user |-> u]
  /\ Changing(u)
  /\ UNCHANGED <<info, online, old, alive, bucket, check, report, stale, safe>>

UpdateDelInfo ==
  /\ update.at = "delInfo"
  /\ info' = [info EXCEPT ![update.user] = Gone]
  /\ update' = [update EXCEPT !.at = "delRest"]
  /\ UNCHANGED <<online, old, alive, bucket, listed, check, report, stale, safe, mixed, done>>

EndOfUpdate == [at |-> "idle", user |-> None]
AfterDelete == IF listed[update.user] = Gone THEN EndOfUpdate ELSE [update EXCEPT !.at = "add"]

\* Faulty variants, for the mutation runs only: one of the stores is
\* forgotten.
UpdateDelKeepsBucket ==
  /\ update.at = "delRest"
  /\ DropEntry(update.user) /\ check' = Detached(update.user)
  /\ alive' = [alive EXCEPT ![update.user] = 0]
  /\ update' = AfterDelete
  /\ UNCHANGED <<info, old, bucket, listed, report, stale, mixed, done>>

UpdateDelKeepsOnline ==
  /\ update.at = "delRest"
  /\ bucket' = [bucket EXCEPT ![update.user] = 0]
  /\ alive' = [alive EXCEPT ![update.user] = 0]
  /\ update' = AfterDelete
  /\ UNCHANGED <<info, online, old, listed, check, report, stale, safe, mixed, done>>

UpdateDelRest ==
  /\ update.at = "delRest"
  /\ DropEntry(update.user) /\ check' = Detached(update.user)
  /\ bucket' = [bucket EXCEPT ![update.user] = 0]
  /\ alive' = [alive EXCEPT ![update.user] = 0]
  /\ update' = AfterDelete
  /\ UNCHANGED <<info, old, listed, report, stale, mixed, done>>

UpdateAdd ==
  /\ update.at = "add"
  /\ info' = [info EXCEPT ![update.user] = listed[update.user]]
  /\ update' = EndOfUpdate
  /\ UNCHANGED <<online, old, alive, bucket, listed, check, report, stale, safe, mixed, done>>

AliveReplace(u) ==
  /\ Event
  /\ \E n \in 0 .. MaxAlive : n # alive[u] /\ alive' = [alive EXCEPT ![u] = n]
  /\ UNCHANGED <<info, online, old, bucket, listed, check, update, report, stale, safe, mixed>>

-----------------------------------------------------------------------------
(* The speed checker and the clock.                                        *)

\* Faulty variant: a user without an entry gets one.
UpdateDynamicSpeedLimitCreates(u) ==
  /\ info' = [info EXCEPT ![u].dyn = "active"]
  /\ UNCHANGED <<online, old, alive, bucket, listed, check, update, report, stale, safe, mixed, done>>

UpdateDynamicSpeedLimit(u) ==
  /\ info[u].dyn # "gone"
  /\ Event
  /\ info' = [info EXCEPT ![u].dyn = "active"]
  /\ UNCHANGED <<online, old, alive, bucket, listed, check, update, report, stale, safe, mixed>>

Expire(u) ==
  /\ info[u].dyn = "active"
  /\ info' = [info EXCEPT ![u].dyn = "expired"]
  /\ UNCHANGED <<online, old, alive, bucket, listed, check, update, report, stale, safe, mixed, done>>

-----------------------------------------------------------------------------
(* The report task and the sweep.                                          *)

Remember(u) == [i \in IPs |-> IF i \in online[u] THEN u ELSE old[i]]

\* GetOnlineDevice, user by user: the devices are collected and kept as old
\* ones, then the user's entry is deleted with whatever it holds by then.
CollectOnline(u) ==
  /\ report = None /\ online[u] # {}
  /\ Event
  /\ old' = Remember(u)
  /\ report' = u
  /\ Changing(u)
  /\ UNCHANGED <<info, online, alive, bucket, listed, check, update, stale, safe>>

DropOnline ==
  /\ report # None
  /\ DropEntry(report) /\ check' = Detached(report)
  /\ report' = None
  /\ UNCHANGED <<info, old, alive, bucket, listed, update, stale, mixed, done>>

\* ClearOnlineIP: GCStale finds an entry of more than ten minutes, hence not
\* one that was stored just now, and deletes what is there a moment later.
GCStale ==
  /\ stale = None /\ Event
  /\ \E i \in IPs : old[i] \notin {None, report} /\ stale' = i
  /\ UNCHANGED <<info, online, old, alive, bucket, listed, check, update, report, safe, mixed>>

GCDelete ==
  /\ stale # None
  /\ Wipe(stale)
  /\ stale' = None
  /\ UNCHANGED <<info, online, alive, bucket, listed, check, update, report, mixed, done>>

-----------------------------------------------------------------------------
\* AddLimiter with the users of the list at Start.
LimiterInit ==
  /\ listed \in [Users -> [dyn : {"off"}, speed : Speeds, dev : DeviceLimits]]
  /\ info = listed
  /\ online = [u \in Users |-> {}] /\ old = [i \in IPs |-> None]
  /\ alive = [u \in Users |-> 0]
  /\ bucket = [u \in Users |-> 0]
  /\ check = [t \in Threads |-> NoCheck]
  /\ update = EndOfUpdate /\ report = None /\ stale = None
  /\ safe = [u \in Users |-> {}] /\ mixed = {}
  /\ done = [checks |-> 0, events |-> 0]

LimiterNext ==
  \/ \E t \in Threads, u \in Users, i \in IPs, noSSUDP \in BOOLEAN : CheckUser(t, u, i, noSSUDP)
  \/ \E t \in Threads :
       \/ CheckDevice(t) \/ CheckInner(t) \/ RefuseIP(t) \/ CheckLost(t)
       \/ CheckOld(t) \/ ForgetOld(t) \/ RefuseUser(t) \/ CheckBucket(t)
  \/ \E u \in Users :
       \/ UpdateUser(u) \/ AliveReplace(u)
       \/ UpdateDynamicSpeedLimit(u) \/ Expire(u) \/ CollectOnline(u)
  \/ UpdateDelInfo \/ UpdateDelRest \/ UpdateAdd
  \/ DropOnline \/ GCStale \/ GCDelete

LimiterSpec == LimiterInit /\ [][LimiterNext]_limiterVars

-----------------------------------------------------------------------------
(* Properties.                                                             *)

Limits == [dyn : {"off", "active", "expired"}, speed : Speeds, dev : DeviceLimits] \cup {Gone}

Places == {"idle", "device", "inner", "refuseIP", "lostInner", "lostRefuse", "old", "forgetOld",
           "refuseUser", "bucket"}

\* The types; a user without limits has no dynamic limit either, and an
\* update is about a user exactly while it goes on.
LimiterTypeOK ==
  /\ info \in [Users -> Limits] /\ listed \in [Users -> Limits]
  /\ online \in [Users -> SUBSET IPs] /\ old \in [IPs -> Users \cup {None}]
  /\ alive \in [Users -> 0 .. MaxAlive] /\ bucket \in [Users -> Nat]
  /\ check \in [Threads -> [at : Places, user : Users \cup {None}, ip : IPs \cup {None},
                           limit : Nat, dev : DeviceLimits \cup {0}]]
  /\ update \in [at : {"idle", "delInfo", "delRest", "add"}, user : Users \cup {None}]
  /\ update.at = "idle" <=> update.user = None
  /\ report \in Users \cup {None} /\ stale \in IPs \cup {None}
  /\ safe \in [Users -> SUBSET IPs] /\ \A u \in Users : safe[u] \subseteq online[u]
  /\ mixed \subseteq Users

\* The users whose calls came one after the other and are complete.
Settled(u) == u \notin mixed /\ update.user # u /\ ~InCheck(u)

\* A cached bucket never lets a user be faster than the limits the panel and
\* the node set, whatever the dynamic limit does and however often the panel
\* changes them: the bucket is dropped with the limits it was made from.
NeverFaster ==
  \A u \in Users : Settled(u) /\ listed[u] # Gone =>
    LET static == determineSpeedLimit(NodeSpeed, listed[u].speed)
    IN static # 0 => bucket[u] <= static

\* "UpdateUser refreshes per-user state when the panel reports user
\* adds/removes" (limiter.go:133): nothing is kept of a user that is not on
\* the list, so a user who comes back is not held to what it had before.
RemovedForgotten ==
  \A u \in Users : Settled(u) /\ listed[u] = Gone =>
    info[u] = Gone /\ online[u] = {} /\ bucket[u] = 0

\* "populated by GetOnlineDevice" (limiter.go:45-51): a device leaves the
\* online devices of a listed user only to become an old one of that user,
\* or with the user's limits.  CheckLimit does not give this to a device let
\* in while a refusal of the same user was open: the connection that stored
\* the user's entry, once refused, deletes the whole entry (limiter.go:225-
\* 228), and one refused with the same IP deletes that IP (216-219).  Nor
\* does it hold of an old device deleted, by the sweep or by another user of
\* the IP, right after the report stored it.
DevicesRemembered ==
  [][\A u \in Users : u \notin mixed' /\ update.at # "delRest" =>
       \A i \in safe[u] \ online'[u] : old'[i] = u]_limiterVars

\* "flip them into dynamic-limit mode for the configured ExpireTime window"
\* (task.go:151-154): after the window, as before it, a user on the list is
\* one CheckLimit knows.
ListedKnown ==
  \A u \in Users : update.user # u /\ listed[u] # Gone => info[u] # Gone

=============================================================================

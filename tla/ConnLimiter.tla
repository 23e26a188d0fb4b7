---------------------------- MODULE ConnLimiter -----------------------------
(***************************************************************************)
(* ConnLimiter (limiter/conn.go): the connection and IP counters of the    *)
(* users, in two sync.Maps that the goroutines of the data path and the    *)
(* sweep ClearOnlineIP use without a lock.  Each step is one operation on  *)
(* a map; the test of one IP and the count of the others in an inner map   *)
(* are taken as one.                                                       *)
(*                                                                         *)
(* A goroutine holds on to the inner map it loaded.  When the outer entry  *)
(* is deleted meanwhile, what it stores goes to a map that nobody else     *)
(* finds: its pointer is "detached".                                       *)
(*                                                                         *)
(* A slot is an integer in realtime mode (2 per TCP connection, 1 for a    *)
(* first use by a packet protocol) and 0 when absent.  The time stamp of   *)
(* the other mode is as good as 1: the sweep deletes it whatever its age,  *)
(* since every past time is Before(now + 1 minute).                        *)
(***************************************************************************)
EXTENDS LimiterUsers, Naturals, FiniteSets

CONSTANTS
  ConnLimit,    \* ConnLimiter.connLimit, 0 for none
  IPLimit,      \* ConnLimiter.ipLimit, 0 for none
  Realtime,     \* ConnLimiter.realtime
  MaxConnects   \* bound: calls of AddConnCount in a behaviour

ASSUME LimitsOK == ConnLimit \in Nat /\ IPLimit \in Nat /\ MaxConnects \in Nat
ASSUME SetsOK == IsFiniteSet(Users) /\ IsFiniteSet(IPs) /\ IsFiniteSet(Threads) /\ Realtime \in BOOLEAN

VARIABLES
  count,     \* ConnLimiter.count, 0 for no entry
  outer,     \* has ConnLimiter.ip an entry for the user?
  ips,       \* the slots of the user's current inner map
  th,        \* the goroutines: [at, user, ip, tcp, seen, inner, online]
  sweep,     \* the user whose empty inner map the sweep is about to delete
  open,      \* history: TCP connections admitted and not yet closed
  raced,     \* history: users two goroutines were busy with at a time
  connects   \* history: calls of AddConnCount

vars == <<count, outer, ips, th, sweep, open, raced, connects>>

NoSlots == [i \in IPs |-> 0]
Online(u) == { i \in IPs : ips[u][i] # 0 }
Idle == [at |-> "idle", user |-> None, ip |-> None, tcp |-> FALSE,
         seen |-> 0, inner |-> None, online |-> FALSE]

At(t, label) == th[t].at = label
Goto(t, label) == th' = [th EXCEPT ![t].at = label]

\* The goroutine has the answer: admitted TCP connections are open.
Reject(t) == th' = [th EXCEPT ![t] = Idle] /\ UNCHANGED open
Admit(t) ==
  /\ th' = [th EXCEPT ![t] = Idle]
  /\ open' = IF th[t].tcp THEN [open EXCEPT ![th[t].user][th[t].ip] = @ + 1] ELSE open

\* Somebody else, a goroutine or the sweep, is busy with the user.
Contended(t, u) == sweep = u \/ \E o \in Threads \ {t} : th[o].user = u
NoteRace(t, u) == raced' = IF Contended(t, u) THEN raced \cup {u} ELSE raced

\* Faulty variant, for the mutation runs only: a detached pointer is not told
\* from the current one.
PutDetachedToo(t, v) == ips' = [ips EXCEPT ![th[t].user][th[t].ip] = v]

\* A store through the goroutine's pointer to an inner map.
Put(t, v) ==
  ips' = IF th[t].inner = "attached" THEN [ips EXCEPT ![th[t].user][th[t].ip] = v] ELSE ips

\* The outer entry goes, and the pointers to its inner map lead nowhere.
DeleteOuter(u, threads) ==
  /\ outer' = [outer EXCEPT ![u] = FALSE]
  /\ ips' = [ips EXCEPT ![u] = NoSlots]
  /\ th' = [t \in Threads |->
              IF threads[t].user = u /\ threads[t].inner = "attached"
              THEN [threads[t] EXCEPT !.inner = "detached"] ELSE threads[t]]

-----------------------------------------------------------------------------
(* AddConnCount.                                                           *)

Connect(t, u, i, isTcp) ==
  /\ At(t, "idle")
  /\ connects < MaxConnects
  /\ connects' = connects + 1
  /\ th' = [th EXCEPT ![t] = [Idle EXCEPT !.at = "checkCount", !.user = u, !.ip = i, !.tcp = isTcp]]
  /\ NoteRace(t, u)
  /\ UNCHANGED <<count, outer, ips, sweep, open>>

\* Phase 1: the connections.  Packet protocols are refused as well.
CheckCount(t) ==
  /\ At(t, "checkCount")
  /\ IF ConnLimit # 0 /\ count[th[t].user] >= ConnLimit
     THEN Reject(t)
     ELSE Goto(t, "checkIP") /\ UNCHANGED open
  /\ UNCHANGED <<count, outer, ips, sweep, raced, connects>>

\* Faulty variant: one IP too many.
TooManyIPsOffByOne(u, i) == i \notin Online(u) /\ Cardinality(Online(u)) > IPLimit
TooManyIPs(u, i) == i \notin Online(u) /\ Cardinality(Online(u)) >= IPLimit

\* Where phase 2 begins.
Mutate(t) == IF ConnLimit # 0 /\ th[t].tcp THEN "loadCount" ELSE "storeIP"

\* Faulty variant: the connection is counted before the IPs are checked.
CheckIPAfterCount(t) ==
  LET u == th[t].user  i == th[t].ip IN
  /\ At(t, "checkIP")
  /\ count' = IF ConnLimit # 0 /\ th[t].tcp THEN [count EXCEPT ![u] = @ + 1] ELSE count
  /\ IF IPLimit # 0 /\ outer[u] /\ TooManyIPs(u, i)
     THEN Reject(t)
     ELSE /\ th' = [th EXCEPT ![t].at = "storeIP",
                              ![t].inner = IF IPLimit # 0 /\ outer[u] THEN "attached" ELSE None,
                              ![t].online = IPLimit # 0 /\ outer[u] /\ i \in Online(u)]
          /\ UNCHANGED open
  /\ UNCHANGED <<outer, ips, sweep, raced, connects>>

\* Phase 1: the IPs.
CheckIP(t) ==
  LET u == th[t].user  i == th[t].ip IN
  /\ At(t, "checkIP")
  /\ IF IPLimit # 0 /\ outer[u] /\ TooManyIPs(u, i)
     THEN Reject(t)
     ELSE /\ th' = [th EXCEPT ![t].at = Mutate(t),
                              ![t].inner = IF IPLimit # 0 /\ outer[u] THEN "attached" ELSE None,
                              ![t].online = IPLimit # 0 /\ outer[u] /\ i \in Online(u)]
          /\ UNCHANGED open
  /\ UNCHANGED <<count, outer, ips, sweep, raced, connects>>

\* Phase 2: the count is loaded and stored in two steps.
LoadCount(t) ==
  /\ At(t, "loadCount")
  /\ th' = [th EXCEPT ![t].at = "storeCount", ![t].seen = count[th[t].user]]
  /\ UNCHANGED <<count, outer, ips, sweep, open, raced, connects>>

StoreCount(t) ==
  /\ At(t, "storeCount")
  /\ count' = [count EXCEPT ![th[t].user] = th[t].seen + 1]
  /\ Goto(t, "storeIP")
  /\ UNCHANGED <<outer, ips, sweep, open, raced, connects>>

Slot(isTcp) == IF Realtime /\ isTcp THEN 2 ELSE 1

\* Phase 2: the slot of the IP.  A first-time user gets an inner map with it;
\* if somebody else installed one meanwhile, that one is used.
StoreIP(t) ==
  LET u == th[t].user  i == th[t].ip IN
  /\ At(t, "storeIP")
  /\ IF IPLimit = 0 THEN Admit(t) /\ UNCHANGED <<outer, ips>>
     ELSE \/ /\ th[t].inner = None /\ ~outer[u]
             /\ outer' = [outer EXCEPT ![u] = TRUE]
             /\ ips' = [ips EXCEPT ![u] = [NoSlots EXCEPT ![i] = Slot(th[t].tcp)]]
             /\ Admit(t)
          \/ /\ th[t].inner = None /\ outer[u]
             /\ th' = [th EXCEPT ![t].inner = "attached", ![t].at = "putIP"]
             /\ UNCHANGED <<outer, ips, open>>
          \/ /\ th[t].inner # None
             /\ Goto(t, IF th[t].online /\ Realtime THEN "loadSlot" ELSE "putIP")
             /\ UNCHANGED <<outer, ips, open>>
  /\ UNCHANGED <<count, sweep, raced, connects>>

\* storeIPSlot overwrites whatever the slot holds by now.
PutIP(t) ==
  /\ At(t, "putIP")
  /\ Put(t, Slot(th[t].tcp))
  /\ Admit(t)
  /\ UNCHANGED <<count, outer, sweep, raced, connects>>

\* The IP was online: a TCP connection adds 2 to the slot if it is still
\* there, a packet protocol leaves it alone.
LoadSlot(t) ==
  /\ At(t, "loadSlot")
  /\ IF th[t].tcp /\ th[t].inner = "attached" /\ ips[th[t].user][th[t].ip] # 0
     THEN /\ th' = [th EXCEPT ![t].at = "storeSlot", ![t].seen = ips[th[t].user][th[t].ip]]
          /\ UNCHANGED open
     ELSE Admit(t)
  /\ UNCHANGED <<count, outer, ips, sweep, raced, connects>>

StoreSlot(t) ==
  /\ At(t, "storeSlot")
  /\ Put(t, th[t].seen + 2)
  /\ Admit(t)
  /\ UNCHANGED <<count, outer, sweep, raced, connects>>

-----------------------------------------------------------------------------
(* DelConnCount, called once by the close hook of an admitted connection,  *)
(* which is installed in realtime mode only.                               *)

Disconnect(t, u, i) ==
  /\ Realtime
  /\ At(t, "idle") /\ open[u][i] > 0
  /\ open' = [open EXCEPT ![u][i] = @ - 1]
  /\ th' = [th EXCEPT ![t] = [Idle EXCEPT !.at = "delLoadCount", !.user = u, !.ip = i, !.tcp = TRUE]]
  /\ NoteRace(t, u)
  /\ UNCHANGED <<count, outer, ips, sweep, connects>>

DelLoadCount(t) ==
  /\ At(t, "delLoadCount")
  /\ IF ConnLimit # 0 /\ count[th[t].user] # 0
     THEN th' = [th EXCEPT ![t].at = "delStoreCount", ![t].seen = count[th[t].user]]
     ELSE Goto(t, "delLoadSlot")
  /\ UNCHANGED <<count, outer, ips, sweep, open, raced, connects>>

DelStoreCount(t) ==
  /\ At(t, "delStoreCount")
  /\ count' = [count EXCEPT ![th[t].user] = th[t].seen - 1]
  /\ Goto(t, "delLoadSlot")
  /\ UNCHANGED <<outer, ips, sweep, open, raced, connects>>

DelLoadSlot(t) ==
  LET u == th[t].user  i == th[t].ip IN
  /\ At(t, "delLoadSlot")
  /\ IF IPLimit # 0 /\ outer[u] /\ ips[u][i] # 0
     THEN th' = [th EXCEPT ![t].at = "delStoreSlot", ![t].seen = ips[u][i], ![t].inner = "attached"]
     ELSE th' = [th EXCEPT ![t] = Idle]
  /\ UNCHANGED <<count, outer, ips, sweep, open, raced, connects>>

DelStoreSlot(t) ==
  /\ At(t, "delStoreSlot")
  /\ Put(t, IF th[t].seen <= 2 THEN 0 ELSE th[t].seen - 2)
  /\ Goto(t, "delRange")
  /\ UNCHANGED <<count, outer, sweep, open, raced, connects>>

\* The map is looked through for what is left; a detached one may hold what
\* other goroutines with an old pointer put there.
DelRange(t) ==
  /\ At(t, "delRange")
  /\ \/ /\ th[t].inner = "detached" \/ Online(th[t].user) = {}
        /\ Goto(t, "delOuter")
     \/ /\ th[t].inner = "detached" \/ Online(th[t].user) # {}
        /\ th' = [th EXCEPT ![t] = Idle]
  /\ UNCHANGED <<count, outer, ips, sweep, open, raced, connects>>

DelOuter(t) ==
  /\ At(t, "delOuter")
  /\ DeleteOuter(th[t].user, [th EXCEPT ![t] = Idle])
  /\ UNCHANGED <<count, sweep, open, raced, connects>>

-----------------------------------------------------------------------------
(* ClearOnlineIP, by the one goroutine of its periodic task.               *)

Swept(u) == [i \in IPs |-> IF ips[u][i] = 1 THEN 0 ELSE ips[u][i]]

\* One user: packet slots go; the outer entry goes only if there was no slot.
ClearOnlineIP(u) ==
  /\ sweep = None
  /\ outer[u]
  /\ ips' = [ips EXCEPT ![u] = Swept(u)]
  /\ sweep' = IF Online(u) = {} THEN u ELSE None
  /\ raced' = IF \E t \in Threads : th[t].user = u THEN raced \cup {u} ELSE raced
  /\ UNCHANGED <<count, outer, th, open, connects>>

ClearOuter ==
  /\ sweep # None
  /\ DeleteOuter(sweep, th)
  /\ sweep' = None
  /\ UNCHANGED <<count, open, raced, connects>>

-----------------------------------------------------------------------------
Init ==
  /\ count = [u \in Users |-> 0]
  /\ outer = [u \in Users |-> FALSE]
  /\ ips = [u \in Users |-> NoSlots]
  /\ th = [t \in Threads |-> Idle]
  /\ sweep = None
  /\ open = [u \in Users |-> NoSlots]
  /\ raced = {}
  /\ connects = 0

AddConnCount(t) ==
  \/ CheckCount(t) \/ CheckIP(t) \/ LoadCount(t) \/ StoreCount(t)
  \/ StoreIP(t) \/ PutIP(t) \/ LoadSlot(t) \/ StoreSlot(t)

DelConnCount(t) ==
  \/ DelLoadCount(t) \/ DelStoreCount(t) \/ DelLoadSlot(t)
  \/ DelStoreSlot(t) \/ DelRange(t) \/ DelOuter(t)

Next ==
  \/ \E t \in Threads, u \in Users, i \in IPs :
       Disconnect(t, u, i) \/ \E isTcp \in BOOLEAN : Connect(t, u, i, isTcp)
  \/ \E t \in Threads : AddConnCount(t) \/ DelConnCount(t)
  \/ \E u \in Users : ClearOnlineIP(u)
  \/ ClearOuter

Spec == Init /\ [][Next]_vars

-----------------------------------------------------------------------------
(* Properties.                                                             *)

Labels == {"idle", "checkCount", "checkIP", "loadCount", "storeCount", "storeIP",
           "putIP", "loadSlot", "storeSlot", "delLoadCount", "delStoreCount",
           "delLoadSlot", "delStoreSlot", "delRange", "delOuter"}

\* The types; no counter goes below zero, and a user without an outer entry
\* has no slots.
TypeOK ==
  /\ count \in [Users -> Nat] /\ outer \in [Users -> BOOLEAN]
  /\ ips \in [Users -> [IPs -> Nat]] /\ open \in [Users -> [IPs -> Nat]]
  /\ \A u \in Users : ~outer[u] => Online(u) = {}
  /\ th \in [Threads -> [at : Labels, user : Users \cup {None}, ip : IPs \cup {None},
                         tcp : BOOLEAN, seen : Nat, inner : {None, "attached", "detached"},
                         online : BOOLEAN]]
  /\ sweep \in Users \cup {None}
  /\ raced \subseteq Users /\ connects \in 0 .. MaxConnects

Quiet(u) == sweep # u /\ \A t \in Threads : th[t].user # u
\* The open connections of a user, numbered for each IP.
OpenConns(u) == UNION { {i} \X (1 .. open[u][i]) : i \in IPs }
OpenOf(u) == Cardinality(OpenConns(u))

\* AcceptedRoundtripIsBalanced (conn_transactional_test.go:160-181): as long
\* as the calls for a user came one after the other, between two of them the
\* count is the number of open connections and each slot is twice those of
\* the IP, plus 1 for a packet protocol that came first.
Ledger ==
  \A u \in Users \ raced : Quiet(u) /\ Realtime =>
    /\ ConnLimit # 0 => count[u] = OpenOf(u)
    /\ IPLimit # 0 => \A i \in IPs : ips[u][i] \in {2 * open[u][i], 2 * open[u][i] + 1}

\* Goroutines that all pass phase 1 and then all store a slot go beyond the
\* IP limit by no more than their number less one ("benign over-allocation
\* by 1", conn.go:39-43), and sweeps and closes do not add to that.
IPCap == IPLimit # 0 =>
  \A u \in Users : Cardinality(Online(u)) <= IPLimit + Cardinality(Threads) - 1

\* "never under-allocation" (conn.go:42): nobody is refused for connections
\* that are not open.
NeverUnder == \A u \in Users : Quiet(u) /\ Realtime => count[u] <= OpenOf(u)

=============================================================================

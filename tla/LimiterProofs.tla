---------------------------- MODULE LimiterProofs ----------------------------
(***************************************************************************)
(* Proofs about the two halves of a Limiter, for any users, IPs,           *)
(* goroutines and limits.                                                  *)
(*                                                                         *)
(* ConnLimiter: the IP limit is exceeded by the number of goroutines less  *)
(* one at most, and the counters match the open connections of every user  *)
(* whose calls came one after the other.  For the limit, an IP counts from *)
(* the moment a goroutine has passed the check for it, before its slot is  *)
(* stored: Claimed.  For the counters, UserLedger says what a user's only  *)
(* goroutine still owes the books at each of its steps.                    *)
(*                                                                         *)
(* Limiter: buckets are never faster than the limits, a removed user       *)
(* leaves nothing behind, and a device leaves the online devices as an old *)
(* one.  LimiterInv says of each user what the halves of an update, a      *)
(* report and a check may find of each other.                              *)
(***************************************************************************)
EXTENDS ConnLimiter, Limiter, FiniteSetTheorems, TLAPS

Thread == [at : Labels, user : Users \cup {None}, ip : IPs \cup {None},
           tcp : BOOLEAN, seen : Nat, inner : {None, "attached", "detached"},
           online : BOOLEAN]

\* The types.  A goroutine that is busy has a user and an IP, a pointer into
\* the current inner map means that there is one, and a count about to be
\* lowered was not zero.
Typed ==
  /\ count \in [Users -> Nat] /\ outer \in [Users -> BOOLEAN]
  /\ ips \in [Users -> [IPs -> Nat]] /\ open \in [Users -> [IPs -> Nat]]
  /\ th \in [Threads -> Thread]
  /\ sweep \in Users \cup {None}
  /\ raced \subseteq Users /\ connects \in 0 .. MaxConnects

Shaped(t) ==
  /\ ~At(t, "idle") => th[t].user \in Users /\ th[t].ip \in IPs
  /\ At(t, "idle") => th[t] = Idle
  /\ At(t, "delStoreCount") => th[t].seen > 0
  /\ th[t].inner = "attached" => ~At(t, "idle") /\ outer[th[t].user]

Sane ==
  /\ Typed
  /\ \A u \in Users : ~outer[u] => Online(u) = {}
  /\ \A t \in Threads : Shaped(t)

-----------------------------------------------------------------------------
(* The IP limit.                                                           *)

\* Where a goroutine may be about to store a slot that is not zero.
Passed == {"loadCount", "storeCount", "storeIP", "putIP", "loadSlot", "storeSlot", "delStoreSlot"}
Storers(u) == { t \in Threads : th[t].user = u /\ th[t].at \in Passed }
Claimed(u) == Online(u) \cup { th[t].ip : t \in Storers(u) }

ClaimsInv ==
  IPLimit # 0 =>
    \A u \in Users : Cardinality(Claimed(u)) <= IPLimit + Cardinality(Threads) - 1

-----------------------------------------------------------------------------
(* The books of a user.                                                    *)

\* A connection stored but not yet admitted, or closed and not yet taken off.
ExtraCount(t) ==
  IF th[t].at \in {"delLoadCount", "delStoreCount"}
     \/ (th[t].tcp /\ th[t].at \in {"storeIP", "putIP", "loadSlot", "storeSlot"})
  THEN 1 ELSE 0
ExtraSlot(t) ==
  IF th[t].at \in {"delLoadCount", "delStoreCount", "delLoadSlot", "delStoreSlot"} THEN 1 ELSE 0

CountIs(u, extra) == ConnLimit # 0 => count[u] = OpenOf(u) + extra
SlotIs(u, i, extra) ==
  IPLimit # 0 => ips[u][i] \in {2 * (open[u][i] + extra), 2 * (open[u][i] + extra) + 1}

\* What the goroutine has seen still holds when it is alone with the user.
Knows(t) ==
  LET u == th[t].user  i == th[t].ip IN
  /\ th[t].at \in {"storeCount", "delStoreCount"} => th[t].seen = count[u]
  /\ th[t].at \in {"loadCount", "storeCount"} => ConnLimit # 0 /\ th[t].tcp
  /\ IPLimit # 0 /\ th[t].at \in Passed =>
       /\ th[t].inner \in {None, "attached"} /\ (th[t].inner = None => ~outer[u])
       /\ ~At(t, "delStoreSlot") => (th[t].online <=> ips[u][i] # 0)
  /\ th[t].at \in {"putIP", "loadSlot", "storeSlot", "delStoreSlot"} =>
       IPLimit # 0 /\ th[t].inner = "attached"
  /\ th[t].at \in {"loadSlot", "storeSlot"} => th[t].online
  /\ At(t, "putIP") => ~th[t].online
  /\ At(t, "storeSlot") => th[t].tcp
  /\ th[t].at \in {"storeSlot", "delStoreSlot"} => th[t].seen = ips[u][i]
  /\ At(t, "delRange") => th[t].inner = "attached"
  /\ At(t, "delOuter") => Online(u) = {}

Owes(t) ==
  LET u == th[t].user IN
  /\ CountIs(u, ExtraCount(t))
  /\ \A i \in IPs : SlotIs(u, i, IF i = th[t].ip THEN ExtraSlot(t) ELSE 0)
  /\ Knows(t)

Balanced(u) == CountIs(u, 0) /\ \A i \in IPs : SlotIs(u, i, 0)

UserLedger(u) ==
  /\ Quiet(u) => Balanced(u)
  /\ sweep = u => Balanced(u) /\ Online(u) = {} /\ \A t \in Threads : th[t].user # u
  /\ \A t \in Threads : th[t].user = u =>
       Owes(t) /\ \A o \in Threads \ {t} : th[o].user # u

Numbered == \A u \in Users : IsFiniteSet(OpenConns(u))

LedgerInv == Realtime => \A u \in Users \ raced : UserLedger(u)

\* The inductive invariant of the limiter.
ConnInv == Sane /\ ClaimsInv /\ Numbered /\ LedgerInv

-----------------------------------------------------------------------------
(* Open connections, counted.                                              *)

Conns(f) == UNION { {i} \X (1 .. f[i]) : i \in IPs }

LEMMA ConnsMember ==
  ASSUME NEW f \in [IPs -> Nat], NEW c
  PROVE  c \in Conns(f) <=> \E i \in IPs : \E n \in Nat : c = <<i, n>> /\ 1 <= n /\ n <= f[i]
<1>1. ASSUME c \in Conns(f)
      PROVE  \E i \in IPs : \E n \in Nat : c = <<i, n>> /\ 1 <= n /\ n <= f[i]
  <2>1. PICK i \in IPs : c \in {i} \X (1 .. f[i])
    BY <1>1 DEF Conns
  <2>2. PICK n \in 1 .. f[i] : c = <<i, n>>
    BY <2>1
  <2> QED BY <2>2
<1>2. ASSUME NEW i \in IPs, NEW n \in Nat, c = <<i, n>>, 1 <= n, n <= f[i]
      PROVE  c \in Conns(f)
  <2>1. f[i] \in Nat /\ n \in 1 .. f[i]
    BY <1>2
  <2>2. c \in {i} \X (1 .. f[i])
    BY <2>1, <1>2
  <2> QED BY <2>2 DEF Conns
<1> QED BY <1>1, <1>2

(* A connection admitted is one more.                                      *)
LEMMA OneMore ==
  ASSUME NEW f \in [IPs -> Nat], NEW i \in IPs, IsFiniteSet(Conns(f))
  PROVE  /\ IsFiniteSet(Conns([f EXCEPT ![i] = @ + 1]))
         /\ Cardinality(Conns([f EXCEPT ![i] = @ + 1])) = Cardinality(Conns(f)) + 1
<1> DEFINE g == [f EXCEPT ![i] = @ + 1]
<1> DEFINE new == <<i, f[i] + 1>>
<1>1. g \in [IPs -> Nat] /\ g[i] = f[i] + 1 /\ \A j \in IPs \ {i} : g[j] = f[j]
  OBVIOUS
<1> HIDE DEF g
<1>2. \A c : c \in Conns(g) <=> c \in Conns(f) \/ c = new
  <2> TAKE c
  <2>1. c \in Conns(g) <=> \E j \in IPs : \E n \in Nat : c = <<j, n>> /\ 1 <= n /\ n <= g[j]
    BY <1>1, ConnsMember
  <2>2. c \in Conns(f) <=> \E j \in IPs : \E n \in Nat : c = <<j, n>> /\ 1 <= n /\ n <= f[j]
    BY ConnsMember
  <2>3. ASSUME NEW j \in IPs, NEW n \in Nat
        PROVE  (1 <= n /\ n <= g[j]) <=> (1 <= n /\ n <= f[j]) \/ (j = i /\ n = f[i] + 1)
    <3>1. CASE j = i
      <4>1. f[i] \in Nat /\ g[j] = f[i] + 1
        BY <1>1, <3>1
      <4> QED BY <3>1, <4>1
    <3>2. CASE j # i
      BY <1>1, <3>2
    <3> QED BY <3>1, <3>2
  <2> QED BY <2>1, <2>2, <2>3, <1>1
<1>3. new \notin Conns(f)
  <2> SUFFICES ASSUME new \in Conns(f) PROVE FALSE
    OBVIOUS
  <2>1. PICK j \in IPs, n \in Nat : new = <<j, n>> /\ 1 <= n /\ n <= f[j]
    BY ConnsMember
  <2> QED BY <2>1
<1>4. Conns(g) = Conns(f) \cup {new}
  BY <1>2
<1> HIDE DEF new
<1>5. /\ IsFiniteSet(Conns(f) \cup {new})
      /\ Cardinality(Conns(f) \cup {new}) = Cardinality(Conns(f)) + 1
  BY <1>3, FS_AddElement
<1> QED BY <1>4, <1>5 DEF g

(* A connection closed is one less.                                        *)
LEMMA OneLess ==
  ASSUME NEW f \in [IPs -> Nat], NEW i \in IPs, IsFiniteSet(Conns(f)), f[i] > 0
  PROVE  /\ IsFiniteSet(Conns([f EXCEPT ![i] = @ - 1]))
         /\ Cardinality(Conns([f EXCEPT ![i] = @ - 1])) + 1 = Cardinality(Conns(f))
<1> DEFINE g == [f EXCEPT ![i] = @ - 1]
<1>1. g \in [IPs -> Nat] /\ g[i] = f[i] - 1 /\ \A j \in IPs \ {i} : g[j] = f[j]
  OBVIOUS
<1> HIDE DEF g
<1>2. f = [g EXCEPT ![i] = @ + 1]
  <2>1. g[i] + 1 = f[i]
    BY <1>1
  <2>2. \A j \in IPs : [g EXCEPT ![i] = @ + 1][j] = f[j]
    BY <1>1, <2>1
  <2> QED BY <1>1, <2>2
<1>3. \A c : c \in Conns(g) => c \in Conns(f)
  <2> TAKE c
  <2>1. c \in Conns(g) <=> \E j \in IPs : \E n \in Nat : c = <<j, n>> /\ 1 <= n /\ n <= g[j]
    BY <1>1, ConnsMember
  <2>2. c \in Conns(f) <=> \E j \in IPs : \E n \in Nat : c = <<j, n>> /\ 1 <= n /\ n <= f[j]
    BY ConnsMember
  <2>3. ASSUME NEW j \in IPs, NEW n \in Nat, n <= g[j]
        PROVE  n <= f[j]
    BY <1>1, <2>3
  <2> QED BY <2>1, <2>2, <2>3
<1>4. IsFiniteSet(Conns(g))
  BY <1>3, FS_Subset
<1>5. Cardinality(Conns([g EXCEPT ![i] = @ + 1])) = Cardinality(Conns(g)) + 1
  BY <1>1, <1>4, OneMore
<1> QED BY <1>2, <1>4, <1>5 DEF g

-----------------------------------------------------------------------------
(* A step of one goroutine for one user.                                   *)

\* Nothing of another user changes, nor where another goroutine is.
Local(t, u) ==
  /\ \A v \in Users \ {u} : /\ count'[v] = count[v] /\ outer'[v] = outer[v]
                            /\ ips'[v] = ips[v] /\ open'[v] = open[v]
  /\ \A o \in Threads \ {t} : th'[o] = th[o]
  /\ th[t].user \in {u, None} /\ th'[t].user \in {u, None}
  /\ sweep' = sweep /\ raced \subseteq raced'

(* The inner map a goroutine of another user points to is left alone.      *)
LEMMA SaneStep ==
  ASSUME Sane, NEW t \in Threads, NEW u \in Users, Local(t, u), Typed', Shaped(t)',
         outer[u] => outer'[u], ~outer'[u] => Online(u)' = {}
  PROVE  Sane'
<1>1. \A v \in Users : outer[v] => outer'[v]
  BY DEF Local
<1>2. \A v \in Users : ~outer'[v] => Online(v)' = {}
  BY DEF Local, Sane, Online
<1>3. ASSUME NEW o \in Threads \ {t} PROVE Shaped(o)'
  <2>1. th'[o] = th[o] /\ Shaped(o)
    BY DEF Local, Sane
  <2> QED BY <1>1, <2>1 DEF Shaped, At
<1> QED BY <1>2, <1>3 DEF Sane

(* Claims are about IPs, of which there are finitely many.                 *)
LEMMA ClaimsFinite ==
  ASSUME Sane, NEW u \in Users
  PROVE  Claimed(u) \subseteq IPs /\ IsFiniteSet(Claimed(u)) /\ Cardinality(Claimed(u)) \in Nat
<1>1. Claimed(u) \subseteq IPs
  <2>1. ASSUME NEW t \in Storers(u) PROVE th[t].ip \in IPs
    <3>1. t \in Threads /\ th[t].at # "idle" /\ Shaped(t)
      BY <2>1 DEF Storers, Passed, Sane
    <3> QED BY <3>1 DEF Shaped, At
  <2> QED BY <2>1 DEF Claimed, Online
<1>2. IsFiniteSet(Claimed(u))
  BY <1>1, SetsOK, FS_Subset
<1> QED BY <1>1, <1>2, FS_CardinalityType

(* Fewer claims are within the limit when those before were.               *)
LEMMA ClaimsShrink ==
  ASSUME Sane, Sane', ClaimsInv, \A u \in Users : Claimed(u)' \subseteq Claimed(u)
  PROVE  ClaimsInv'
<1> SUFFICES ASSUME IPLimit # 0, NEW u \in Users
             PROVE  Cardinality(Claimed(u)') <= IPLimit + Cardinality(Threads) - 1
  BY DEF ClaimsInv
<1>1. Cardinality(Claimed(u)) <= IPLimit + Cardinality(Threads) - 1
  BY DEF ClaimsInv
<1>2. IsFiniteSet(Claimed(u)) /\ Cardinality(Claimed(u)) \in Nat
  BY ClaimsFinite
<1>3. Cardinality(Claimed(u)') <= Cardinality(Claimed(u)) /\ IsFiniteSet(Claimed(u)')
  BY <1>2, FS_Subset
<1>4. Cardinality(Claimed(u)') \in Nat /\ Cardinality(Threads) \in Nat
  BY <1>3, FS_CardinalityType, SetsOK
<1> QED BY <1>1, <1>2, <1>3, <1>4, LimitsOK

(* A step of a goroutine that stores only what it had claimed.             *)
LEMMA ClaimsStep ==
  ASSUME Sane, Sane', ClaimsInv, NEW t \in Threads, NEW u \in Users, Local(t, u),
         Online(u)' \subseteq Claimed(u),
         th'[t].user = u /\ th'[t].at \in Passed => th'[t].ip \in Claimed(u)
  PROVE  ClaimsInv'
<1>1. ASSUME NEW v \in Users PROVE Claimed(v)' \subseteq Claimed(v)
  <2>1. Online(v)' \subseteq Claimed(v)
    BY DEF Local, Online, Claimed
  <2>2. ASSUME NEW o \in Threads, th'[o].user = v, th'[o].at \in Passed
        PROVE  th'[o].ip \in Claimed(v)
    <3>1. CASE o # t
      <4>1. th'[o] = th[o]
        BY <3>1 DEF Local
      <4> QED BY <4>1, <2>2 DEF Claimed, Storers
    <3>2. CASE o = t
      <4>1. v = u
        BY <2>2, <3>2, NoneOK DEF Local
      <4> QED BY <4>1, <2>2, <3>2
    <3> QED BY <3>1, <3>2
  <2>3. Claimed(v)' = Online(v)' \cup { th'[o].ip : o \in Storers(v)' }
    BY DEF Claimed
  <2>4. \A o \in Storers(v)' : o \in Threads /\ th'[o].user = v /\ th'[o].at \in Passed
    BY DEF Storers
  <2> QED BY <2>1, <2>2, <2>3, <2>4
<1> QED BY <1>1, ClaimsShrink

(* What a user's books say follows from what is stored for that user.      *)
LEMMA LedgerElsewhere ==
  ASSUME NEW u \in Users, UserLedger(u),
         count'[u] = count[u], outer'[u] = outer[u], ips'[u] = ips[u], open'[u] = open[u],
         sweep' = u <=> sweep = u,
         \A t \in Threads : th[t].user = u \/ th'[t].user = u => th'[t] = th[t]
  PROVE  UserLedger(u)'
<1>1. \A t \in Threads : th'[t].user = u <=> th[t].user = u
  OBVIOUS
<1>2. Quiet(u)' <=> Quiet(u)
  BY <1>1 DEF Quiet
<1>3. OpenOf(u)' = OpenOf(u)
  BY DEF OpenOf, OpenConns
<1>4. \A n : CountIs(u, n)' <=> CountIs(u, n)
  BY <1>3 DEF CountIs
<1>5. \A i, n : SlotIs(u, i, n)' <=> SlotIs(u, i, n)
  BY DEF SlotIs
<1>6. Balanced(u)' <=> Balanced(u)
  BY <1>4, <1>5 DEF Balanced
<1>7. Online(u)' = Online(u)
  BY DEF Online
<1>8. ASSUME NEW t \in Threads, th'[t].user = u PROVE Owes(t)'
  <2>1. th'[t] = th[t] /\ th[t].user = u
    BY <1>8
  <2>2. Owes(t)
    BY <2>1 DEF UserLedger
  <2>3. ExtraCount(t)' = ExtraCount(t) /\ ExtraSlot(t)' = ExtraSlot(t)
    BY <2>1 DEF ExtraCount, ExtraSlot
  <2>4. Knows(t)'
    BY <2>1, <2>2, <1>7 DEF Owes, Knows, At
  <2> QED BY <2>1, <2>2, <2>3, <2>4, <1>4, <1>5 DEF Owes
<1> QED BY <1>1, <1>2, <1>6, <1>7, <1>8 DEF UserLedger

\* Goroutine t has user u to itself.
Alone(t, u) ==
  /\ Realtime /\ u \notin raced
  /\ sweep # u /\ \A o \in Threads \ {t} : th[o].user # u

(* A step of a goroutine keeps the books when it keeps those of a user     *)
(* whom no other goroutine serves.                                         *)
LEMMA LedgerStep ==
  ASSUME Sane, LedgerInv, NEW t \in Threads, NEW u \in Users, Local(t, u), th[t].user = u,
         Alone(t, u) /\ Owes(t) =>
           IF th'[t].user = u THEN Owes(t)' ELSE Balanced(u)'
  PROVE  LedgerInv'
<1> SUFFICES ASSUME Realtime, NEW v \in Users \ raced' PROVE UserLedger(v)'
  BY DEF LedgerInv
<1>1. v \notin raced /\ UserLedger(v)
  BY DEF Local, LedgerInv
<1>2. CASE v # u
  <2>1. \A o \in Threads : th[o].user = v \/ th'[o].user = v => th'[o] = th[o]
    BY <1>2, NoneOK DEF Local
  <2>2. /\ count'[v] = count[v] /\ outer'[v] = outer[v] /\ ips'[v] = ips[v]
        /\ open'[v] = open[v] /\ sweep' = sweep
    BY <1>2 DEF Local
  <2> QED BY <1>1, <2>1, <2>2, LedgerElsewhere
<1>3. CASE v = u
  <2>1. Owes(t) /\ \A o \in Threads \ {t} : th[o].user # u
    BY <1>1, <1>3 DEF UserLedger
  <2>2. sweep # u
    BY <1>1, <1>3 DEF UserLedger
  <2>3. Alone(t, u)
    BY <1>1, <1>3, <2>1, <2>2 DEF Alone
  <2>4. IF th'[t].user = u THEN Owes(t)' ELSE Balanced(u)'
    BY <2>1, <2>3
  <2>5. sweep' # u /\ \A o \in Threads \ {t} : th'[o].user # u
    BY <2>1, <2>2 DEF Local
  <2>6. CASE th'[t].user = u
    BY <1>3, <2>4, <2>5, <2>6 DEF UserLedger, Quiet
  <2>7. CASE th'[t].user # u
    <3>1. \A o \in Threads : th'[o].user # u
      BY <2>5, <2>7
    <3> QED BY <1>3, <2>4, <2>5, <2>7, <3>1 DEF UserLedger
  <2> QED BY <2>6, <2>7
<1> QED BY <1>2, <1>3

(* The numbers of the open connections.                                    *)
LEMMA OpenAfter ==
  ASSUME Typed, Numbered, NEW u \in Users, NEW i \in IPs
  PROVE  /\ open'[u] = open[u] => OpenOf(u)' = OpenOf(u)
         /\ open'[u] = [open[u] EXCEPT ![i] = @ + 1] => OpenOf(u)' = OpenOf(u) + 1
         /\ open[u][i] > 0 /\ open'[u] = [open[u] EXCEPT ![i] = @ - 1] =>
              OpenOf(u)' + 1 = OpenOf(u)
         /\ OpenOf(u) \in Nat
<1>1. OpenConns(u) = Conns(open[u]) /\ OpenConns(u)' = Conns(open'[u])
  BY DEF OpenConns, Conns
<1>2. open[u] \in [IPs -> Nat] /\ IsFiniteSet(Conns(open[u]))
  BY <1>1 DEF Typed, Numbered
<1>3. OpenOf(u) = Cardinality(Conns(open[u])) /\ OpenOf(u)' = Cardinality(Conns(open'[u]))
  BY <1>1 DEF OpenOf
<1>4. Cardinality(Conns([open[u] EXCEPT ![i] = @ + 1])) = Cardinality(Conns(open[u])) + 1
  BY <1>2, OneMore
<1>5. open[u][i] > 0 =>
        Cardinality(Conns([open[u] EXCEPT ![i] = @ - 1])) + 1 = Cardinality(Conns(open[u]))
  BY <1>2, OneLess
<1>6. OpenOf(u) \in Nat
  BY <1>2, <1>3, FS_CardinalityType
<1> QED BY <1>3, <1>4, <1>5, <1>6

(* A user's connections stay finite in number.                             *)
LEMMA NumberedStep ==
  ASSUME Typed, Numbered,
         \/ open' = open
         \/ \E u \in Users, i \in IPs : open' = [open EXCEPT ![u][i] = @ + 1]
         \/ \E u \in Users, i \in IPs : open[u][i] > 0 /\ open' = [open EXCEPT ![u][i] = @ - 1]
  PROVE  Numbered'
<1> SUFFICES ASSUME NEW v \in Users PROVE IsFiniteSet(OpenConns(v)')
  BY DEF Numbered
<1>1. OpenConns(v) = Conns(open[v]) /\ OpenConns(v)' = Conns(open'[v])
  BY DEF OpenConns, Conns
<1>2. open[v] \in [IPs -> Nat] /\ IsFiniteSet(Conns(open[v]))
  BY <1>1 DEF Typed, Numbered
<1>3. CASE open'[v] = open[v]
  BY <1>1, <1>2, <1>3
<1>4. ASSUME NEW i \in IPs, open'[v] = [open[v] EXCEPT ![i] = @ + 1]
      PROVE  IsFiniteSet(OpenConns(v)')
  BY <1>1, <1>2, <1>4, OneMore
<1>5. ASSUME NEW i \in IPs, open[v][i] > 0, open'[v] = [open[v] EXCEPT ![i] = @ - 1]
      PROVE  IsFiniteSet(OpenConns(v)')
  BY <1>1, <1>2, <1>5, OneLess
<1>6. \/ open'[v] = open[v]
      \/ \E i \in IPs : open'[v] = [open[v] EXCEPT ![i] = @ + 1]
      \/ \E i \in IPs : open[v][i] > 0 /\ open'[v] = [open[v] EXCEPT ![i] = @ - 1]
  BY DEF Typed
<1> QED BY <1>3, <1>4, <1>5, <1>6

(* A step of a goroutine for its user keeps the invariant when it stores   *)
(* what was claimed and pays what it owes.                                 *)
LEMMA ConnStep ==
  ASSUME ConnInv, NEW t \in Threads, NEW u \in Users, Local(t, u), th[t].user = u,
         Typed', Shaped(t)', outer[u] => outer'[u], ~outer'[u] => Online(u)' = {},
         Online(u)' \subseteq Claimed(u),
         th'[t].user = u /\ th'[t].at \in Passed => th'[t].ip \in Claimed(u),
         \/ open' = open
         \/ \E v \in Users, i \in IPs : open' = [open EXCEPT ![v][i] = @ + 1]
         \/ \E v \in Users, i \in IPs : open[v][i] > 0 /\ open' = [open EXCEPT ![v][i] = @ - 1],
         Alone(t, u) /\ Owes(t) => IF th'[t].user = u THEN Owes(t)' ELSE Balanced(u)'
  PROVE  ConnInv'
<1>1. Sane /\ ClaimsInv /\ Numbered /\ LedgerInv /\ Typed
  BY DEF ConnInv, Sane
<1>2. Sane'
  BY <1>1, SaneStep
<1>3. ClaimsInv'
  BY <1>1, <1>2, ClaimsStep
<1>4. Numbered'
  BY <1>1, NumberedStep
<1>5. LedgerInv'
  BY <1>1, LedgerStep
<1> QED BY <1>2, <1>3, <1>4, <1>5 DEF ConnInv

(* A busy goroutine has a user and an IP.                                  *)
LEMMA BusyThread ==
  ASSUME Sane, NEW t \in Threads, th[t].at # "idle"
  PROVE  /\ th[t] \in Thread /\ Shaped(t)
         /\ th[t].user \in Users /\ th[t].ip \in IPs /\ th[t].user # None
<1>1. th[t] \in Thread /\ Shaped(t)
  BY DEF Sane, Typed
<1> QED BY <1>1, NoneOK DEF Shaped, At

\* What is stored for the users, and by whom it was seen.
Books == <<count, outer, ips, sweep, raced, connects>>

(* The goroutine goes on within its call and stores nothing.               *)
LEMMA Advance ==
  ASSUME ConnInv, NEW t \in Threads, th[t].at # "idle", UNCHANGED <<Books, open>>,
         NEW r \in Thread, th' = [th EXCEPT ![t] = r],
         r.at # "idle", r.user = th[t].user, r.ip = th[t].ip,
         r.at = "delStoreCount" => r.seen > 0,
         r.inner = "attached" => outer[th[t].user],
         r.at \in Passed => th[t].ip \in Claimed(th[t].user),
         Alone(t, th[t].user) /\ Owes(t) => Owes(t)'
  PROVE  ConnInv'
<1>1. Sane /\ Typed
  BY DEF ConnInv, Sane
<1>2. PICK u \in Users : u = th[t].user /\ u # None /\ th[t] \in Thread /\ th[t].ip \in IPs
  BY <1>1, BusyThread
<1>3. th'[t] = r /\ (\A o \in Threads \ {t} : th'[o] = th[o]) /\ th' \in [Threads -> Thread]
  BY <1>1 DEF Typed
<1>4. count' = count /\ outer' = outer /\ ips' = ips /\ sweep' = sweep /\ raced' = raced
      /\ connects' = connects /\ open' = open
  BY DEF Books
<1>5. Typed'
  BY <1>1, <1>3, <1>4 DEF Typed
<1>6. Shaped(t)'
  BY <1>2, <1>3, <1>4 DEF Shaped, At
<1>7. Local(t, u)
  BY <1>2, <1>3, <1>4 DEF Local
<1>8. Online(u)' = Online(u) /\ (~outer'[u] => Online(u)' = {}) /\ Online(u)' \subseteq Claimed(u)
  BY <1>1, <1>2, <1>4 DEF Online, Sane, Claimed
<1>9. th'[t].user = u /\ th'[t].ip = th[t].ip
  BY <1>2, <1>3
<1>10. th'[t].user = u /\ th'[t].at \in Passed => th'[t].ip \in Claimed(u)
  BY <1>3
<1>11. Alone(t, u) /\ Owes(t) => IF th'[t].user = u THEN Owes(t)' ELSE Balanced(u)'
  BY <1>9
<1> QED BY <1>2, <1>4, <1>5, <1>6, <1>7, <1>8, <1>10, <1>11, ConnStep

(* The goroutine returns from its call and stores nothing.                 *)
LEMMA Leave ==
  ASSUME ConnInv, NEW t \in Threads, th[t].at # "idle", UNCHANGED <<Books, open>>,
         th' = [th EXCEPT ![t] = Idle],
         Alone(t, th[t].user) /\ Owes(t) => Balanced(th[t].user)
  PROVE  ConnInv'
<1>1. Sane /\ Typed
  BY DEF ConnInv, Sane
<1>2. PICK u \in Users : u = th[t].user /\ u # None /\ th[t] \in Thread /\ th[t].ip \in IPs
  BY <1>1, BusyThread
<1>3. Idle \in Thread /\ Idle.user = None /\ Idle.at = "idle" /\ Idle.inner = None
  BY DEF Idle, Thread, Labels
<1>4. th'[t] = Idle /\ (\A o \in Threads \ {t} : th'[o] = th[o]) /\ th' \in [Threads -> Thread]
  BY <1>1, <1>3 DEF Typed
<1>5. count' = count /\ outer' = outer /\ ips' = ips /\ sweep' = sweep /\ raced' = raced
      /\ connects' = connects /\ open' = open
  BY DEF Books
<1>6. Typed'
  BY <1>1, <1>4, <1>5 DEF Typed
<1>7. Shaped(t)'
  BY <1>3, <1>4 DEF Shaped, At, None
<1>8. Local(t, u)
  BY <1>2, <1>3, <1>4, <1>5 DEF Local
<1>9. Online(u)' = Online(u) /\ (~outer'[u] => Online(u)' = {}) /\ Online(u)' \subseteq Claimed(u)
  BY <1>1, <1>2, <1>5 DEF Online, Sane, Claimed
<1>10. th'[t].user # u
  BY <1>2, <1>3, <1>4
<1>11. Balanced(u)' <=> Balanced(u)
  BY <1>5 DEF Balanced, CountIs, SlotIs, OpenOf, OpenConns
<1>12. Alone(t, u) /\ Owes(t) => IF th'[t].user = u THEN Owes(t)' ELSE Balanced(u)'
  BY <1>2, <1>10, <1>11
<1> QED BY <1>2, <1>5, <1>6, <1>7, <1>8, <1>9, <1>10, <1>12, ConnStep

(* With nothing left to store or take off, the books are balanced.         *)
LEMMA OwesNothing ==
  ASSUME NEW t \in Threads, Owes(t), ExtraCount(t) = 0, ExtraSlot(t) = 0
  PROVE  Balanced(th[t].user)
BY DEF Owes, Balanced

(* What is owed does not change while nothing is stored.                   *)
LEMMA OwesStill ==
  ASSUME NEW t \in Threads, Owes(t), UNCHANGED <<Books, open>>,
         th'[t].user = th[t].user, th'[t].ip = th[t].ip,
         ConnLimit # 0 => ExtraCount(t)' = ExtraCount(t),
         IPLimit # 0 => ExtraSlot(t)' = ExtraSlot(t),
         Knows(t)'
  PROVE  Owes(t)'
<1> DEFINE u == th[t].user
<1>1. count' = count /\ ips' = ips /\ open' = open /\ th'[t].user = u
  BY DEF Books
<1>2. OpenOf(u)' = OpenOf(u)
  BY <1>1 DEF OpenOf, OpenConns
<1>3. CountIs(u, ExtraCount(t))'
  BY <1>1, <1>2 DEF Owes, CountIs
<1>4. ASSUME NEW i \in IPs PROVE SlotIs(u, i, IF i = th[t].ip THEN ExtraSlot(t) ELSE 0)'
  BY <1>1 DEF Owes, SlotIs
<1> QED BY <1>1, <1>3, <1>4 DEF Owes

-----------------------------------------------------------------------------
(* AddConnCount, phase 1.                                                  *)

(* CheckCount: a refused goroutine leaves with nothing stored.             *)
LEMMA CheckCountStep ==
  ASSUME ConnInv, NEW t \in Threads, CheckCount(t)
  PROVE  ConnInv'
<1>1. Sane /\ Typed /\ th[t].at = "checkCount"
  BY DEF ConnInv, Sane, CheckCount, At
<1>2. th[t] \in Thread /\ Shaped(t) /\ th[t].user \in Users /\ th[t].ip \in IPs
  BY <1>1, BusyThread
<1>3. ExtraCount(t) = 0 /\ ExtraSlot(t) = 0
  BY <1>1 DEF ExtraCount, ExtraSlot
<1>4. UNCHANGED <<Books, open>>
  BY DEF CheckCount, Books, Reject
<1>5. CASE th' = [th EXCEPT ![t] = Idle]
  BY <1>1, <1>3, <1>4, <1>5, OwesNothing, Leave
<1>6. CASE Goto(t, "checkIP")
  <2> DEFINE r == [th[t] EXCEPT !.at = "checkIP"]
  <2>1. r \in Thread /\ r.at = "checkIP" /\ r.user = th[t].user /\ r.ip = th[t].ip
        /\ r.inner = th[t].inner
    BY <1>2 DEF Thread, Labels
  <2>2. th' = [th EXCEPT ![t] = r] /\ th'[t] = r
    BY <1>1, <1>6 DEF Goto, Typed
  <2> HIDE DEF r
  <2>3. ExtraCount(t)' = 0 /\ ExtraSlot(t)' = 0
    BY <2>1, <2>2 DEF ExtraCount, ExtraSlot
  <2>4. Knows(t)'
    BY <2>1, <2>2 DEF Knows, At, Passed
  <2>5. Owes(t) => Owes(t)'
    BY <1>3, <1>4, <2>1, <2>2, <2>3, <2>4, OwesStill
  <2>6. r.inner = "attached" => outer[th[t].user]
    BY <1>2, <2>1 DEF Shaped
  <2>7. r.at \notin Passed /\ r.at # "idle" /\ r.at # "delStoreCount"
    BY <2>1 DEF Passed
  <2> QED BY <1>1, <1>4, <2>1, <2>2, <2>5, <2>6, <2>7, Advance
<1> QED BY <1>5, <1>6 DEF CheckCount, Reject

(* One more goroutine past the check: each of the others has claimed one   *)
(* IP at most, beyond those that were online when it passed.               *)
LEMMA OneClaimMore ==
  ASSUME Sane, NEW t \in Threads, NEW u \in Users, NEW i \in IPs, t \notin Storers(u),
         IPLimit # 0, Cardinality(Online(u)) < IPLimit
  PROVE  Cardinality(Claimed(u) \cup {i}) <= IPLimit + Cardinality(Threads) - 1
<1> DEFINE S == Storers(u)
           F == { th[o].ip : o \in S }
           f == [o \in S |-> th[o].ip]
<1>1. S \subseteq Threads \ {t}
  BY DEF Storers
<1>2. /\ IsFiniteSet(Threads \ {t}) /\ Cardinality(Threads \ {t}) = Cardinality(Threads) - 1
      /\ Cardinality(Threads) \in Nat
  BY SetsOK, FS_RemoveElement, FS_CardinalityType
<1>3. IsFiniteSet(S) /\ Cardinality(S) <= Cardinality(Threads) - 1 /\ Cardinality(S) \in Nat
  BY <1>1, <1>2, FS_Subset, FS_CardinalityType
<1>4. f \in Surjection(S, F)
  BY DEF Surjection
<1>5. IsFiniteSet(F) /\ Cardinality(F) <= Cardinality(S) /\ Cardinality(F) \in Nat
  <2> HIDE DEF S, F, f
  <2> QED BY <1>3, <1>4, FS_Surjection, FS_CardinalityType
<1>6. Claimed(u) = Online(u) \cup F
  BY DEF Claimed
<1>7. IsFiniteSet(Online(u)) /\ Cardinality(Online(u)) \in Nat
  BY SetsOK, FS_Subset, FS_CardinalityType DEF Online
<1> HIDE DEF F
<1>8. /\ IsFiniteSet(Online(u) \cap F) /\ Cardinality(Online(u) \cap F) \in Nat
  BY <1>5, FS_Subset, FS_CardinalityType
<1>9. /\ IsFiniteSet(Claimed(u)) /\ Cardinality(Claimed(u)) \in Nat
      /\ Cardinality(Claimed(u)) = Cardinality(Online(u)) + Cardinality(F)
                                   - Cardinality(Online(u) \cap F)
  BY <1>5, <1>6, <1>7, FS_Union, FS_CardinalityType
<1>10. Cardinality(Claimed(u) \cup {i}) <= Cardinality(Claimed(u)) + 1
       /\ Cardinality(Claimed(u) \cup {i}) \in Nat
  <2>1. IsFiniteSet(Claimed(u) \cup {i})
        /\ Cardinality(Claimed(u) \cup {i})
             = IF i \in Claimed(u) THEN Cardinality(Claimed(u)) ELSE Cardinality(Claimed(u)) + 1
    BY <1>9, FS_AddElement
  <2> QED BY <1>9, <2>1
<1> QED BY <1>2, <1>3, <1>5, <1>7, <1>8, <1>9, <1>10, LimitsOK

(* CheckIP lets the goroutine pass: its IP is online or one is free.       *)
LEMMA PassIP ==
  ASSUME ConnInv, NEW t \in Threads, At(t, "checkIP"), UNCHANGED <<Books, open>>,
         NEW r \in Thread, th' = [th EXCEPT ![t] = r],
         r.at \in {"loadCount", "storeIP"}, r.user = th[t].user, r.ip = th[t].ip,
         r.inner = "attached" => outer[th[t].user],
         ~(IPLimit # 0 /\ outer[th[t].user] /\ TooManyIPs(th[t].user, th[t].ip)),
         Alone(t, th[t].user) /\ Owes(t) => Owes(t)'
  PROVE  ConnInv'
<1>1. Sane /\ Typed /\ ClaimsInv /\ Numbered /\ LedgerInv /\ th[t].at = "checkIP"
  BY DEF ConnInv, Sane, At
<1>2. PICK u \in Users : u = th[t].user /\ u # None /\ th[t] \in Thread /\ th[t].ip \in IPs
  BY <1>1, BusyThread
<1>3. PICK i \in IPs : i = th[t].ip
  BY <1>2
<1>4. r.at # "idle" /\ r.at # "delStoreCount"
  OBVIOUS
<1>5. CASE i \in Claimed(u)
  BY <1>1, <1>2, <1>3, <1>4, <1>5, Advance
<1>6. CASE i \notin Claimed(u)
  <2>1. th'[t] = r /\ (\A o \in Threads \ {t} : th'[o] = th[o]) /\ th' \in [Threads -> Thread]
    BY <1>1 DEF Typed
  <2>2. count' = count /\ outer' = outer /\ ips' = ips /\ sweep' = sweep /\ raced' = raced
        /\ connects' = connects /\ open' = open
    BY DEF Books
  <2>3. Typed'
    BY <1>1, <2>1, <2>2 DEF Typed
  <2>4. Shaped(t)'
    BY <1>2, <1>3, <1>4, <2>1, <2>2 DEF Shaped, At
  <2>5. Local(t, u)
    BY <1>2, <2>1, <2>2 DEF Local
  <2>6. \A v \in Users : Online(v)' = Online(v)
    BY <2>2 DEF Online
  <2>7. Sane'
    BY <1>1, <1>2, <2>2, <2>3, <2>4, <2>5, <2>6, SaneStep DEF Sane
  <2>8. ASSUME NEW v \in Users, v # u PROVE Claimed(v)' = Claimed(v)
    <3>1. Storers(v)' = Storers(v)
      BY <1>2, <2>1, <2>8 DEF Storers
    <3>2. \A o \in Storers(v) : o \in Threads /\ th'[o] = th[o]
      BY <1>2, <2>1, <2>8 DEF Storers
    <3> QED BY <2>6, <3>1, <3>2 DEF Claimed
  <2>9. Claimed(u)' \subseteq Claimed(u) \cup {i}
    <3>1. ASSUME NEW o \in Threads, th'[o].user = u, th'[o].at \in Passed
          PROVE  th'[o].ip \in Claimed(u) \cup {i}
      <4>1. CASE o = t
        BY <1>3, <2>1, <4>1
      <4>2. CASE o # t
        BY <2>1, <3>1, <4>2 DEF Claimed, Storers
      <4> QED BY <4>1, <4>2
    <3>2. \A o \in Storers(u)' : o \in Threads /\ th'[o].user = u /\ th'[o].at \in Passed
      BY DEF Storers
    <3>3. Claimed(u)' = Online(u)' \cup { th'[o].ip : o \in Storers(u)' }
      BY DEF Claimed
    <3>4. Online(u)' \subseteq Claimed(u)
      BY <2>6 DEF Claimed
    <3> QED BY <3>1, <3>2, <3>3, <3>4
  <2>10. ClaimsInv'
    <3> SUFFICES ASSUME IPLimit # 0, NEW v \in Users
                 PROVE  Cardinality(Claimed(v)') <= IPLimit + Cardinality(Threads) - 1
      BY DEF ClaimsInv
    <3>1. CASE v # u
      BY <1>1, <2>8, <3>1 DEF ClaimsInv
    <3>2. CASE v = u
      <4>1. Cardinality(Online(u)) < IPLimit
        <5>1. CASE outer[u]
          <6>1. i \notin Online(u)
            BY <1>6 DEF Claimed
          <6>2. IsFiniteSet(Online(u)) /\ Cardinality(Online(u)) \in Nat
            BY SetsOK, FS_Subset, FS_CardinalityType DEF Online
          <6> QED BY <1>2, <1>3, <5>1, <6>1, <6>2, LimitsOK DEF TooManyIPs
        <5>2. CASE ~outer[u]
          BY <1>1, <5>2, FS_EmptySet, LimitsOK DEF Sane
        <5> QED BY <5>1, <5>2
      <4>2. t \notin Storers(u)
        BY <1>1 DEF Storers, Passed
      <4>3. Cardinality(Claimed(u) \cup {i}) <= IPLimit + Cardinality(Threads) - 1
        BY <1>1, <4>1, <4>2, OneClaimMore
      <4>4. IsFiniteSet(Claimed(u) \cup {i}) /\ Cardinality(Claimed(u) \cup {i}) \in Nat
        BY <1>1, ClaimsFinite, FS_AddElement, FS_CardinalityType
      <4>5. Cardinality(Claimed(u)') <= Cardinality(Claimed(u) \cup {i})
            /\ Cardinality(Claimed(u)') \in Nat
        BY <2>9, <4>4, FS_Subset, FS_CardinalityType
      <4>6. Cardinality(Threads) \in Nat
        BY SetsOK, FS_CardinalityType
      <4> QED BY <3>2, <4>3, <4>4, <4>5, <4>6, LimitsOK
    <3> QED BY <3>1, <3>2
  <2>11. Numbered'
    BY <1>1, <2>2, NumberedStep
  <2>12. LedgerInv'
    BY <1>1, <1>2, <2>1, <2>5, LedgerStep
  <2> QED BY <2>7, <2>10, <2>11, <2>12 DEF ConnInv
<1> QED BY <1>5, <1>6

(* CheckIP.                                                                *)
LEMMA CheckIPStep ==
  ASSUME ConnInv, NEW t \in Threads, CheckIP(t)
  PROVE  ConnInv'
<1>1. Sane /\ Typed /\ th[t].at = "checkIP"
  BY DEF ConnInv, Sane, CheckIP, At
<1>2. th[t] \in Thread /\ Shaped(t) /\ th[t].user \in Users /\ th[t].ip \in IPs
  BY <1>1, BusyThread
<1>3. ExtraCount(t) = 0 /\ ExtraSlot(t) = 0
  BY <1>1 DEF ExtraCount, ExtraSlot
<1>4. UNCHANGED <<Books, open>>
  BY DEF CheckIP, Books, Reject
<1> DEFINE attached == IPLimit # 0 /\ outer[th[t].user]
           inner == IF attached THEN "attached" ELSE None
           isOnline == attached /\ th[t].ip \in Online(th[t].user)
<1>5. CASE th' = [th EXCEPT ![t] = Idle]
  BY <1>1, <1>3, <1>4, <1>5, OwesNothing, Leave
<1>6. CASE ~(attached /\ TooManyIPs(th[t].user, th[t].ip))
  <2>1. th' = [th EXCEPT ![t].at = Mutate(t), ![t].inner = inner, ![t].online = isOnline]
    BY <1>6 DEF CheckIP
  <2> DEFINE r == [th[t] EXCEPT !.at = Mutate(t), !.inner = inner, !.online = isOnline]
  <2>2. Mutate(t) \in {"loadCount", "storeIP"}
        /\ (Mutate(t) = "loadCount" <=> ConnLimit # 0 /\ th[t].tcp)
    BY DEF Mutate
  <2>3. inner \in {None, "attached"} /\ isOnline \in BOOLEAN /\ (inner = "attached" <=> attached)
    BY DEF None
  <2> HIDE DEF inner, isOnline
  <2>4. /\ r \in Thread /\ r.at = Mutate(t) /\ r.user = th[t].user /\ r.ip = th[t].ip
        /\ r.inner = inner /\ r.tcp = th[t].tcp
    BY <1>2, <2>2, <2>3 DEF Thread, Labels
  <2>5. r.online = isOnline
    BY <1>2 DEF Thread
  <2>6. th' = [th EXCEPT ![t] = r] /\ th'[t] = r
    BY <1>1, <2>1 DEF Typed
  <2> HIDE DEF r
  <2>7. r.at \in {"loadCount", "storeIP"}
    BY <2>2, <2>4
  <2>8. ConnLimit # 0 => ExtraCount(t)' = 0
    BY <2>2, <2>4, <2>6 DEF ExtraCount
  <2>9. ExtraSlot(t)' = 0
    BY <2>6, <2>7 DEF ExtraSlot
  <2>10. Knows(t)'
    <3>1. IPLimit # 0 =>
            /\ r.inner \in {None, "attached"} /\ (r.inner = None => ~outer[th[t].user])
      BY <2>3, <2>4 DEF None
    <3>2. IPLimit # 0 => (r.online <=> ips[th[t].user][th[t].ip] # 0)
      BY <1>1, <1>2, <2>5 DEF isOnline, Online, Sane
    <3>3. outer' = outer /\ ips' = ips
      BY <1>4 DEF Books
    <3> QED BY <2>2, <2>4, <2>6, <2>7, <3>1, <3>2, <3>3 DEF Knows, At, Passed
  <2>11. Owes(t) => Owes(t)'
    BY <1>3, <1>4, <2>4, <2>6, <2>8, <2>9, <2>10, OwesStill
  <2>12. r.inner = "attached" => outer[th[t].user]
    BY <2>3, <2>4
  <2> QED BY <1>1, <1>4, <1>6, <2>4, <2>6, <2>7, <2>11, <2>12, PassIP DEF At
<1> QED BY <1>5, <1>6 DEF CheckIP, Reject

-----------------------------------------------------------------------------
(* AddConnCount, phase 2.                                                  *)

(* A goroutine past the check has a claim on its IP.                       *)
LEMMA HasClaim ==
  ASSUME NEW t \in Threads, th[t].at \in Passed
  PROVE  th[t].ip \in Claimed(th[t].user)
BY DEF Claimed, Storers

(* LoadCount.                                                              *)
LEMMA LoadCountStep ==
  ASSUME ConnInv, NEW t \in Threads, LoadCount(t)
  PROVE  ConnInv'
<1>1. Sane /\ Typed /\ th[t].at = "loadCount"
  BY DEF ConnInv, Sane, LoadCount, At
<1>2. th[t] \in Thread /\ Shaped(t) /\ th[t].user \in Users /\ th[t].ip \in IPs
  BY <1>1, BusyThread
<1>3. UNCHANGED <<Books, open>>
  BY DEF LoadCount, Books
<1> DEFINE r == [th[t] EXCEPT !.at = "storeCount", !.seen = count[th[t].user]]
<1>4. count[th[t].user] \in Nat
  BY <1>1, <1>2 DEF Typed
<1>5. /\ r \in Thread /\ r.at = "storeCount" /\ r.user = th[t].user /\ r.ip = th[t].ip
      /\ r.inner = th[t].inner /\ r.tcp = th[t].tcp /\ r.seen = count[th[t].user]
  BY <1>2, <1>4 DEF Thread, Labels
<1>6. r.online = th[t].online
  BY <1>2 DEF Thread
<1>7. th' = [th EXCEPT ![t] = r] /\ th'[t] = r
  BY <1>1 DEF LoadCount, Typed
<1> HIDE DEF r
<1>8. ExtraCount(t) = 0 /\ ExtraSlot(t) = 0 /\ ExtraCount(t)' = 0 /\ ExtraSlot(t)' = 0
  BY <1>1, <1>5, <1>7 DEF ExtraCount, ExtraSlot
<1>9. ASSUME Owes(t) PROVE Owes(t)'
  <2>1. Knows(t)
    BY <1>9 DEF Owes
  <2>2. count' = count /\ outer' = outer /\ ips' = ips
    BY <1>3 DEF Books
  <2>3. Knows(t)'
    BY <1>1, <1>5, <1>6, <1>7, <2>1, <2>2 DEF Knows, At, Passed
  <2> QED BY <1>3, <1>5, <1>7, <1>8, <1>9, <2>3, OwesStill
<1>10. th[t].ip \in Claimed(th[t].user)
  BY <1>1, HasClaim DEF Passed
<1>11. r.inner = "attached" => outer[th[t].user]
  BY <1>2, <1>5 DEF Shaped
<1> QED BY <1>1, <1>3, <1>5, <1>7, <1>9, <1>10, <1>11, Advance

(* StoreCount.                                                             *)
LEMMA StoreCountStep ==
  ASSUME ConnInv, NEW t \in Threads, StoreCount(t)
  PROVE  ConnInv'
<1>1. Sane /\ Typed /\ th[t].at = "storeCount"
  BY DEF ConnInv, Sane, StoreCount, At
<1>2. PICK u \in Users : u = th[t].user /\ u # None /\ th[t] \in Thread
                         /\ th[t].ip \in IPs /\ Shaped(t)
  BY <1>1, BusyThread
<1> DEFINE r == [th[t] EXCEPT !.at = "storeIP"]
<1>3. /\ r \in Thread /\ r.at = "storeIP" /\ r.user = u /\ r.ip = th[t].ip
      /\ r.inner = th[t].inner /\ r.tcp = th[t].tcp /\ r.seen = th[t].seen
  BY <1>2 DEF Thread, Labels
<1>4. r.online = th[t].online
  BY <1>2 DEF Thread
<1>5. th' = [th EXCEPT ![t] = r] /\ th'[t] = r /\ (\A o \in Threads \ {t} : th'[o] = th[o])
      /\ th' \in [Threads -> Thread]
  BY <1>1, <1>3 DEF StoreCount, Goto, Typed
<1> HIDE DEF r
<1>6. th[t].seen \in Nat
  BY <1>2 DEF Thread
<1>7. /\ count' \in [Users -> Nat] /\ count'[u] = th[t].seen + 1
      /\ \A v \in Users \ {u} : count'[v] = count[v]
  BY <1>1, <1>2, <1>6 DEF StoreCount, Typed
<1>8. outer' = outer /\ ips' = ips /\ sweep' = sweep /\ raced' = raced
      /\ connects' = connects /\ open' = open
  BY DEF StoreCount
<1>9. Typed'
  BY <1>1, <1>5, <1>7, <1>8 DEF Typed
<1>10. Shaped(t)'
  BY <1>2, <1>3, <1>5, <1>8 DEF Shaped, At
<1>11. Local(t, u)
  BY <1>2, <1>3, <1>5, <1>7, <1>8 DEF Local
<1>12. Online(u)' = Online(u) /\ (~outer'[u] => Online(u)' = {}) /\ Online(u)' \subseteq Claimed(u)
  BY <1>1, <1>8 DEF Online, Sane, Claimed
<1>13. th'[t].ip \in Claimed(u)
  BY <1>1, <1>2, <1>3, <1>5, HasClaim DEF Passed
<1>14. ASSUME Owes(t) PROVE Owes(t)'
  <2>1. Knows(t) /\ CountIs(u, ExtraCount(t))
        /\ \A i \in IPs : SlotIs(u, i, IF i = th[t].ip THEN ExtraSlot(t) ELSE 0)
    BY <1>2, <1>14 DEF Owes
  <2>2. th[t].seen = count[u] /\ ConnLimit # 0 /\ th[t].tcp
    BY <1>1, <1>2, <2>1 DEF Knows
  <2>3. ExtraCount(t) = 0 /\ ExtraSlot(t) = 0
    BY <1>1 DEF ExtraCount, ExtraSlot
  <2>4. ExtraCount(t)' = 1 /\ ExtraSlot(t)' = 0
    BY <1>3, <1>5, <2>2 DEF ExtraCount, ExtraSlot
  <2>5. OpenOf(u)' = OpenOf(u) /\ OpenOf(u) \in Nat
    BY <1>1, <1>2, <1>8, OpenAfter DEF ConnInv
  <2>6. CountIs(u, 1)'
    BY <1>7, <2>1, <2>2, <2>3, <2>5 DEF CountIs
  <2>7. ASSUME NEW i \in IPs PROVE SlotIs(u, i, 0)'
    BY <1>8, <2>1, <2>3 DEF SlotIs
  <2>8. Knows(t)'
    BY <1>1, <1>2, <1>3, <1>4, <1>5, <1>8, <2>1 DEF Knows, At, Passed
  <2> QED BY <1>3, <1>5, <2>4, <2>6, <2>7, <2>8 DEF Owes
<1>15. Alone(t, u) /\ Owes(t) => IF th'[t].user = u THEN Owes(t)' ELSE Balanced(u)'
  BY <1>3, <1>5, <1>14
<1> QED BY <1>2, <1>8, <1>9, <1>10, <1>11, <1>12, <1>13, <1>15, ConnStep

\* The connections an admission adds to IP j.
Gains(t, j) == IF th[t].tcp /\ j = th[t].ip THEN 1 ELSE 0

(* The goroutine is admitted: its connection is open, and it had entered   *)
(* it in the books.                                                        *)
LEMMA AdmitStep ==
  ASSUME ConnInv, NEW t \in Threads, th[t].at # "idle", Admit(t),
         UNCHANGED <<count, sweep, raced, connects>>,
         outer' \in [Users -> BOOLEAN], ips' \in [Users -> [IPs -> Nat]],
         NEW u \in Users, u = th[t].user,
         \A v \in Users \ {u} : outer'[v] = outer[v] /\ ips'[v] = ips[v],
         outer[u] => outer'[u], ~outer'[u] => Online(u)' = {},
         Online(u)' \subseteq Claimed(u),
         Alone(t, u) /\ Owes(t) =>
           /\ ConnLimit # 0 => ExtraCount(t) = IF th[t].tcp THEN 1 ELSE 0
           /\ IPLimit # 0 => \A j \in IPs :
                ips'[u][j] \in {2 * (open[u][j] + Gains(t, j)), 2 * (open[u][j] + Gains(t, j)) + 1}
  PROVE  ConnInv'
<1>1. Sane /\ Typed /\ Numbered
  BY DEF ConnInv, Sane
<1>2. th[t] \in Thread /\ u # None /\ th[t].ip \in IPs /\ Shaped(t)
  BY <1>1, BusyThread
<1>3. PICK i \in IPs : i = th[t].ip
  BY <1>2
<1>4. Idle \in Thread /\ Idle.user = None /\ Idle.at = "idle" /\ Idle.inner = None
  BY DEF Idle, Thread, Labels
<1>5. th'[t] = Idle /\ (\A o \in Threads \ {t} : th'[o] = th[o]) /\ th' \in [Threads -> Thread]
  BY <1>1, <1>4 DEF Admit, Typed
<1>6. /\ ~th[t].tcp => open' = open
      /\ th[t].tcp => open' = [open EXCEPT ![u][i] = @ + 1]
  BY <1>3 DEF Admit
<1>7. open \in [Users -> [IPs -> Nat]]
  BY <1>1 DEF Typed
<1>8. open' \in [Users -> [IPs -> Nat]] /\ \A v \in Users \ {u} : open'[v] = open[v]
  <2>1. CASE ~th[t].tcp
    BY <1>6, <1>7, <2>1
  <2>2. CASE th[t].tcp
    <3>1. [open[u] EXCEPT ![i] = @ + 1] \in [IPs -> Nat]
      BY <1>7
    <3>2. open' = [open EXCEPT ![u] = [open[u] EXCEPT ![i] = @ + 1]]
      BY <1>6, <1>7, <2>2
    <3> QED BY <1>7, <3>1, <3>2
  <2> QED BY <2>1, <2>2
<1>9. Typed'
  BY <1>1, <1>5, <1>8 DEF Typed
<1>10. Shaped(t)'
  BY <1>4, <1>5 DEF Shaped, At, None
<1>11. Local(t, u)
  BY <1>4, <1>5, <1>8 DEF Local
<1>12. th'[t].user # u
  BY <1>2, <1>4, <1>5
<1>13. \A j \in IPs : open'[u][j] = open[u][j] + Gains(t, j)
  <2>1. CASE ~th[t].tcp
    BY <1>6, <1>7, <2>1 DEF Gains
  <2>2. CASE th[t].tcp
    <3>1. \A j \in IPs : open'[u][j] = IF j = i THEN open[u][j] + 1 ELSE open[u][j]
      <4>1. open'[u] = [open[u] EXCEPT ![i] = @ + 1] /\ open[u] \in [IPs -> Nat]
        BY <1>6, <1>7, <2>2
      <4> QED BY <4>1
    <3>2. \A j \in IPs : Gains(t, j) = IF j = i THEN 1 ELSE 0
      BY <1>3, <2>2 DEF Gains
    <3> QED BY <1>7, <3>1, <3>2
  <2> QED BY <2>1, <2>2
<1>14. ASSUME Alone(t, u), Owes(t) PROVE Balanced(u)'
  <2>1. /\ ConnLimit # 0 => ExtraCount(t) = IF th[t].tcp THEN 1 ELSE 0
        /\ IPLimit # 0 => \A j \in IPs :
             ips'[u][j] \in {2 * (open[u][j] + Gains(t, j)), 2 * (open[u][j] + Gains(t, j)) + 1}
        /\ CountIs(u, ExtraCount(t))
    BY <1>14 DEF Owes
  <2>2. OpenOf(u)' = OpenOf(u) + (IF th[t].tcp THEN 1 ELSE 0) /\ OpenOf(u) \in Nat
    <3>1. CASE ~th[t].tcp
      <4>1. open'[u] = open[u]
        BY <1>6, <3>1
      <4>2. OpenOf(u)' = OpenOf(u) /\ OpenOf(u) \in Nat
        BY <1>1, <1>3, <4>1, OpenAfter
      <4> QED BY <3>1, <4>2
    <3>2. CASE th[t].tcp
      <4>1. open'[u] = [open[u] EXCEPT ![i] = @ + 1]
        BY <1>6, <1>7, <3>2
      <4> QED BY <1>1, <3>2, <4>1, OpenAfter
    <3> QED BY <3>1, <3>2
  <2>3. CountIs(u, 0)'
    BY <2>1, <2>2 DEF CountIs
  <2>4. ASSUME NEW j \in IPs PROVE SlotIs(u, j, 0)'
    <3>1. open'[u][j] \in Nat /\ open'[u][j] = open[u][j] + Gains(t, j)
      BY <1>8, <1>13
    <3> QED BY <2>1, <3>1 DEF SlotIs
  <2> QED BY <2>3, <2>4 DEF Balanced
<1>15. Alone(t, u) /\ Owes(t) => IF th'[t].user = u THEN Owes(t)' ELSE Balanced(u)'
  BY <1>12, <1>14
<1>16. \/ open' = open
       \/ \E v \in Users, j \in IPs : open' = [open EXCEPT ![v][j] = @ + 1]
  BY <1>6
<1> QED BY <1>9, <1>10, <1>11, <1>12, <1>15, <1>16, ConnStep

(* StoreIP.                                                                *)
LEMMA StoreIPStep ==
  ASSUME ConnInv, NEW t \in Threads, StoreIP(t)
  PROVE  ConnInv'
<1>1. Sane /\ Typed /\ th[t].at = "storeIP"
  BY DEF ConnInv, Sane, StoreIP, At
<1>2. PICK u \in Users : u = th[t].user /\ u # None /\ th[t] \in Thread
                         /\ th[t].ip \in IPs /\ Shaped(t)
  BY <1>1, BusyThread
<1>3. PICK i \in IPs : i = th[t].ip
  BY <1>2
<1>4. count' = count /\ sweep' = sweep /\ raced' = raced /\ connects' = connects
  BY DEF StoreIP
<1>5. i \in Claimed(u)
  BY <1>1, <1>2, <1>3, HasClaim DEF Passed
<1>6. ExtraCount(t) = (IF th[t].tcp THEN 1 ELSE 0) /\ ExtraSlot(t) = 0
  BY <1>1 DEF ExtraCount, ExtraSlot
<1>7. /\ outer \in [Users -> BOOLEAN] /\ ips \in [Users -> [IPs -> Nat]]
      /\ open \in [Users -> [IPs -> Nat]]
  BY <1>1 DEF Typed
<1>8. CASE IPLimit = 0 /\ Admit(t) /\ UNCHANGED <<outer, ips>>
  <2>1. Online(u)' = Online(u) /\ (~outer'[u] => Online(u)' = {}) /\ Online(u)' \subseteq Claimed(u)
    BY <1>1, <1>8 DEF Online, Sane, Claimed
  <2> QED BY <1>1, <1>2, <1>4, <1>6, <1>7, <1>8, <2>1, AdmitStep
<1>9. CASE /\ IPLimit # 0 /\ th[t].inner = None /\ ~outer[u] /\ Admit(t)
           /\ outer' = [outer EXCEPT ![u] = TRUE]
           /\ ips' = [ips EXCEPT ![u] = [NoSlots EXCEPT ![i] = Slot(th[t].tcp)]]
  <2>1. Slot(th[t].tcp) \in {1, 2} /\ (Realtime => Slot(th[t].tcp) = IF th[t].tcp THEN 2 ELSE 1)
    BY DEF Slot
  <2> DEFINE new == [NoSlots EXCEPT ![i] = Slot(th[t].tcp)]
  <2>2. new \in [IPs -> Nat] /\ new[i] = Slot(th[t].tcp) /\ \A j \in IPs \ {i} : new[j] = 0
    BY <2>1 DEF NoSlots
  <2>3. ips' = [ips EXCEPT ![u] = new]
    BY <1>9
  <2> HIDE DEF new
  <2>4. outer' \in [Users -> BOOLEAN] /\ outer'[u] = TRUE
        /\ \A v \in Users \ {u} : outer'[v] = outer[v]
    BY <1>7, <1>9
  <2>5. ips' \in [Users -> [IPs -> Nat]] /\ ips'[u] = new
        /\ \A v \in Users \ {u} : ips'[v] = ips[v]
    BY <1>7, <2>2, <2>3
  <2>6. Online(u)' \subseteq {i}
    BY <2>2, <2>5 DEF Online
  <2>7. ASSUME Alone(t, u), Owes(t)
        PROVE  /\ ConnLimit # 0 => ExtraCount(t) = IF th[t].tcp THEN 1 ELSE 0
               /\ IPLimit # 0 => \A j \in IPs :
                    ips'[u][j] \in {2 * (open[u][j] + Gains(t, j)), 2 * (open[u][j] + Gains(t, j)) + 1}
    <3>1. ASSUME NEW j \in IPs
          PROVE  ips'[u][j] \in {2 * (open[u][j] + Gains(t, j)), 2 * (open[u][j] + Gains(t, j)) + 1}
      <4>1. ips[u][j] = 0
        BY <1>1, <1>9 DEF Sane, Online
      <4>2. ips[u][j] \in {2 * open[u][j], 2 * open[u][j] + 1} /\ open[u][j] \in Nat
        <5>1. open[u][j] \in Nat
          BY <1>7
        <5>2. SlotIs(u, j, 0)
          BY <1>2, <1>6, <2>7 DEF Owes
        <5> QED BY <1>9, <5>1, <5>2 DEF SlotIs
      <4>3. open[u][j] = 0
        BY <4>1, <4>2
      <4>4. Realtime
        BY <2>7 DEF Alone
      <4>5. CASE j = i
        BY <1>3, <2>1, <2>2, <2>5, <4>3, <4>4, <4>5 DEF Gains
      <4>6. CASE j # i
        BY <1>3, <2>2, <2>5, <4>3, <4>6 DEF Gains
      <4> QED BY <4>5, <4>6
    <3> QED BY <1>6, <3>1
  <2>8. Online(u)' \subseteq Claimed(u) /\ (outer[u] => outer'[u]) /\ (~outer'[u] => Online(u)' = {})
    BY <1>5, <2>4, <2>6
  <2>9. th[t].at # "idle" /\ Admit(t) /\ UNCHANGED <<count, sweep, raced, connects>>
    BY <1>1, <1>4, <1>9
  <2>10. \A v \in Users \ {u} : outer'[v] = outer[v] /\ ips'[v] = ips[v]
    BY <2>4, <2>5
  <2> QED BY <1>2, <2>4, <2>5, <2>7, <2>8, <2>9, <2>10, AdmitStep
<1>10. CASE /\ IPLimit # 0 /\ th[t].inner = None /\ outer[u]
            /\ th' = [th EXCEPT ![t].inner = "attached", ![t].at = "putIP"]
            /\ UNCHANGED <<outer, ips, open>>
  <2> DEFINE r == [th[t] EXCEPT !.inner = "attached", !.at = "putIP"]
  <2>1. /\ r \in Thread /\ r.at = "putIP" /\ r.user = th[t].user /\ r.ip = th[t].ip
        /\ r.inner = "attached"
    BY <1>2 DEF Thread, Labels
  <2>2. th' = [th EXCEPT ![t] = r]
    BY <1>1, <1>10 DEF Typed
  <2> HIDE DEF r
  <2>3. UNCHANGED <<Books, open>>
    BY <1>4, <1>10 DEF Books
  <2>4. ~Owes(t)
    BY <1>1, <1>2, <1>10 DEF Owes, Knows, Passed
  <2> QED BY <1>1, <1>2, <1>3, <1>5, <1>10, <2>1, <2>2, <2>3, <2>4, Advance
<1>11. CASE /\ IPLimit # 0 /\ th[t].inner # None
            /\ Goto(t, IF th[t].online /\ Realtime THEN "loadSlot" ELSE "putIP")
            /\ UNCHANGED <<outer, ips, open>>
  <2> DEFINE label == IF th[t].online /\ Realtime THEN "loadSlot" ELSE "putIP"
             r == [th[t] EXCEPT !.at = label]
  <2>1. label \in {"loadSlot", "putIP"} /\ (Realtime => (label = "loadSlot" <=> th[t].online))
    OBVIOUS
  <2> HIDE DEF label
  <2>2. /\ r \in Thread /\ r.at = label /\ r.user = th[t].user /\ r.ip = th[t].ip
        /\ r.inner = th[t].inner /\ r.tcp = th[t].tcp /\ r.seen = th[t].seen
    BY <1>2, <2>1 DEF Thread, Labels
  <2>3. r.online = th[t].online
    BY <1>2 DEF Thread
  <2>4. th' = [th EXCEPT ![t] = r] /\ th'[t] = r
    BY <1>1, <1>11 DEF Goto, Typed, label
  <2> HIDE DEF r
  <2>5. UNCHANGED <<Books, open>>
    BY <1>4, <1>11 DEF Books
  <2>6. ExtraCount(t)' = (IF th[t].tcp THEN 1 ELSE 0) /\ ExtraSlot(t)' = 0
    BY <2>1, <2>2, <2>4 DEF ExtraCount, ExtraSlot
  <2>7. ASSUME Alone(t, th[t].user), Owes(t) PROVE Owes(t)'
    <3>1. Knows(t) /\ Realtime
      BY <2>7 DEF Owes, Alone
    <3>2. outer' = outer /\ ips' = ips
      BY <1>11
    <3>3. th[t].inner = "attached" /\ (th[t].online <=> ips[u][th[t].ip] # 0)
      BY <1>1, <1>2, <1>11, <3>1 DEF Knows, Passed, At
    <3>4. Knows(t)'
      BY <1>2, <1>11, <2>1, <2>2, <2>3, <2>4, <3>1, <3>2, <3>3 DEF Knows, At, Passed, None
    <3> QED BY <1>6, <2>2, <2>4, <2>5, <2>6, <2>7, <3>4, OwesStill
  <2>8. r.inner = "attached" => outer[th[t].user]
    BY <1>2, <2>2 DEF Shaped
  <2> QED BY <1>1, <1>2, <1>3, <1>5, <2>1, <2>2, <2>4, <2>5, <2>7, <2>8, Advance
<1> QED BY <1>2, <1>3, <1>8, <1>9, <1>10, <1>11 DEF StoreIP

(* A store through the goroutine's pointer: into the current inner map, or *)
(* into one that nobody finds.                                             *)
LEMMA PutView ==
  ASSUME NEW t \in Threads, NEW u \in Users, NEW i \in IPs, NEW v \in Nat,
         Sane, th[t].at # "idle", u = th[t].user, i = th[t].ip, Put(t, v), outer' = outer
  PROVE  /\ ips' \in [Users -> [IPs -> Nat]]
         /\ \A w \in Users \ {u} : ips'[w] = ips[w]
         /\ th[t].inner # "attached" => ips' = ips
         /\ th[t].inner = "attached" =>
              ips'[u][i] = v /\ \A j \in IPs \ {i} : ips'[u][j] = ips[u][j]
         /\ Online(u)' \subseteq Online(u) \cup {i}
         /\ ~outer'[u] => Online(u)' = {}
<1>1. ips \in [Users -> [IPs -> Nat]] /\ Shaped(t) /\ (~outer[u] => Online(u) = {})
  BY DEF Sane, Typed
<1>2. CASE th[t].inner # "attached"
  <2>1. ips' = ips
    BY <1>2 DEF Put
  <2> QED BY <1>1, <1>2, <2>1 DEF Online
<1>3. CASE th[t].inner = "attached"
  <2>1. ips' = [ips EXCEPT ![u][i] = v]
    BY <1>3 DEF Put
  <2>2. ips' \in [Users -> [IPs -> Nat]] /\ ips'[u][i] = v
        /\ (\A j \in IPs \ {i} : ips'[u][j] = ips[u][j])
        /\ \A w \in Users \ {u} : ips'[w] = ips[w]
    BY <1>1, <2>1
  <2>3. outer'[u]
    BY <1>1, <1>3 DEF Shaped
  <2> QED BY <1>3, <2>2, <2>3 DEF Online
<1> QED BY <1>2, <1>3

(* PutIP.                                                                  *)
LEMMA PutIPStep ==
  ASSUME ConnInv, NEW t \in Threads, PutIP(t)
  PROVE  ConnInv'
<1>1. Sane /\ Typed /\ th[t].at = "putIP"
  BY DEF ConnInv, Sane, PutIP, At
<1>2. PICK u \in Users : u = th[t].user /\ u # None /\ th[t] \in Thread
                         /\ th[t].ip \in IPs /\ Shaped(t)
  BY <1>1, BusyThread
<1>3. PICK i \in IPs : i = th[t].ip
  BY <1>2
<1>4. count' = count /\ outer' = outer /\ sweep' = sweep /\ raced' = raced
      /\ connects' = connects /\ Admit(t) /\ Put(t, Slot(th[t].tcp))
  BY DEF PutIP
<1>5. PICK v \in Nat : v = Slot(th[t].tcp) /\ (Realtime => v = IF th[t].tcp THEN 2 ELSE 1)
  BY DEF Slot
<1>6. /\ ips' \in [Users -> [IPs -> Nat]]
      /\ \A w \in Users \ {u} : ips'[w] = ips[w]
      /\ th[t].inner = "attached" =>
           ips'[u][i] = v /\ \A j \in IPs \ {i} : ips'[u][j] = ips[u][j]
      /\ Online(u)' \subseteq Online(u) \cup {i}
      /\ ~outer'[u] => Online(u)' = {}
  <2>1. Put(t, v)
    BY <1>4, <1>5 DEF Put
  <2>2. Sane /\ th[t].at # "idle" /\ outer' = outer /\ u = th[t].user /\ i = th[t].ip
    BY <1>1, <1>2, <1>3, <1>4
  <2> QED BY <2>1, <2>2, PutView
<1>7. Online(u)' \subseteq Claimed(u)
  <2>1. i \in Claimed(u)
    BY <1>1, <1>2, <1>3, HasClaim DEF Passed
  <2> QED BY <1>6, <2>1 DEF Claimed
<1>8. ASSUME Alone(t, u), Owes(t)
      PROVE  /\ ConnLimit # 0 => ExtraCount(t) = IF th[t].tcp THEN 1 ELSE 0
             /\ IPLimit # 0 => \A j \in IPs :
                  ips'[u][j] \in {2 * (open[u][j] + Gains(t, j)), 2 * (open[u][j] + Gains(t, j)) + 1}
  <2>1. ExtraCount(t) = (IF th[t].tcp THEN 1 ELSE 0) /\ ExtraSlot(t) = 0
    BY <1>1 DEF ExtraCount, ExtraSlot
  <2>2. Knows(t) /\ Realtime
    BY <1>8 DEF Owes, Alone
  <2>3. IPLimit # 0 /\ th[t].inner = "attached" /\ ips[u][i] = 0
    BY <1>1, <1>2, <1>3, <2>2 DEF Knows, At, Passed
  <2>4. ASSUME NEW j \in IPs
        PROVE  ips'[u][j] \in {2 * (open[u][j] + Gains(t, j)), 2 * (open[u][j] + Gains(t, j)) + 1}
    <3>1. open[u][j] \in Nat
      BY <1>1 DEF Typed
    <3>2. ips[u][j] \in {2 * open[u][j], 2 * open[u][j] + 1}
      <4>1. SlotIs(u, j, 0)
        BY <1>2, <1>8, <2>1 DEF Owes
      <4> QED BY <2>3, <3>1, <4>1 DEF SlotIs
    <3>3. CASE j = i
      <4>1. open[u][j] = 0
        BY <2>3, <3>1, <3>2, <3>3
      <4> QED BY <1>3, <1>5, <1>6, <2>2, <2>3, <3>3, <4>1 DEF Gains
    <3>4. CASE j # i
      <4>1. Gains(t, j) = 0 /\ ips'[u][j] = ips[u][j]
        BY <1>3, <1>6, <2>3, <3>4 DEF Gains
      <4> QED BY <3>1, <3>2, <4>1
    <3> QED BY <3>3, <3>4
  <2> QED BY <2>1, <2>4
<1>9. outer' \in [Users -> BOOLEAN]
  BY <1>1, <1>4 DEF Typed
<1> QED BY <1>1, <1>2, <1>4, <1>6, <1>7, <1>8, <1>9, AdmitStep

(* LoadSlot.                                                               *)
LEMMA LoadSlotStep ==
  ASSUME ConnInv, NEW t \in Threads, LoadSlot(t)
  PROVE  ConnInv'
<1>1. Sane /\ Typed /\ th[t].at = "loadSlot"
  BY DEF ConnInv, Sane, LoadSlot, At
<1>2. PICK u \in Users : u = th[t].user /\ u # None /\ th[t] \in Thread
                         /\ th[t].ip \in IPs /\ Shaped(t)
  BY <1>1, BusyThread
<1>3. PICK i \in IPs : i = th[t].ip
  BY <1>2
<1>4. count' = count /\ outer' = outer /\ ips' = ips /\ sweep' = sweep
      /\ raced' = raced /\ connects' = connects
  BY DEF LoadSlot
<1>5. ExtraCount(t) = (IF th[t].tcp THEN 1 ELSE 0) /\ ExtraSlot(t) = 0
  BY <1>1 DEF ExtraCount, ExtraSlot
<1>6. outer \in [Users -> BOOLEAN] /\ ips \in [Users -> [IPs -> Nat]]
      /\ open \in [Users -> [IPs -> Nat]]
  BY <1>1 DEF Typed
<1>7. i \in Claimed(u)
  BY <1>1, <1>2, <1>3, HasClaim DEF Passed
<1>8. CASE /\ th[t].tcp /\ th[t].inner = "attached" /\ ips[u][i] # 0
           /\ th' = [th EXCEPT ![t].at = "storeSlot", ![t].seen = ips[u][i]]
           /\ UNCHANGED open
  <2> DEFINE r == [th[t] EXCEPT !.at = "storeSlot", !.seen = ips[u][i]]
  <2>1. ips[u][i] \in Nat
    BY <1>6
  <2>2. /\ r \in Thread /\ r.at = "storeSlot" /\ r.user = th[t].user /\ r.ip = th[t].ip
        /\ r.inner = th[t].inner /\ r.tcp = th[t].tcp /\ r.seen = ips[u][i]
    BY <1>2, <2>1 DEF Thread, Labels
  <2>3. r.online = th[t].online
    BY <1>2 DEF Thread
  <2>4. th' = [th EXCEPT ![t] = r] /\ th'[t] = r
    BY <1>1, <1>8 DEF Typed
  <2> HIDE DEF r
  <2>5. UNCHANGED <<Books, open>>
    BY <1>4, <1>8 DEF Books
  <2>6. ExtraCount(t)' = (IF th[t].tcp THEN 1 ELSE 0) /\ ExtraSlot(t)' = 0
    BY <2>2, <2>4 DEF ExtraCount, ExtraSlot
  <2>7. ASSUME Owes(t) PROVE Owes(t)'
    <3>1. Knows(t)
      BY <2>7 DEF Owes
    <3>2. Knows(t)'
      BY <1>1, <1>2, <1>3, <1>4, <1>8, <2>2, <2>3, <2>4, <3>1 DEF Knows, At, Passed
    <3> QED BY <1>5, <2>2, <2>4, <2>5, <2>6, <2>7, <3>2, OwesStill
  <2>8. r.inner = "attached" => outer[th[t].user]
    BY <1>2, <2>2 DEF Shaped
  <2> QED BY <1>1, <1>2, <1>3, <1>7, <2>2, <2>4, <2>5, <2>7, <2>8, Advance
<1>9. CASE ~(th[t].tcp /\ th[t].inner = "attached" /\ ips[u][i] # 0) /\ Admit(t)
  <2>1. Online(u)' = Online(u) /\ (~outer'[u] => Online(u)' = {}) /\ Online(u)' \subseteq Claimed(u)
    BY <1>1, <1>4 DEF Online, Sane, Claimed
  <2>2. ASSUME Alone(t, u), Owes(t)
        PROVE  /\ ConnLimit # 0 => ExtraCount(t) = IF th[t].tcp THEN 1 ELSE 0
               /\ IPLimit # 0 => \A j \in IPs :
                    ips'[u][j] \in {2 * (open[u][j] + Gains(t, j)), 2 * (open[u][j] + Gains(t, j)) + 1}
    <3>1. Knows(t)
      BY <2>2 DEF Owes
    <3>2. IPLimit # 0 /\ th[t].inner = "attached" /\ ips[u][i] # 0
      BY <1>1, <1>2, <1>3, <3>1 DEF Knows, At, Passed
    <3>3. ~th[t].tcp
      BY <1>9, <3>2
    <3>4. ASSUME NEW j \in IPs
          PROVE  ips'[u][j] \in {2 * (open[u][j] + Gains(t, j)), 2 * (open[u][j] + Gains(t, j)) + 1}
      <4>1. open[u][j] \in Nat /\ Gains(t, j) = 0
        BY <1>6, <3>3 DEF Gains
      <4>2. SlotIs(u, j, 0)
        BY <1>2, <1>5, <2>2 DEF Owes
      <4> QED BY <1>4, <3>2, <4>1, <4>2 DEF SlotIs
    <3> QED BY <1>5, <3>4
  <2> QED BY <1>1, <1>2, <1>4, <1>6, <1>9, <2>1, <2>2, AdmitStep
<1> QED BY <1>2, <1>3, <1>8, <1>9 DEF LoadSlot

(* StoreSlot.                                                              *)
LEMMA StoreSlotStep ==
  ASSUME ConnInv, NEW t \in Threads, StoreSlot(t)
  PROVE  ConnInv'
<1>1. Sane /\ Typed /\ th[t].at = "storeSlot"
  BY DEF ConnInv, Sane, StoreSlot, At
<1>2. PICK u \in Users : u = th[t].user /\ u # None /\ th[t] \in Thread
                         /\ th[t].ip \in IPs /\ Shaped(t)
  BY <1>1, BusyThread
<1>3. PICK i \in IPs : i = th[t].ip
  BY <1>2
<1>4. count' = count /\ outer' = outer /\ sweep' = sweep /\ raced' = raced
      /\ connects' = connects /\ Admit(t) /\ Put(t, th[t].seen + 2)
  BY DEF StoreSlot
<1>5. PICK v \in Nat : v = th[t].seen + 2
  BY <1>2 DEF Thread
<1>6. /\ ips' \in [Users -> [IPs -> Nat]]
      /\ \A w \in Users \ {u} : ips'[w] = ips[w]
      /\ th[t].inner = "attached" => ips'[u][i] = v /\ \A j \in IPs \ {i} : ips'[u][j] = ips[u][j]
      /\ Online(u)' \subseteq Online(u) \cup {i}
      /\ ~outer'[u] => Online(u)' = {}
  <2>1. Put(t, v)
    BY <1>4, <1>5 DEF Put
  <2>2. Sane /\ th[t].at # "idle" /\ outer' = outer /\ u = th[t].user /\ i = th[t].ip
    BY <1>1, <1>2, <1>3, <1>4
  <2> QED BY <2>1, <2>2, PutView
<1>7. Online(u)' \subseteq Claimed(u)
  <2>1. i \in Claimed(u)
    BY <1>1, <1>2, <1>3, HasClaim DEF Passed
  <2> QED BY <1>6, <2>1 DEF Claimed
<1>8. ASSUME Alone(t, u), Owes(t)
      PROVE  /\ ConnLimit # 0 => ExtraCount(t) = IF th[t].tcp THEN 1 ELSE 0
             /\ IPLimit # 0 => \A j \in IPs :
                  ips'[u][j] \in {2 * (open[u][j] + Gains(t, j)), 2 * (open[u][j] + Gains(t, j)) + 1}
  <2>1. ExtraCount(t) = (IF th[t].tcp THEN 1 ELSE 0) /\ ExtraSlot(t) = 0
    BY <1>1 DEF ExtraCount, ExtraSlot
  <2>2. Knows(t)
    BY <1>8 DEF Owes
  <2>3. IPLimit # 0 /\ th[t].inner = "attached" /\ th[t].tcp /\ th[t].seen = ips[u][i]
    BY <1>1, <1>2, <1>3, <2>2 DEF Knows, At
  <2>4. ASSUME NEW j \in IPs
        PROVE  ips'[u][j] \in {2 * (open[u][j] + Gains(t, j)), 2 * (open[u][j] + Gains(t, j)) + 1}
    <3>1. open[u][j] \in Nat
      BY <1>1 DEF Typed
    <3>2. ips[u][j] \in {2 * open[u][j], 2 * open[u][j] + 1}
      <4>1. SlotIs(u, j, 0)
        BY <1>2, <1>8, <2>1 DEF Owes
      <4> QED BY <2>3, <3>1, <4>1 DEF SlotIs
    <3>3. CASE j = i
      <4>1. Gains(t, j) = 1 /\ ips'[u][j] = ips[u][j] + 2
        BY <1>3, <1>5, <1>6, <2>3, <3>3 DEF Gains
      <4> QED BY <3>1, <3>2, <4>1
    <3>4. CASE j # i
      <4>1. Gains(t, j) = 0 /\ ips'[u][j] = ips[u][j]
        BY <1>3, <1>6, <2>3, <3>4 DEF Gains
      <4> QED BY <3>1, <3>2, <4>1
    <3> QED BY <3>3, <3>4
  <2> QED BY <2>1, <2>4
<1>9. outer' \in [Users -> BOOLEAN]
  BY <1>1, <1>4 DEF Typed
<1> QED BY <1>1, <1>2, <1>4, <1>6, <1>7, <1>8, <1>9, AdmitStep

-----------------------------------------------------------------------------
(* A goroutine takes up a call.                                            *)

(* An idle goroutine begins with a user: it owes the books of a user whom  *)
(* nobody else serves what its call is to store or take off.               *)
LEMMA BeginStep ==
  ASSUME ConnInv, NEW t \in Threads, NEW u \in Users, NEW i \in IPs, th[t].at = "idle",
         NoteRace(t, u), UNCHANGED <<count, outer, ips, sweep>>,
         NEW r \in Thread, th' = [th EXCEPT ![t] = r],
         r.at \in {"checkCount", "delLoadCount"}, r.user = u, r.ip = i, r.inner = None,
         connects' \in 0 .. MaxConnects,
         open' \in [Users -> [IPs -> Nat]], \A v \in Users \ {u} : open'[v] = open[v],
         \/ open' = open
         \/ open[u][i] > 0 /\ open' = [open EXCEPT ![u][i] = @ - 1],
         Realtime /\ u \notin raced' /\ Balanced(u) => Owes(t)'
  PROVE  ConnInv'
<1>1. Sane /\ Typed /\ ClaimsInv /\ Numbered /\ LedgerInv
  BY DEF ConnInv, Sane
<1>2. th[t] = Idle /\ th[t].user = None /\ u # None
  <2>1. th[t] = Idle
    BY <1>1 DEF Sane, Shaped, At
  <2>2. Idle.user = None
    BY DEF Idle
  <2> QED BY <2>1, <2>2, NoneOK
<1>3. th'[t] = r /\ (\A o \in Threads \ {t} : th'[o] = th[o]) /\ th' \in [Threads -> Thread]
  BY <1>1 DEF Typed
<1>4. /\ raced' \subseteq Users /\ raced \subseteq raced'
      /\ Contended(t, u) => u \in raced'
      /\ \A v \in Users \ {u} : v \in raced' <=> v \in raced
  BY <1>1 DEF NoteRace, Typed
<1>5. Typed'
  BY <1>1, <1>3, <1>4 DEF Typed
<1>6. Shaped(t)'
  BY <1>3 DEF Shaped, At, None
<1>7. Local(t, u)
  BY <1>2, <1>3, <1>4 DEF Local
<1>8. \A v \in Users : Online(v)' = Online(v)
  BY DEF Online
<1>9. Sane'
  BY <1>1, <1>5, <1>6, <1>7, <1>8, SaneStep DEF Sane
<1>10. ClaimsInv'
  <2>1. th'[t].at \notin Passed
    BY <1>3 DEF Passed
  <2>2. Online(u)' \subseteq Claimed(u)
    BY <1>8 DEF Claimed
  <2> QED BY <1>1, <1>7, <1>9, <2>1, <2>2, ClaimsStep
<1>11. Numbered'
  BY <1>1, NumberedStep
<1>12. LedgerInv'
  <2> SUFFICES ASSUME Realtime, NEW v \in Users \ raced' PROVE UserLedger(v)'
    BY DEF LedgerInv
  <2>1. v \notin raced /\ UserLedger(v)
    BY <1>1, <1>4 DEF LedgerInv
  <2>2. CASE v # u
    <3>1. \A o \in Threads : th[o].user = v \/ th'[o].user = v => th'[o] = th[o]
      BY <1>2, <1>3, <2>2, NoneOK
    <3>2. /\ count'[v] = count[v] /\ outer'[v] = outer[v] /\ ips'[v] = ips[v]
          /\ open'[v] = open[v] /\ (sweep' = v <=> sweep = v)
      BY <2>2
    <3> QED BY <2>1, <3>1, <3>2, LedgerElsewhere
  <2>3. CASE v = u
    <3>1. ~Contended(t, u)
      BY <1>4, <2>3
    <3>2. sweep # u /\ \A o \in Threads \ {t} : th[o].user # u
      BY <3>1 DEF Contended
    <3>3. Quiet(u)
      BY <1>2, <3>2 DEF Quiet
    <3>4. Owes(t)'
      BY <2>1, <2>3, <3>3 DEF UserLedger
    <3>5. th'[t].user = u /\ sweep' # u /\ \A o \in Threads \ {t} : th'[o].user # u
      BY <1>3, <3>2
    <3> QED BY <2>3, <3>4, <3>5 DEF UserLedger, Quiet
  <2> QED BY <2>2, <2>3
<1> QED BY <1>9, <1>10, <1>11, <1>12 DEF ConnInv

(* A call of AddConnCount.                                                 *)
LEMMA ConnectStep ==
  ASSUME ConnInv, NEW t \in Threads, NEW u \in Users, NEW i \in IPs, NEW isTcp \in BOOLEAN,
         Connect(t, u, i, isTcp)
  PROVE  ConnInv'
<1> DEFINE r == [Idle EXCEPT !.at = "checkCount", !.user = u, !.ip = i, !.tcp = isTcp]
<1>1. Sane /\ Typed /\ th[t].at = "idle"
  BY DEF ConnInv, Sane, Connect, At
<1>2. Idle.inner = None /\ r \in Thread /\ r.at = "checkCount" /\ r.user = u /\ r.ip = i /\ r.inner = None
  BY DEF Idle, Thread, Labels
<1>3. th' = [th EXCEPT ![t] = r] /\ th'[t] = r
  BY <1>1 DEF Connect, Typed
<1> HIDE DEF r
<1>4. NoteRace(t, u) /\ UNCHANGED <<count, outer, ips, sweep, open>>
  BY DEF Connect
<1>5. connects' \in 0 .. MaxConnects
  BY <1>1, LimitsOK DEF Connect, Typed
<1>6. ExtraCount(t)' = 0 /\ ExtraSlot(t)' = 0 /\ Knows(t)'
  BY <1>2, <1>3 DEF ExtraCount, ExtraSlot, Knows, At, Passed
<1>7. ASSUME Balanced(u) PROVE Owes(t)'
  <2>1. OpenOf(u)' = OpenOf(u)
    BY <1>4 DEF OpenOf, OpenConns
  <2>2. CountIs(u, 0)' /\ \A j \in IPs : SlotIs(u, j, 0)'
    BY <1>4, <1>7, <2>1 DEF Balanced, CountIs, SlotIs
  <2> QED BY <1>2, <1>3, <1>6, <2>2 DEF Owes
<1>8. open' \in [Users -> [IPs -> Nat]] /\ open' = open
  BY <1>1, <1>4 DEF Typed
<1> QED BY <1>1, <1>2, <1>3, <1>4, <1>5, <1>7, <1>8, BeginStep

(* A call of DelConnCount: its connection is closed, and not yet taken off *)
(* the books.                                                              *)
LEMMA DisconnectStep ==
  ASSUME ConnInv, NEW t \in Threads, NEW u \in Users, NEW i \in IPs, Disconnect(t, u, i)
  PROVE  ConnInv'
<1> DEFINE r == [Idle EXCEPT !.at = "delLoadCount", !.user = u, !.ip = i, !.tcp = TRUE]
<1>1. Sane /\ Typed /\ Numbered /\ th[t].at = "idle" /\ open[u][i] > 0
      /\ open' = [open EXCEPT ![u][i] = @ - 1]
  BY DEF ConnInv, Sane, Disconnect, At
<1>2. Idle.inner = None /\ r \in Thread /\ r.at = "delLoadCount" /\ r.user = u /\ r.ip = i /\ r.inner = None
  BY DEF Idle, Thread, Labels
<1>3. th' = [th EXCEPT ![t] = r] /\ th'[t] = r
  BY <1>1 DEF Disconnect, Typed
<1> HIDE DEF r
<1>4. NoteRace(t, u) /\ UNCHANGED <<count, outer, ips, sweep, connects>>
  BY DEF Disconnect
<1>5. connects' \in 0 .. MaxConnects
  BY <1>1, <1>4 DEF Typed
<1>6. ExtraCount(t)' = 1 /\ ExtraSlot(t)' = 1 /\ Knows(t)'
  BY <1>2, <1>3 DEF ExtraCount, ExtraSlot, Knows, At, Passed
<1>7. open \in [Users -> [IPs -> Nat]] /\ open[u] \in [IPs -> Nat]
  BY <1>1 DEF Typed
<1>8. open'[u] = [open[u] EXCEPT ![i] = @ - 1]
      /\ open' = [open EXCEPT ![u] = [open[u] EXCEPT ![i] = @ - 1]]
  BY <1>1, <1>7
<1>9. [open[u] EXCEPT ![i] = @ - 1] \in [IPs -> Nat]
  BY <1>1, <1>7
<1>10. open' \in [Users -> [IPs -> Nat]] /\ \A v \in Users \ {u} : open'[v] = open[v]
  BY <1>7, <1>8, <1>9
<1>11. ASSUME Balanced(u) PROVE Owes(t)'
  <2>1. OpenOf(u)' + 1 = OpenOf(u) /\ OpenOf(u) \in Nat
    BY <1>1, <1>8, OpenAfter
  <2>2. CountIs(u, 1)'
    BY <1>4, <1>11, <2>1 DEF Balanced, CountIs
  <2>3. ASSUME NEW j \in IPs PROVE SlotIs(u, j, IF j = i THEN 1 ELSE 0)'
    <3>1. open[u][j] \in Nat /\ open'[u][j] + (IF j = i THEN 1 ELSE 0) = open[u][j]
      BY <1>7, <1>8
    <3> QED BY <1>4, <1>11, <3>1 DEF Balanced, SlotIs
  <2> QED BY <1>2, <1>3, <1>6, <2>2, <2>3 DEF Owes
<1> QED BY <1>1, <1>2, <1>3, <1>4, <1>5, <1>10, <1>11, BeginStep

-----------------------------------------------------------------------------
(* DelConnCount.                                                           *)

(* DelLoadCount.                                                           *)
LEMMA DelLoadCountStep ==
  ASSUME ConnInv, NEW t \in Threads, DelLoadCount(t)
  PROVE  ConnInv'
<1>1. Sane /\ Typed /\ Numbered /\ th[t].at = "delLoadCount"
  BY DEF ConnInv, Sane, DelLoadCount, At
<1>2. PICK u \in Users : u = th[t].user /\ u # None /\ th[t] \in Thread
                         /\ th[t].ip \in IPs /\ Shaped(t)
  BY <1>1, BusyThread
<1>3. UNCHANGED <<Books, open>>
  BY DEF DelLoadCount, Books
<1>4. ExtraCount(t) = 1 /\ ExtraSlot(t) = 1
  BY <1>1 DEF ExtraCount, ExtraSlot
<1>5. count[u] \in Nat
  BY <1>1, <1>2 DEF Typed
<1>6. CASE /\ ConnLimit # 0 /\ count[u] # 0
           /\ th' = [th EXCEPT ![t].at = "delStoreCount", ![t].seen = count[u]]
  <2> DEFINE r == [th[t] EXCEPT !.at = "delStoreCount", !.seen = count[u]]
  <2>1. /\ r \in Thread /\ r.at = "delStoreCount" /\ r.user = th[t].user /\ r.ip = th[t].ip
        /\ r.inner = th[t].inner /\ r.seen = count[u]
    BY <1>2, <1>5 DEF Thread, Labels
  <2>2. th' = [th EXCEPT ![t] = r] /\ th'[t] = r
    BY <1>1, <1>6 DEF Typed
  <2> HIDE DEF r
  <2>3. ExtraCount(t)' = 1 /\ ExtraSlot(t)' = 1
    BY <2>1, <2>2 DEF ExtraCount, ExtraSlot
  <2>4. Knows(t)'
    <3>1. count' = count
      BY <1>3 DEF Books
    <3> QED BY <1>2, <2>1, <2>2, <3>1 DEF Knows, At, Passed
  <2>5. Owes(t) => Owes(t)'
    BY <1>3, <1>4, <2>1, <2>2, <2>3, <2>4, OwesStill
  <2>6. r.inner = "attached" => outer[th[t].user]
    BY <1>2, <2>1 DEF Shaped
  <2>7. r.seen > 0 /\ r.at \notin Passed
    BY <1>5, <1>6, <2>1 DEF Passed
  <2> QED BY <1>1, <1>3, <2>1, <2>2, <2>5, <2>6, <2>7, Advance
<1>7. CASE ~(ConnLimit # 0 /\ count[u] # 0) /\ Goto(t, "delLoadSlot")
  <2> DEFINE r == [th[t] EXCEPT !.at = "delLoadSlot"]
  <2>1. /\ r \in Thread /\ r.at = "delLoadSlot" /\ r.user = th[t].user /\ r.ip = th[t].ip
        /\ r.inner = th[t].inner
    BY <1>2 DEF Thread, Labels
  <2>2. th' = [th EXCEPT ![t] = r] /\ th'[t] = r
    BY <1>1, <1>7 DEF Goto, Typed
  <2> HIDE DEF r
  <2>3. ExtraSlot(t)' = 1
    BY <2>1, <2>2 DEF ExtraSlot
  <2>4. Knows(t)'
    BY <2>1, <2>2 DEF Knows, At, Passed
  <2>5. ASSUME Owes(t) PROVE Owes(t)'
    <3>1. ConnLimit = 0
      <4>1. CountIs(u, 1)
        BY <1>2, <1>4, <2>5 DEF Owes
      <4>2. OpenOf(u) \in Nat
        BY <1>1, <1>2, OpenAfter
      <4> QED BY <1>5, <1>7, <4>1, <4>2 DEF CountIs
    <3> QED BY <1>3, <1>4, <2>1, <2>2, <2>3, <2>4, <2>5, <3>1, OwesStill
  <2>6. r.inner = "attached" => outer[th[t].user]
    BY <1>2, <2>1 DEF Shaped
  <2>7. r.at \notin Passed
    BY <2>1 DEF Passed
  <2> QED BY <1>1, <1>3, <2>1, <2>2, <2>5, <2>6, <2>7, Advance
<1> QED BY <1>2, <1>6, <1>7 DEF DelLoadCount

(* DelStoreCount.                                                          *)
LEMMA DelStoreCountStep ==
  ASSUME ConnInv, NEW t \in Threads, DelStoreCount(t)
  PROVE  ConnInv'
<1>1. Sane /\ Typed /\ Numbered /\ th[t].at = "delStoreCount"
  BY DEF ConnInv, Sane, DelStoreCount, At
<1>2. PICK u \in Users : u = th[t].user /\ u # None /\ th[t] \in Thread
                         /\ th[t].ip \in IPs /\ Shaped(t)
  BY <1>1, BusyThread
<1> DEFINE r == [th[t] EXCEPT !.at = "delLoadSlot"]
<1>3. /\ r \in Thread /\ r.at = "delLoadSlot" /\ r.user = u /\ r.ip = th[t].ip
      /\ r.inner = th[t].inner
  BY <1>2 DEF Thread, Labels
<1>4. th' = [th EXCEPT ![t] = r] /\ th'[t] = r /\ (\A o \in Threads \ {t} : th'[o] = th[o])
      /\ th' \in [Threads -> Thread]
  BY <1>1, <1>3 DEF DelStoreCount, Goto, Typed
<1> HIDE DEF r
<1>5. th[t].seen \in Nat /\ th[t].seen > 0
  BY <1>1, <1>2 DEF Thread, Shaped, At
<1>6. /\ count' \in [Users -> Nat] /\ count'[u] = th[t].seen - 1
      /\ \A v \in Users \ {u} : count'[v] = count[v]
  BY <1>1, <1>2, <1>5 DEF DelStoreCount, Typed
<1>7. outer' = outer /\ ips' = ips /\ sweep' = sweep /\ raced' = raced
      /\ connects' = connects /\ open' = open
  BY DEF DelStoreCount
<1>8. Typed'
  BY <1>1, <1>4, <1>6, <1>7 DEF Typed
<1>9. Shaped(t)'
  BY <1>1, <1>2, <1>3, <1>4, <1>7 DEF Shaped, At
<1>10. Local(t, u)
  BY <1>2, <1>3, <1>4, <1>6, <1>7 DEF Local
<1>11. Online(u)' = Online(u) /\ (~outer'[u] => Online(u)' = {}) /\ Online(u)' \subseteq Claimed(u)
  BY <1>1, <1>7 DEF Online, Sane, Claimed
<1>12. th'[t].at \notin Passed
  BY <1>3, <1>4 DEF Passed
<1>13. ASSUME Owes(t) PROVE Owes(t)'
  <2>1. ExtraCount(t) = 1 /\ ExtraSlot(t) = 1
    BY <1>1 DEF ExtraCount, ExtraSlot
  <2>2. Knows(t) /\ CountIs(u, 1) /\ \A i \in IPs : SlotIs(u, i, IF i = th[t].ip THEN 1 ELSE 0)
    BY <1>2, <1>13, <2>1 DEF Owes
  <2>3. th[t].seen = count[u]
    BY <1>1, <1>2, <2>2 DEF Knows
  <2>4. ExtraCount(t)' = 0 /\ ExtraSlot(t)' = 1 /\ Knows(t)'
    BY <1>3, <1>4 DEF ExtraCount, ExtraSlot, Knows, At, Passed
  <2>5. OpenOf(u)' = OpenOf(u) /\ OpenOf(u) \in Nat
    BY <1>1, <1>2, <1>7, OpenAfter
  <2>6. CountIs(u, 0)'
    BY <1>6, <2>2, <2>3, <2>5 DEF CountIs
  <2>7. ASSUME NEW i \in IPs PROVE SlotIs(u, i, IF i = th[t].ip THEN 1 ELSE 0)'
    BY <1>3, <1>4, <1>7, <2>2 DEF SlotIs
  <2> QED BY <1>3, <1>4, <2>4, <2>6, <2>7 DEF Owes
<1>14. Alone(t, u) /\ Owes(t) => IF th'[t].user = u THEN Owes(t)' ELSE Balanced(u)'
  BY <1>3, <1>4, <1>13
<1> QED BY <1>2, <1>7, <1>8, <1>9, <1>10, <1>11, <1>12, <1>14, ConnStep

(* DelLoadSlot.                                                            *)
LEMMA DelLoadSlotStep ==
  ASSUME ConnInv, NEW t \in Threads, DelLoadSlot(t)
  PROVE  ConnInv'
<1>1. Sane /\ Typed /\ th[t].at = "delLoadSlot"
  BY DEF ConnInv, Sane, DelLoadSlot, At
<1>2. PICK u \in Users : u = th[t].user /\ u # None /\ th[t] \in Thread
                         /\ th[t].ip \in IPs /\ Shaped(t)
  BY <1>1, BusyThread
<1>3. PICK i \in IPs : i = th[t].ip
  BY <1>2
<1>4. UNCHANGED <<Books, open>>
  BY DEF DelLoadSlot, Books
<1>5. ExtraCount(t) = 0 /\ ExtraSlot(t) = 1
  BY <1>1 DEF ExtraCount, ExtraSlot
<1>6. ips[u][i] \in Nat /\ ips \in [Users -> [IPs -> Nat]] /\ open[u][i] \in Nat
  BY <1>1 DEF Typed
<1>7. CASE /\ IPLimit # 0 /\ outer[u] /\ ips[u][i] # 0
           /\ th' = [th EXCEPT ![t].at = "delStoreSlot", ![t].seen = ips[u][i],
                               ![t].inner = "attached"]
  <2> DEFINE r == [th[t] EXCEPT !.at = "delStoreSlot", !.seen = ips[u][i], !.inner = "attached"]
  <2>1. /\ r \in Thread /\ r.at = "delStoreSlot" /\ r.user = th[t].user /\ r.ip = th[t].ip
        /\ r.inner = "attached" /\ r.seen = ips[u][i]
    BY <1>2, <1>6 DEF Thread, Labels
  <2>2. th' = [th EXCEPT ![t] = r] /\ th'[t] = r
    BY <1>1, <1>7 DEF Typed
  <2> HIDE DEF r
  <2>3. ExtraCount(t)' = 0 /\ ExtraSlot(t)' = 1
    BY <2>1, <2>2 DEF ExtraCount, ExtraSlot
  <2>4. Knows(t)'
    <3>1. ips' = ips
      BY <1>4 DEF Books
    <3> QED BY <1>2, <1>3, <1>7, <2>1, <2>2, <3>1 DEF Knows, At, Passed, None
  <2>5. Owes(t) => Owes(t)'
    BY <1>4, <1>5, <2>1, <2>2, <2>3, <2>4, OwesStill
  <2>6. i \in Claimed(u)
    BY <1>7 DEF Claimed, Online
  <2> QED BY <1>1, <1>2, <1>3, <1>4, <1>7, <2>1, <2>2, <2>5, <2>6, Advance
<1>8. CASE ~(IPLimit # 0 /\ outer[u] /\ ips[u][i] # 0) /\ th' = [th EXCEPT ![t] = Idle]
  <2>1. ASSUME Owes(t) PROVE Balanced(u)
    <3>1. CountIs(u, 0) /\ SlotIs(u, i, 1)
      BY <1>2, <1>3, <1>5, <2>1 DEF Owes
    <3>2. IPLimit = 0
      <4>1. ips[u][i] # 0 => outer[u]
        BY <1>1 DEF Sane, Online
      <4> QED BY <1>6, <1>8, <3>1, <4>1 DEF SlotIs
    <3> QED BY <3>1, <3>2 DEF Balanced, SlotIs
  <2> QED BY <1>1, <1>2, <1>4, <1>8, <2>1, Leave
<1> QED BY <1>2, <1>3, <1>7, <1>8 DEF DelLoadSlot

(* DelStoreSlot.                                                           *)
LEMMA DelStoreSlotStep ==
  ASSUME ConnInv, NEW t \in Threads, DelStoreSlot(t)
  PROVE  ConnInv'
<1>1. Sane /\ Typed /\ Numbered /\ th[t].at = "delStoreSlot"
  BY DEF ConnInv, Sane, DelStoreSlot, At
<1>2. PICK u \in Users : u = th[t].user /\ u # None /\ th[t] \in Thread
                         /\ th[t].ip \in IPs /\ Shaped(t)
  BY <1>1, BusyThread
<1>3. PICK i \in IPs : i = th[t].ip
  BY <1>2
<1> DEFINE r == [th[t] EXCEPT !.at = "delRange"]
<1>4. /\ r \in Thread /\ r.at = "delRange" /\ r.user = u /\ r.ip = th[t].ip
      /\ r.inner = th[t].inner
  BY <1>2 DEF Thread, Labels
<1>5. th' = [th EXCEPT ![t] = r] /\ th'[t] = r /\ (\A o \in Threads \ {t} : th'[o] = th[o])
      /\ th' \in [Threads -> Thread]
  BY <1>1, <1>4 DEF DelStoreSlot, Goto, Typed
<1> HIDE DEF r
<1>6. th[t].seen \in Nat
  BY <1>2 DEF Thread
<1>7. PICK v \in Nat : v = IF th[t].seen <= 2 THEN 0 ELSE th[t].seen - 2
  BY <1>6
<1>8. count' = count /\ outer' = outer /\ sweep' = sweep /\ raced' = raced
      /\ connects' = connects /\ open' = open
  BY DEF DelStoreSlot
<1>9. /\ ips' \in [Users -> [IPs -> Nat]]
      /\ \A w \in Users \ {u} : ips'[w] = ips[w]
      /\ th[t].inner = "attached" => ips'[u][i] = v /\ \A j \in IPs \ {i} : ips'[u][j] = ips[u][j]
      /\ Online(u)' \subseteq Online(u) \cup {i}
      /\ ~outer'[u] => Online(u)' = {}
  <2>1. Put(t, v)
    BY <1>7 DEF DelStoreSlot, Put
  <2>2. Sane /\ th[t].at # "idle" /\ outer' = outer /\ u = th[t].user /\ i = th[t].ip
    BY <1>1, <1>2, <1>3, <1>8
  <2> QED BY <2>1, <2>2, PutView
<1>10. Typed'
  BY <1>1, <1>5, <1>8, <1>9 DEF Typed
<1>11. Shaped(t)'
  BY <1>1, <1>2, <1>4, <1>5, <1>8 DEF Shaped, At
<1>12. Local(t, u)
  BY <1>2, <1>4, <1>5, <1>8, <1>9 DEF Local
<1>13. Online(u)' \subseteq Claimed(u)
  <2>1. i \in Claimed(u)
    BY <1>1, <1>2, <1>3, HasClaim DEF Passed
  <2> QED BY <1>9, <2>1 DEF Claimed
<1>14. th'[t].at \notin Passed
  BY <1>4, <1>5 DEF Passed
<1>15. ASSUME Owes(t) PROVE Owes(t)'
  <2>1. ExtraCount(t) = 0 /\ ExtraSlot(t) = 1
    BY <1>1 DEF ExtraCount, ExtraSlot
  <2>2. Knows(t) /\ CountIs(u, 0) /\ \A j \in IPs : SlotIs(u, j, IF j = i THEN 1 ELSE 0)
    BY <1>2, <1>3, <1>15, <2>1 DEF Owes
  <2>3. IPLimit # 0 /\ th[t].inner = "attached" /\ th[t].seen = ips[u][i]
    BY <1>1, <1>2, <1>3, <2>2 DEF Knows
  <2>4. ExtraCount(t)' = 0 /\ ExtraSlot(t)' = 0 /\ Knows(t)'
    BY <1>4, <1>5, <2>3 DEF ExtraCount, ExtraSlot, Knows, At, Passed
  <2>5. CountIs(u, 0)'
    BY <1>8, <2>2 DEF CountIs, OpenOf, OpenConns
  <2>6. ASSUME NEW j \in IPs PROVE SlotIs(u, j, 0)'
    <3>1. open[u][j] \in Nat
      BY <1>1 DEF Typed
    <3>2. SlotIs(u, j, IF j = i THEN 1 ELSE 0)
      BY <2>2
    <3>3. CASE j = i
      <4>1. th[t].seen \in {2 * (open[u][j] + 1), 2 * (open[u][j] + 1) + 1}
        BY <2>3, <3>2, <3>3 DEF SlotIs
      <4>2. v \in {2 * open[u][j], 2 * open[u][j] + 1}
        BY <1>7, <3>1, <4>1
      <4> QED BY <1>8, <1>9, <2>3, <3>1, <3>3, <4>2 DEF SlotIs
    <3>4. CASE j # i
      BY <1>8, <1>9, <2>3, <3>1, <3>2, <3>4 DEF SlotIs
    <3> QED BY <3>3, <3>4
  <2> QED BY <1>4, <1>5, <2>4, <2>5, <2>6 DEF Owes
<1>16. Alone(t, u) /\ Owes(t) => IF th'[t].user = u THEN Owes(t)' ELSE Balanced(u)'
  BY <1>4, <1>5, <1>15
<1> QED BY <1>2, <1>8, <1>9, <1>10, <1>11, <1>12, <1>13, <1>14, <1>16, ConnStep

(* DelRange.                                                               *)
LEMMA DelRangeStep ==
  ASSUME ConnInv, NEW t \in Threads, DelRange(t)
  PROVE  ConnInv'
<1>1. Sane /\ Typed /\ th[t].at = "delRange"
  BY DEF ConnInv, Sane, DelRange, At
<1>2. PICK u \in Users : u = th[t].user /\ u # None /\ th[t] \in Thread
                         /\ th[t].ip \in IPs /\ Shaped(t)
  BY <1>1, BusyThread
<1>3. UNCHANGED <<Books, open>>
  BY DEF DelRange, Books
<1>4. ExtraCount(t) = 0 /\ ExtraSlot(t) = 0
  BY <1>1 DEF ExtraCount, ExtraSlot
<1>5. CASE th' = [th EXCEPT ![t] = Idle]
  BY <1>1, <1>3, <1>4, <1>5, OwesNothing, Leave
<1>6. CASE (th[t].inner = "detached" \/ Online(u) = {}) /\ Goto(t, "delOuter")
  <2> DEFINE r == [th[t] EXCEPT !.at = "delOuter"]
  <2>1. /\ r \in Thread /\ r.at = "delOuter" /\ r.user = th[t].user /\ r.ip = th[t].ip
        /\ r.inner = th[t].inner
    BY <1>2 DEF Thread, Labels
  <2>2. th' = [th EXCEPT ![t] = r] /\ th'[t] = r
    BY <1>1, <1>6 DEF Goto, Typed
  <2> HIDE DEF r
  <2>3. ExtraCount(t)' = 0 /\ ExtraSlot(t)' = 0
    BY <2>1, <2>2 DEF ExtraCount, ExtraSlot
  <2>4. ASSUME Owes(t) PROVE Owes(t)'
    <3>1. Knows(t)
      BY <2>4 DEF Owes
    <3>2. Online(u) = {}
      BY <1>1, <1>6, <3>1 DEF Knows, At
    <3>3. Online(u)' = {}
      BY <1>3, <3>2 DEF Books, Online
    <3>4. Knows(t)'
      BY <1>2, <2>1, <2>2, <3>3 DEF Knows, At, Passed
    <3> QED BY <1>3, <1>4, <2>1, <2>2, <2>3, <2>4, <3>4, OwesStill
  <2>5. r.inner = "attached" => outer[th[t].user]
    BY <1>2, <2>1 DEF Shaped
  <2>6. r.at \notin Passed
    BY <2>1 DEF Passed
  <2> QED BY <1>1, <1>3, <2>1, <2>2, <2>4, <2>5, <2>6, Advance
<1> QED BY <1>2, <1>5, <1>6 DEF DelRange

-----------------------------------------------------------------------------
(* The outer entry goes: the end of DelConnCount, and ClearOnlineIP.       *)

(* An inner map is dropped: pointers to it lead nowhere, and when the      *)
(* user's calls never overlapped it was empty.                             *)
LEMMA DeleteStep ==
  ASSUME ConnInv, NEW u \in Users, NEW threads \in [Threads -> Thread],
         \A o \in Threads : threads[o] = th[o] \/ (threads[o] = Idle /\ th[o].user = u),
         DeleteOuter(u, threads), UNCHANGED <<count, open, raced, connects>>,
         sweep' = sweep \/ (sweep = u /\ sweep' = None),
         Realtime /\ u \notin raced =>
           /\ Balanced(u) /\ Online(u) = {} /\ sweep' # u
           /\ \A o \in Threads : threads[o].user # u
  PROVE  ConnInv'
<1>1. Sane /\ Typed /\ ClaimsInv /\ Numbered /\ LedgerInv
  BY DEF ConnInv, Sane
<1>2. /\ outer' \in [Users -> BOOLEAN] /\ ~outer'[u]
      /\ \A v \in Users \ {u} : outer'[v] = outer[v]
  BY <1>1 DEF DeleteOuter, Typed
<1>3. /\ ips' \in [Users -> [IPs -> Nat]] /\ (\A i \in IPs : ips'[u][i] = 0)
      /\ \A v \in Users \ {u} : ips'[v] = ips[v]
  <2>1. NoSlots \in [IPs -> Nat] /\ \A i \in IPs : NoSlots[i] = 0
    BY DEF NoSlots
  <2>2. ips' = [ips EXCEPT ![u] = NoSlots] /\ ips \in [Users -> [IPs -> Nat]]
    BY <1>1 DEF DeleteOuter, Typed
  <2>3. ips' \in [Users -> [IPs -> Nat]] /\ ips'[u] = NoSlots
        /\ \A v \in Users \ {u} : ips'[v] = ips[v]
    BY <2>1, <2>2
  <2> QED BY <2>1, <2>3
<1>4. Idle.user = None /\ Idle.at = "idle" /\ Idle.inner = None
  BY DEF Idle
<1>5. /\ th' \in [Threads -> Thread]
      /\ \A o \in Threads :
           /\ th'[o].at = threads[o].at /\ th'[o].user = threads[o].user
           /\ th'[o].ip = threads[o].ip /\ th'[o].seen = threads[o].seen
           /\ threads[o].user # u \/ threads[o].inner # "attached" => th'[o] = threads[o]
           /\ threads[o].user = u => th'[o].inner # "attached"
  <2>1. ASSUME NEW o \in Threads
        PROVE  /\ th'[o] \in Thread
               /\ th'[o].at = threads[o].at /\ th'[o].user = threads[o].user
               /\ th'[o].ip = threads[o].ip /\ th'[o].seen = threads[o].seen
               /\ threads[o].user # u \/ threads[o].inner # "attached" => th'[o] = threads[o]
               /\ threads[o].user = u => th'[o].inner # "attached"
    <3>1. threads[o] \in Thread
      OBVIOUS
    <3>2. th'[o] = IF threads[o].user = u /\ threads[o].inner = "attached"
                   THEN [threads[o] EXCEPT !.inner = "detached"] ELSE threads[o]
      BY DEF DeleteOuter
    <3> DEFINE r == [threads[o] EXCEPT !.inner = "detached"]
    <3>3. /\ r \in Thread /\ r.at = threads[o].at /\ r.user = threads[o].user
          /\ r.ip = threads[o].ip /\ r.seen = threads[o].seen /\ r.inner = "detached"
      BY <3>1 DEF Thread
    <3> HIDE DEF r
    <3>4. th'[o] = IF threads[o].user = u /\ threads[o].inner = "attached" THEN r ELSE threads[o]
      BY <3>2 DEF r
    <3> QED BY <3>1, <3>3, <3>4
  <2>2. th' = [o \in Threads |-> th'[o]]
    BY DEF DeleteOuter
  <2>3. th' \in [Threads -> Thread]
    BY <2>1, <2>2
  <2> QED BY <2>1, <2>3
<1>6. sweep' \in Users \cup {None}
  BY <1>1 DEF Typed
<1>7. Typed'
  BY <1>1, <1>2, <1>3, <1>5, <1>6 DEF Typed
<1>8. ASSUME NEW o \in Threads PROVE Shaped(o)'
  <2>1. CASE threads[o] = th[o]
    <3>1. Shaped(o)
      BY <1>1 DEF Sane
    <3>2. CASE th[o].at = "idle"
      <4>1. th[o] = Idle
        BY <3>1, <3>2 DEF Shaped, At
      <4>2. th'[o] = Idle
        BY <1>4, <1>5, <2>1, <4>1 DEF None
      <4> QED BY <1>4, <4>2 DEF Shaped, At, None
    <3>3. CASE th[o].at # "idle"
      <4>1. th[o].user \in Users /\ th[o].ip \in IPs
        BY <3>1, <3>3 DEF Shaped, At
      <4>2. th'[o].inner = "attached" => th'[o].user # u /\ th'[o] = th[o]
        BY <1>5, <2>1
      <4>3. th'[o].inner = "attached" => outer'[th'[o].user]
        BY <1>2, <3>1, <4>1, <4>2 DEF Shaped
      <4> QED BY <1>5, <2>1, <3>1, <3>3, <4>1, <4>3 DEF Shaped, At
    <3> QED BY <3>2, <3>3
  <2>2. CASE threads[o] = Idle
    <3>1. th'[o] = Idle
      BY <1>4, <1>5, <2>2 DEF None
    <3> QED BY <1>4, <3>1 DEF Shaped, At, None
  <2> QED BY <2>1, <2>2
<1>9. Online(u)' = {} /\ \A v \in Users \ {u} : Online(v)' = Online(v)
  BY <1>3 DEF Online
<1>10. Sane'
  BY <1>1, <1>2, <1>7, <1>8, <1>9 DEF Sane
<1>11. ClaimsInv'
  <2>1. ASSUME NEW v \in Users PROVE Claimed(v)' \subseteq Claimed(v)
    <3>1. ASSUME NEW o \in Threads, th'[o].user = v, th'[o].at \in Passed
          PROVE  th'[o].ip \in Claimed(v)
      <4>1. th'[o].at # "idle"
        BY <3>1 DEF Passed
      <4>2. threads[o] = th[o]
        BY <1>4, <1>5, <4>1
      <4> QED BY <1>5, <3>1, <4>2 DEF Claimed, Storers
    <3>2. \A o \in Storers(v)' : o \in Threads /\ th'[o].user = v /\ th'[o].at \in Passed
      BY DEF Storers
    <3>3. Claimed(v)' = Online(v)' \cup { th'[o].ip : o \in Storers(v)' }
      BY DEF Claimed
    <3>4. Online(v)' \subseteq Claimed(v)
      BY <1>9 DEF Claimed
    <3> QED BY <3>1, <3>2, <3>3, <3>4
  <2> QED BY <1>1, <1>10, <2>1, ClaimsShrink
<1>12. Numbered'
  BY <1>1, NumberedStep
<1>13. LedgerInv'
  <2> SUFFICES ASSUME Realtime, NEW v \in Users \ raced' PROVE UserLedger(v)'
    BY DEF LedgerInv
  <2>1. v \notin raced /\ UserLedger(v)
    BY <1>1 DEF LedgerInv
  <2>2. CASE v # u
    <3>1. ASSUME NEW o \in Threads, th[o].user = v \/ th'[o].user = v PROVE th'[o] = th[o]
      <4>1. threads[o] = th[o]
        BY <1>4, <1>5, <2>2, <3>1, NoneOK
      <4> QED BY <1>5, <2>2, <3>1, <4>1
    <3>2. /\ count'[v] = count[v] /\ outer'[v] = outer[v] /\ ips'[v] = ips[v]
          /\ open'[v] = open[v] /\ (sweep' = v <=> sweep = v)
      BY <1>2, <1>3, <2>2, NoneOK
    <3> QED BY <2>1, <3>1, <3>2, LedgerElsewhere
  <2>3. CASE v = u
    <3>1. /\ Balanced(u) /\ Online(u) = {} /\ sweep' # u
          /\ \A o \in Threads : threads[o].user # u
      BY <2>1, <2>3
    <3>2. \A i \in IPs : ips'[u][i] = ips[u][i]
      BY <1>3, <3>1 DEF Online
    <3>3. Balanced(u)'
      BY <3>1, <3>2 DEF Balanced, CountIs, SlotIs, OpenOf, OpenConns
    <3>4. \A o \in Threads : th'[o].user # u
      BY <1>5, <3>1
    <3> QED BY <2>3, <3>1, <3>3, <3>4 DEF UserLedger
  <2> QED BY <2>2, <2>3
<1> QED BY <1>10, <1>11, <1>12, <1>13 DEF ConnInv

(* DelOuter.                                                               *)
LEMMA DelOuterStep ==
  ASSUME ConnInv, NEW t \in Threads, DelOuter(t)
  PROVE  ConnInv'
<1>1. Sane /\ Typed /\ LedgerInv /\ th[t].at = "delOuter"
  BY DEF ConnInv, Sane, DelOuter, At
<1>2. PICK u \in Users : u = th[t].user /\ u # None /\ th[t] \in Thread /\ th[t].ip \in IPs
  BY <1>1, BusyThread
<1> DEFINE threads == [th EXCEPT ![t] = Idle]
<1>3. Idle \in Thread /\ Idle.user = None
  BY DEF Idle, Thread, Labels
<1>4. threads \in [Threads -> Thread] /\ threads[t] = Idle
      /\ \A o \in Threads \ {t} : threads[o] = th[o]
  BY <1>1, <1>3 DEF Typed
<1>5. DeleteOuter(u, threads) /\ UNCHANGED <<count, sweep, open, raced, connects>>
  BY <1>2 DEF DelOuter
<1> HIDE DEF threads
<1>6. \A o \in Threads : threads[o] = th[o] \/ (threads[o] = Idle /\ th[o].user = u)
  BY <1>2, <1>4
<1>7. ASSUME Realtime, u \notin raced
      PROVE  /\ Balanced(u) /\ Online(u) = {} /\ sweep' # u
             /\ \A o \in Threads : threads[o].user # u
  <2>1. UserLedger(u)
    BY <1>1, <1>7 DEF LedgerInv
  <2>2. Owes(t) /\ sweep # u /\ \A o \in Threads \ {t} : th[o].user # u
    BY <1>2, <2>1 DEF UserLedger
  <2>3. ExtraCount(t) = 0 /\ ExtraSlot(t) = 0
    BY <1>1 DEF ExtraCount, ExtraSlot
  <2>4. Balanced(u)
    BY <1>2, <2>2, <2>3, OwesNothing
  <2>5. Online(u) = {}
    BY <1>1, <1>2, <2>2 DEF Owes, Knows, At
  <2>6. \A o \in Threads : threads[o].user # u
    BY <1>2, <1>3, <1>4, <2>2
  <2> QED BY <1>5, <2>2, <2>4, <2>5, <2>6
<1> QED BY <1>4, <1>5, <1>6, <1>7, DeleteStep

(* ClearOnlineIP takes the packet slots of one user away; the books of a   *)
(* user it finds alone need none of them.                                  *)
LEMMA SweepStep ==
  ASSUME ConnInv, NEW u \in Users, ClearOnlineIP(u)
  PROVE  ConnInv'
<1>1. Sane /\ Typed /\ ClaimsInv /\ Numbered /\ LedgerInv
  BY DEF ConnInv, Sane
<1>2. count' = count /\ outer' = outer /\ th' = th /\ open' = open /\ connects' = connects
      /\ sweep = None /\ outer[u]
  BY DEF ClearOnlineIP
<1>3. /\ ips' \in [Users -> [IPs -> Nat]]
      /\ \A i \in IPs : ips'[u][i] = IF ips[u][i] = 1 THEN 0 ELSE ips[u][i]
      /\ \A v \in Users \ {u} : ips'[v] = ips[v]
  <2>1. ips \in [Users -> [IPs -> Nat]] /\ ips' = [ips EXCEPT ![u] = Swept(u)]
    BY <1>1 DEF Typed, ClearOnlineIP
  <2>2. Swept(u) \in [IPs -> Nat]
        /\ \A i \in IPs : Swept(u)[i] = IF ips[u][i] = 1 THEN 0 ELSE ips[u][i]
    BY <2>1 DEF Swept
  <2>3. ips' \in [Users -> [IPs -> Nat]] /\ ips'[u] = Swept(u)
        /\ \A v \in Users \ {u} : ips'[v] = ips[v]
    BY <2>1, <2>2
  <2> QED BY <2>2, <2>3
<1>4. sweep' = (IF Online(u) = {} THEN u ELSE None) /\ sweep' \in Users \cup {None}
  BY DEF ClearOnlineIP
<1>5. /\ raced' \subseteq Users /\ raced \subseteq raced'
      /\ u \notin raced' => \A o \in Threads : th[o].user # u
  BY <1>1 DEF ClearOnlineIP, Typed
<1>6. Typed'
  BY <1>1, <1>2, <1>3, <1>4, <1>5 DEF Typed
<1>7. \A v \in Users : Online(v)' \subseteq Online(v)
  BY <1>3 DEF Online
<1>8. \A o \in Threads : Shaped(o)'
  BY <1>1, <1>2 DEF Sane, Shaped, At
<1>9. Sane'
  BY <1>1, <1>2, <1>6, <1>7, <1>8 DEF Sane
<1>10. ClaimsInv'
  <2>1. \A v \in Users : Claimed(v)' \subseteq Claimed(v)
    BY <1>2, <1>7 DEF Claimed, Storers
  <2> QED BY <1>1, <1>9, <2>1, ClaimsShrink
<1>11. Numbered'
  BY <1>1, <1>2, NumberedStep
<1>12. LedgerInv'
  <2> SUFFICES ASSUME Realtime, NEW v \in Users \ raced' PROVE UserLedger(v)'
    BY DEF LedgerInv
  <2>1. v \notin raced /\ UserLedger(v)
    BY <1>1, <1>5 DEF LedgerInv
  <2>2. CASE v # u
    <3>1. sweep' = v <=> sweep = v
      BY <1>2, <1>4, <2>2, NoneOK
    <3> QED BY <1>2, <1>3, <2>1, <2>2, <3>1, LedgerElsewhere
  <2>3. CASE v = u
    <3>1. \A o \in Threads : th[o].user # u
      BY <1>5, <2>3
    <3>2. Balanced(u)
      BY <1>2, <2>1, <2>3, <3>1, NoneOK DEF UserLedger, Quiet
    <3>3. CountIs(u, 0)'
      BY <1>2, <3>2 DEF Balanced, CountIs, OpenOf, OpenConns
    <3>4. ASSUME NEW i \in IPs PROVE SlotIs(u, i, 0)'
      <4>1. open[u][i] \in Nat
        BY <1>1 DEF Typed
      <4>2. SlotIs(u, i, 0)
        BY <3>2 DEF Balanced
      <4>3. IPLimit # 0 => ips[u][i] \in {2 * open[u][i], 2 * open[u][i] + 1}
        BY <4>1, <4>2 DEF SlotIs
      <4>4. IPLimit # 0 => ips'[u][i] \in {2 * open[u][i], 2 * open[u][i] + 1}
        <5>1. CASE ips[u][i] = 1
          <6>1. IPLimit # 0 => open[u][i] = 0
            BY <4>1, <4>3, <5>1
          <6>2. ips'[u][i] = 0
            BY <1>3, <5>1
          <6> QED BY <6>1, <6>2
        <5>2. CASE ips[u][i] # 1
          <6>1. ips'[u][i] = ips[u][i]
            BY <1>3, <5>2
          <6> QED BY <4>3, <6>1
        <5> QED BY <5>1, <5>2
      <4>5. open'[u][i] + 0 = open[u][i]
        BY <1>2, <4>1
      <4> QED BY <4>4, <4>5 DEF SlotIs
    <3>5. Balanced(u)'
      BY <3>3, <3>4 DEF Balanced
    <3>6. sweep' = u => Online(u)' = {}
      BY <1>4, <1>7, NoneOK
    <3> QED BY <1>2, <2>3, <3>1, <3>5, <3>6 DEF UserLedger
  <2> QED BY <2>2, <2>3
<1> QED BY <1>9, <1>10, <1>11, <1>12 DEF ConnInv

(* ClearOnlineIP deletes the entry of the user it found empty.             *)
LEMMA ClearOuterStep ==
  ASSUME ConnInv, ClearOuter
  PROVE  ConnInv'
<1>1. Sane /\ Typed /\ LedgerInv /\ sweep # None
  BY DEF ConnInv, Sane, ClearOuter
<1>2. PICK u \in Users : u = sweep
  BY <1>1 DEF Typed
<1>3. DeleteOuter(u, th) /\ sweep' = None /\ UNCHANGED <<count, open, raced, connects>>
  BY <1>2 DEF ClearOuter, DeleteOuter
<1>4. ASSUME Realtime, u \notin raced
      PROVE  /\ Balanced(u) /\ Online(u) = {} /\ sweep' # u
             /\ \A o \in Threads : th[o].user # u
  <2>1. UserLedger(u)
    BY <1>1, <1>4 DEF LedgerInv
  <2> QED BY <1>2, <1>3, <2>1, NoneOK DEF UserLedger
<1>5. th \in [Threads -> Thread]
  BY <1>1 DEF Typed
<1> QED BY <1>2, <1>3, <1>4, <1>5, DeleteStep

-----------------------------------------------------------------------------
(* The theorems.                                                           *)

(* The limiter begins with no entries.                                     *)
LEMMA InitConn == Init => ConnInv
<1> SUFFICES ASSUME Init PROVE ConnInv
  OBVIOUS
<1>1. NoSlots \in [IPs -> Nat] /\ \A i \in IPs : NoSlots[i] = 0
  BY DEF NoSlots
<1>2. Idle \in Thread /\ Idle.user = None /\ Idle.at = "idle" /\ Idle.inner = None
  BY DEF Idle, Thread, Labels
<1>3. Typed
  BY <1>1, <1>2, LimitsOK DEF Init, Typed
<1>4. \A t \in Threads : th[t] = Idle
  BY DEF Init
<1>5. \A t \in Threads : Shaped(t)
  BY <1>2, <1>4 DEF Shaped, At, None
<1>6. \A u \in Users, i \in IPs : ips[u][i] = 0 /\ open[u][i] = 0
  BY <1>1 DEF Init
<1>7. \A u \in Users : Online(u) = {}
  BY <1>6 DEF Online
<1>8. Sane
  BY <1>3, <1>5, <1>7 DEF Sane
<1>9. ClaimsInv
  <2> SUFFICES ASSUME IPLimit # 0, NEW u \in Users
               PROVE  Cardinality(Claimed(u)) <= IPLimit + Cardinality(Threads) - 1
    BY DEF ClaimsInv
  <2>1. Storers(u) = {}
    BY <1>2, <1>4 DEF Storers, Passed
  <2>2. Claimed(u) = {}
    BY <1>7, <2>1 DEF Claimed
  <2>3. Cardinality(Threads) \in Nat
    BY SetsOK, FS_CardinalityType
  <2> QED BY <2>2, <2>3, FS_EmptySet, LimitsOK
<1>10. \A u \in Users : OpenConns(u) = {}
  <2>1. ASSUME NEW u \in Users, NEW i \in IPs PROVE {i} \X (1 .. open[u][i]) = {}
    <3>1. 1 .. open[u][i] = {}
      BY <1>6
    <3> QED BY <3>1
  <2> QED BY <2>1 DEF OpenConns
<1>11. Numbered
  BY <1>10, FS_EmptySet DEF Numbered
<1>12. LedgerInv
  <2> SUFFICES ASSUME NEW u \in Users PROVE UserLedger(u)
    BY DEF LedgerInv
  <2>1. count[u] = 0 /\ OpenOf(u) = 0
    BY <1>10, FS_EmptySet DEF Init, OpenOf
  <2>2. Balanced(u)
    BY <1>6, <2>1 DEF Balanced, CountIs, SlotIs
  <2>3. sweep # u /\ \A t \in Threads : th[t].user # u
    BY <1>2, <1>4, NoneOK DEF Init
  <2> QED BY <2>2, <2>3 DEF UserLedger
<1> QED BY <1>8, <1>9, <1>11, <1>12 DEF ConnInv

(* A step that changes nothing.                                            *)
LEMMA ConnStutters ==
  ASSUME ConnInv, UNCHANGED vars
  PROVE  ConnInv'
<1>1. count' = count /\ outer' = outer /\ ips' = ips /\ th' = th /\ sweep' = sweep
      /\ open' = open /\ raced' = raced /\ connects' = connects
  BY DEF vars
<1>2. Sane'
  BY <1>1 DEF ConnInv, Sane, Typed, Shaped, At, Online
<1>3. ClaimsInv'
  BY <1>1 DEF ConnInv, ClaimsInv, Claimed, Storers, Online
<1>4. Numbered'
  BY <1>1 DEF ConnInv, Numbered, OpenConns
<1>5. LedgerInv'
  <2> SUFFICES ASSUME Realtime, NEW v \in Users \ raced' PROVE UserLedger(v)'
    BY DEF LedgerInv
  <2>1. UserLedger(v)
    BY <1>1 DEF ConnInv, LedgerInv
  <2> QED BY <1>1, <2>1, LedgerElsewhere
<1> QED BY <1>2, <1>3, <1>4, <1>5 DEF ConnInv

(* The inductive invariant of the connection limiter: what each goroutine  *)
(* may still store, how many IPs the goroutines past the check of          *)
(* AddConnCount have claimed, and what the only goroutine of a user still  *)
(* owes the user's books at each of its steps.                             *)
THEOREM CountersStaySound == Spec => []ConnInv
<1>1. Init => ConnInv
  BY InitConn
<1>2. ConnInv /\ [Next]_vars => ConnInv'
  <2> SUFFICES ASSUME ConnInv, [Next]_vars PROVE ConnInv'
    OBVIOUS
  <2>1. ASSUME NEW t \in Threads, NEW u \in Users, NEW i \in IPs, Disconnect(t, u, i)
        PROVE  ConnInv'
    BY <2>1, DisconnectStep
  <2>2. ASSUME NEW t \in Threads, NEW u \in Users, NEW i \in IPs, NEW isTcp \in BOOLEAN,
               Connect(t, u, i, isTcp)
        PROVE  ConnInv'
    BY <2>2, ConnectStep
  <2>3. ASSUME NEW t \in Threads, AddConnCount(t) PROVE ConnInv'
    BY <2>3, CheckCountStep, CheckIPStep, LoadCountStep, StoreCountStep, StoreIPStep, PutIPStep,
       LoadSlotStep, StoreSlotStep DEF AddConnCount
  <2>4. ASSUME NEW t \in Threads, DelConnCount(t) PROVE ConnInv'
    BY <2>4, DelLoadCountStep, DelStoreCountStep, DelLoadSlotStep, DelStoreSlotStep,
       DelRangeStep, DelOuterStep DEF DelConnCount
  <2>5. ASSUME NEW u \in Users, ClearOnlineIP(u) PROVE ConnInv'
    BY <2>5, SweepStep
  <2>6. CASE ClearOuter
    BY <2>6, ClearOuterStep
  <2>7. CASE UNCHANGED vars
    BY <2>7, ConnStutters
  <2> QED BY <2>1, <2>2, <2>3, <2>4, <2>5, <2>6, <2>7 DEF Next
<1> QED BY <1>1, <1>2, PTL DEF Spec

(* The counters and slots have their types, none goes below zero, and a    *)
(* user without an outer entry has no slots.                               *)
THEOREM CountersTypes == Spec => []TypeOK
<1>1. ConnInv => TypeOK
  BY DEF ConnInv, Sane, Typed, TypeOK, Thread
<1> QED BY <1>1, CountersStaySound, PTL

(* The IP limit of AddConnCount is exceeded by the number of goroutines    *)
(* less one at most, whatever sweeps, closes and stores through stale      *)
(* pointers do: only a goroutine that found a free IP adds to the claims,  *)
(* and by then each of the others has claimed one IP at most.              *)
THEOREM IPLimitNearlyKept == Spec => []IPCap
<1>1. ConnInv => IPCap
  <2> SUFFICES ASSUME ConnInv, IPLimit # 0, NEW u \in Users
               PROVE  Cardinality(Online(u)) <= IPLimit + Cardinality(Threads) - 1
    BY DEF IPCap
  <2>1. Sane /\ Cardinality(Claimed(u)) <= IPLimit + Cardinality(Threads) - 1
    BY DEF ConnInv, ClaimsInv
  <2>2. IsFiniteSet(Claimed(u)) /\ Cardinality(Claimed(u)) \in Nat
    BY <2>1, ClaimsFinite
  <2>3. Online(u) \subseteq Claimed(u)
    BY DEF Claimed
  <2>4. IsFiniteSet(Online(u)) /\ Cardinality(Online(u)) <= Cardinality(Claimed(u))
    BY <2>2, <2>3, FS_Subset
  <2>5. Cardinality(Online(u)) \in Nat /\ Cardinality(Threads) \in Nat
    BY <2>4, FS_CardinalityType, SetsOK
  <2> QED BY <2>1, <2>2, <2>4, <2>5, LimitsOK
<1> QED BY <1>1, CountersStaySound, PTL

(* Between the calls for a user whose calls never overlapped, the count is *)
(* the number of open connections and each slot twice those of its IP,     *)
(* plus one for a packet protocol that came first: AddConnCount and        *)
(* DelConnCount balance, whatever the sweep and the other users do.        *)
THEOREM BooksBalance == Spec => []Ledger
<1>1. ConnInv => Ledger
  <2> SUFFICES ASSUME ConnInv, NEW u \in Users \ raced, Quiet(u), Realtime
               PROVE  /\ ConnLimit # 0 => count[u] = OpenOf(u)
                      /\ IPLimit # 0 =>
                           \A i \in IPs : ips[u][i] \in {2 * open[u][i], 2 * open[u][i] + 1}
    BY DEF Ledger
  <2>1. Balanced(u)
    BY DEF ConnInv, LedgerInv, UserLedger
  <2>2. OpenOf(u) \in Nat
    BY FS_CardinalityType DEF ConnInv, Numbered, OpenOf
  <2>3. \A i \in IPs : open[u][i] \in Nat
    BY DEF ConnInv, Sane, Typed
  <2> QED BY <2>1, <2>2, <2>3 DEF Balanced, CountIs, SlotIs
<1> QED BY <1>1, CountersStaySound, PTL

-----------------------------------------------------------------------------
(* The limits, devices and buckets of the same users: Limiter.              *)

\* A goroutine in CheckLimit, and what is known of it while it is there.
CheckRecords == [at : Places, user : Users \cup {None}, ip : IPs \cup {None},
                 limit : Nat, dev : DeviceLimits \cup {0}]
Asked(t) ==
  /\ check[t].at # "idle" => check[t].user \in Users
  /\ check[t].at \notin {"idle", "bucket"} => check[t].ip \in IPs

\* The limit of a bucket without a dynamic limit.
Static(u) == determineSpeedLimit(NodeSpeed, listed[u].speed)

\* Limits in use are those of the list, or about to be deleted.
Entry(u) == info[u] # Gone =>
  IF update.user = u THEN update.at = "delInfo"
  ELSE listed[u] # Gone /\ info[u].speed = listed[u].speed

\* A check runs beside no update and no report of its user, and has taken
\* the limits of the list.
Undisturbed(u) == InCheck(u) =>
  /\ update.user # u /\ report # u /\ listed[u] # Gone
  /\ \A t \in Threads : check[t].user = u =>
       check[t].limit \in {listed[u].speed, determineSpeedLimit(listed[u].speed, DynSpeed)}

\* Between its removal and its return a user has nothing; the bucket it has
\* is no faster than its limits, and what is reported of it is remembered.
Emptied(u) == IF update.user = u THEN update.at = "add" ELSE listed[u] = Gone
Kept(u) ==
  /\ Emptied(u) => bucket[u] = 0 /\ online[u] = {}
  /\ update.user # u /\ listed[u] # Gone /\ Static(u) # 0 => bucket[u] <= Static(u)
  /\ report = u => \A i \in safe[u] : old[i] = u

\* No refusal that could take a safe device away is open.
Firm(u) == \A i \in safe[u], t \in Threads : check[t].user = u =>
  check[t].at \notin {"old", "refuseUser"} /\ (check[t].at = "refuseIP" => check[t].ip # i)

\* The inductive invariant of limits, devices and buckets.
LimiterInv ==
  /\ LimiterTypeOK
  /\ \A t \in Threads : Asked(t)
  /\ \A u \in Users : Firm(u) /\ Entry(u) /\ (u \notin mixed => Undisturbed(u) /\ Kept(u))

(* determineSpeedLimit never goes over a limit that is not zero, and with  *)
(* a dynamic limit on top no bucket is faster.                             *)
LEMMA SlowerStill ==
  ASSUME NEW node \in Nat, NEW s \in Nat, NEW d \in Nat,
         NEW l \in {s, determineSpeedLimit(s, d)}
  PROVE  /\ l \in Nat /\ determineSpeedLimit(node, l) \in Nat
         /\ determineSpeedLimit(node, s) \in Nat
         /\ determineSpeedLimit(node, s) # 0 =>
              determineSpeedLimit(node, l) <= determineSpeedLimit(node, s)
BY DEF determineSpeedLimit

(* An entry of a user is gone, or has limits.                              *)
LEMMA LimitsAre ==
  ASSUME NEW l \in Limits
  PROVE  /\ l.speed \in Nat /\ l.dev \in DeviceLimits \cup {0}
         /\ l = Gone <=> l.dyn = "gone"
         /\ l # Gone => /\ l \in [dyn : {"off", "active", "expired"}, speed : Speeds, dev : DeviceLimits]
                        /\ l.speed \in Speeds /\ l.dev \in DeviceLimits
<1>1. CASE l = Gone
  BY <1>1 DEF Gone
<1>2. CASE l \in [dyn : {"off", "active", "expired"}, speed : Speeds, dev : DeviceLimits]
  <2>1. l.dyn # "gone" /\ l.speed \in Speeds /\ l.dev \in DeviceLimits /\ Gone.dyn = "gone"
    BY <1>2 DEF Gone
  <2>2. l.speed \in Nat
    BY <2>1, NumbersOK
  <2> QED BY <1>2, <2>1, <2>2
<1> QED BY <1>1, <1>2 DEF Limits

(* What a step leaves alone, by user.                                      *)
LEMMA SameUser ==
  ASSUME NEW u \in Users, update' = update \/ (update.user # u /\ update'.user # u),
         listed'[u] = listed[u]
  PROVE  /\ info'[u] = info[u] => (Entry(u) => Entry(u)')
         /\ (\A t \in Threads : check'[t].user = u =>
               check[t].user = u /\ check'[t].limit = check[t].limit) /\ (report' = u => report = u)
            => (Undisturbed(u) => Undisturbed(u)')
         /\ /\ bucket'[u] = bucket[u] /\ online'[u] \subseteq online[u] /\ safe'[u] \subseteq safe[u]
            /\ report' = u => report = u /\ \A i \in safe'[u] : old[i] = u => old'[i] = u
            => (Kept(u) => Kept(u)')
<1>1. Emptied(u)' <=> Emptied(u)
  BY DEF Emptied
<1>2. ASSUME info'[u] = info[u], Entry(u) PROVE Entry(u)'
  BY <1>2 DEF Entry, Gone
<1>3. ASSUME Undisturbed(u), report' = u => report = u,
             \A t \in Threads : check'[t].user = u =>
               check[t].user = u /\ check'[t].limit = check[t].limit
      PROVE  Undisturbed(u)'
  BY <1>3 DEF Undisturbed, InCheck, Gone
<1>4. ASSUME Kept(u), bucket'[u] = bucket[u], online'[u] \subseteq online[u], safe'[u] \subseteq safe[u],
             report' = u => report = u /\ \A i \in safe'[u] : old[i] = u => old'[i] = u
      PROVE  Kept(u)'
  <2>1. Static(u)' = Static(u)
    BY DEF Static
  <2> QED BY <1>1, <1>4, <2>1 DEF Kept, Gone
<1> QED BY <1>2, <1>3, <1>4

(* The goroutine t of a check goes on or ends.                             *)
LEMMA CheckTypes ==
  ASSUME LimiterTypeOK, NEW t \in Threads, NEW w, check' = [check EXCEPT ![t] = w]
  PROVE  check'[t] = w /\ \A o \in Threads \ {t} : check'[o] = check[o]
BY DEF LimiterTypeOK
\* A goroutine that does nothing in a step: its map may be dropped.
Slipped(o) ==
  /\ check'[o].user = check[o].user /\ check'[o].ip = check[o].ip
  /\ check'[o].limit = check[o].limit
  /\ \/ check'[o].at = check[o].at
     \/ check[o].at \in {"inner", "refuseIP"} /\ check'[o].at \in {"lostInner", "lostRefuse"}

(* The records a goroutine goes on with.                                   *)
LEMMA NextRecord ==
  ASSUME NEW c \in CheckRecords
  PROVE  /\ NoCheck \in CheckRecords /\ NoCheck.at = "idle" /\ NoCheck.user = None
         /\ ForBucket(c) \in CheckRecords /\ ForBucket(c).at = "bucket"
         /\ ForBucket(c).user = c.user /\ ForBucket(c).limit = c.limit
BY DEF CheckRecords, NoCheck, ForBucket, Places, None

(* The same goroutine at another place.                                    *)
LEMMA NextPlace ==
  ASSUME NEW c \in CheckRecords, NEW a \in Places
  PROVE  /\ [c EXCEPT !.at = a] \in CheckRecords /\ [c EXCEPT !.at = a].at = a
         /\ [c EXCEPT !.at = a].user = c.user /\ [c EXCEPT !.at = a].ip = c.ip
         /\ [c EXCEPT !.at = a].limit = c.limit
BY DEF CheckRecords

(* A goroutine that holds a dropped map stays where it is, for its user.   *)
LEMMA DetachedRecord ==
  ASSUME LimiterTypeOK, NEW u \in Users, NEW o \in Threads
  PROVE  /\ Detached(u)[o] \in CheckRecords
         /\ Detached(u)[o].user = check[o].user /\ Detached(u)[o].ip = check[o].ip
         /\ Detached(u)[o].limit = check[o].limit
         /\ \/ Detached(u)[o].at = check[o].at
            \/ /\ check[o].at \in {"inner", "refuseIP"}
               /\ Detached(u)[o].at \in {"lostInner", "lostRefuse"}
<1>1. check[o] \in CheckRecords
  BY DEF LimiterTypeOK, CheckRecords
<1> DEFINE a == CASE check[o].at = "inner" -> "lostInner"
                  [] check[o].at = "refuseIP" -> "lostRefuse" [] OTHER -> check[o].at
<1>2. Detached(u)[o] = IF check[o].user # u THEN check[o] ELSE [check[o] EXCEPT !.at = a]
  BY DEF Detached
<1>3. \/ a = check[o].at
      \/ check[o].at \in {"inner", "refuseIP"} /\ a \in {"lostInner", "lostRefuse"}
  OBVIOUS
<1>4. a \in Places
  BY <1>1, <1>3 DEF CheckRecords, Places
<1> HIDE DEF a
<1> QED BY <1>1, <1>2, <1>3, <1>4 DEF CheckRecords

(* What the goroutines know while t alone goes on.                         *)
LEMMA CheckMoves ==
  ASSUME LimiterInv, NEW t \in Threads, check[t].at # "idle",
         NEW w \in CheckRecords, check'[t] = w, \A o \in Threads \ {t} : Slipped(o),
         \/ w.at = "idle" /\ w.user = None
         \/ w.user = check[t].user /\ w.limit = check[t].limit,
         w.at \in {"idle", "bucket"} \/ (check[t].at # "bucket" /\ w.ip = check[t].ip)
  PROVE  /\ check[t].user \in Users
         /\ \A o \in Threads : Asked(o)'
         /\ \A o \in Threads : check'[o].user = None \/
              (check'[o].user = check[o].user /\ check'[o].limit = check[o].limit)
<1>1. check[t].user \in Users /\ (check[t].at # "bucket" => check[t].ip \in IPs)
  BY DEF LimiterInv, Asked
<1>2. Asked(t)'
  BY <1>1 DEF Asked
<1>3. ASSUME NEW o \in Threads \ {t} PROVE Asked(o)'
  BY <1>3 DEF LimiterInv, Asked, Slipped
<1> QED BY <1>1, <1>2, <1>3 DEF Slipped

(* A safe device stays so while the goroutines go on with others.          *)
LEMMA StaysFirm ==
  ASSUME LimiterInv, NEW v \in Users, safe'[v] \subseteq safe[v],
         \A o \in Threads : Slipped(o) \/ check'[o].user # v \/
           check'[o].at \notin {"old", "refuseUser", "refuseIP"}
  PROVE  Firm(v)'
BY DEF LimiterInv, Firm, Slipped

(* A step of the goroutine t that decides about its user's device.         *)
LEMMA DeviceStep ==
  ASSUME LimiterInv, NEW t \in Threads, check[t].at # "idle",
         check' \in [Threads -> CheckRecords],
         NEW w \in CheckRecords, check'[t] = w, \A o \in Threads \ {t} : Slipped(o),
         \/ w.at = "idle" /\ w.user = None
         \/ w.user = check[t].user /\ w.limit = check[t].limit,
         w.at \in {"idle", "bucket"} \/ (check[t].at # "bucket" /\ w.ip = check[t].ip),
         UNCHANGED <<info, alive, bucket, listed, update, report, stale, mixed>>,
         online' \in [Users -> SUBSET IPs], safe' \in [Users -> SUBSET IPs],
         old' \in [IPs -> Users \cup {None}],
         \A v \in Users : safe'[v] \subseteq online'[v],
         \A v \in Users \ {check[t].user} :
           /\ online'[v] = online[v] /\ safe'[v] \subseteq safe[v]
           /\ report = v => \A i \in safe'[v] : old'[i] = old[i],
         \A i \in safe'[check[t].user] :
           /\ i \in safe[check[t].user] \/ ~Open(t, check[t].user, i)
           /\ w.at \notin {"old", "refuseUser"} /\ (w.at = "refuseIP" => w.ip # i)
  PROVE  LimiterInv'
<1>1. LimiterTypeOK
  BY DEF LimiterInv
<1>2. /\ check[t].user \in Users
      /\ \A o \in Threads : Asked(o)'
      /\ \A o \in Threads : check'[o].user = None \/
           (check'[o].user = check[o].user /\ check'[o].limit = check[o].limit)
  BY CheckMoves
<1>3. PICK u \in Users : u = check[t].user
  BY <1>2
<1>4. LimiterTypeOK'
  BY <1>1 DEF LimiterTypeOK, CheckRecords, None
<1>5. ASSUME NEW v \in Users PROVE Firm(v)'
  <2>1. CASE v = u
    <3> SUFFICES ASSUME NEW i \in safe'[u], NEW o \in Threads, check'[o].user = u
                 PROVE  /\ check'[o].at \notin {"old", "refuseUser"}
                        /\ check'[o].at = "refuseIP" => check'[o].ip # i
      BY <2>1 DEF Firm
    <3>1. CASE o = t
      BY <1>3, <3>1
    <3>2. CASE o # t
      <4>1. Slipped(o)
        BY <3>2
      <4>2. i \in safe[u] \/ ~Open(t, u, i)
        BY <1>3
      <4>3. /\ check[o].at \notin {"old", "refuseUser"}
            /\ check[o].at = "refuseIP" => check[o].ip # i
        BY <3>2, <4>1, <4>2 DEF Open, LimiterInv, Firm, Slipped
      <4> QED BY <4>1, <4>3 DEF Slipped
    <3> QED BY <3>1, <3>2
  <2>2. CASE v # u
    <3>1. check'[t].user # v
      BY <1>3, <2>2, NoneOK
    <3> QED BY <1>3, <2>2, <3>1, StaysFirm
  <2> QED BY <2>1, <2>2
<1>6. ASSUME NEW v \in Users PROVE Entry(v)' /\ (v \notin mixed' => Undisturbed(v)' /\ Kept(v)')
  <2>1. Entry(v) /\ (v \notin mixed => Undisturbed(v) /\ Kept(v))
    BY DEF LimiterInv
  <2>2. Entry(v)' /\ (Undisturbed(v) => Undisturbed(v)')
    BY <1>2, <2>1, SameUser, NoneOK
  <2>3. CASE v # u
    <3>1. Kept(v) => Kept(v)'
      BY <1>3, <2>3, SameUser
    <3> QED BY <2>1, <2>2, <3>1
  <2>4. CASE v = u /\ v \notin mixed
    <3>1. InCheck(u)
      BY <1>3 DEF InCheck
    <3>2. update.user # u /\ report # u /\ listed[u] # Gone
      BY <2>1, <2>4, <3>1 DEF Undisturbed
    <3>3. Kept(u)'
      BY <2>1, <2>4, <3>2 DEF Kept, Emptied, Static, Gone, determineSpeedLimit
    <3> QED BY <2>1, <2>2, <2>4, <3>3
  <2> QED BY <2>2, <2>3, <2>4
<1> QED BY <1>2, <1>4, <1>5, <1>6 DEF LimiterInv

-----------------------------------------------------------------------------
LEMMA KeepCheckUser ==
  ASSUME LimiterInv, NEW t \in Threads, NEW u \in Users, NEW i \in IPs,
         NEW noSSUDP \in BOOLEAN, CheckUser(t, u, i, noSSUDP)
  PROVE  LimiterInv'
<1>1. LimiterTypeOK
  BY DEF LimiterInv
<1> DEFINE s == info[u].speed
           l == IF info[u].dyn = "active" THEN determineSpeedLimit(s, DynSpeed) ELSE s
           c == [at |-> "device", user |-> u, ip |-> i, dev |-> info[u].dev, limit |-> l]
           w == IF noSSUDP THEN c ELSE ForBucket(c)
<1>2. /\ info[u] \in Limits /\ info[u].dyn # "gone" /\ check' = [check EXCEPT ![t] = w]
      /\ UNCHANGED <<online, old, alive, bucket, listed, update, report, stale, safe>>
      /\ mixed' = IF update.user = u \/ report = u THEN mixed \cup {u} ELSE mixed
  BY <1>1 DEF LimiterTypeOK, CheckUser
<1>3. /\ info[u] # Gone /\ info[u].dev \in DeviceLimits /\ s \in Speeds /\ s \in Nat
      /\ info[u] \in [dyn : {"off", "active", "expired"}, speed : Speeds, dev : DeviceLimits]
  BY <1>2, LimitsAre
<1>4. l \in Nat /\ l \in {s, determineSpeedLimit(s, DynSpeed)}
  BY <1>3, SlowerStill, NumbersOK
<1>5. /\ info' \in [Users -> Limits] /\ \A v \in Users \ {u} : info'[v] = info[v]
      /\ info'[u] # Gone => info'[u].speed = s
  <2>1. CASE info[u].dyn # "expired"
    <3>1. info' = info
      BY <2>1 DEF CheckUser
    <3> QED BY <1>1, <3>1 DEF LimiterTypeOK
  <2>2. CASE info[u].dyn = "expired" /\ s # 0
    <3>1. info' = [info EXCEPT ![u].dyn = "off"]
      BY <2>2 DEF CheckUser
    <3>2. [info[u] EXCEPT !.dyn = "off"] \in Limits /\ [info[u] EXCEPT !.dyn = "off"].speed = s
      BY <1>3 DEF Limits
    <3> QED BY <1>1, <3>1, <3>2 DEF LimiterTypeOK
  <2>3. CASE info[u].dyn = "expired" /\ s = 0
    <3>1. info' = [info EXCEPT ![u] = Gone]
      BY <2>3 DEF CheckUser
    <3>2. Gone \in Limits
      BY DEF Limits
    <3> QED BY <1>1, <3>1, <3>2 DEF LimiterTypeOK
  <2> QED BY <2>1, <2>2, <2>3
<1> HIDE DEF l
<1>6. /\ w \in CheckRecords /\ w.user = u /\ w.limit = l
      /\ w.at \in {"device", "bucket"} /\ (w.at = "device" => w.ip = i)
  <2>1. /\ c \in CheckRecords /\ c.at = "device" /\ c.user = u /\ c.ip = i /\ c.limit = l
    BY <1>3, <1>4 DEF CheckRecords, Places
  <2> HIDE DEF c
  <2>2. CASE noSSUDP
    BY <2>1, <2>2
  <2>3. CASE ~noSSUDP
    <3>1. w = ForBucket(c)
      BY <2>3
    <3> QED BY <2>1, <3>1, NextRecord
  <2> QED BY <2>2, <2>3
<1> HIDE DEF w
<1>7. check'[t] = w /\ \A o \in Threads \ {t} : check'[o] = check[o]
  BY <1>1, <1>2, CheckTypes
<1>8. LimiterTypeOK'
  <2>1. check' \in [Threads -> CheckRecords]
    BY <1>1, <1>2, <1>6 DEF LimiterTypeOK, CheckRecords
  <2>2. mixed' \subseteq Users
    BY <1>1, <1>2 DEF LimiterTypeOK
  <2> QED BY <1>1, <1>2, <1>5, <2>1, <2>2 DEF LimiterTypeOK, CheckRecords, None
<1>9. ASSUME NEW v \in Users PROVE Entry(v)' /\ (v \notin mixed' => Undisturbed(v)' /\ Kept(v)')
  <2>1. Entry(v) /\ (v \notin mixed => Undisturbed(v) /\ Kept(v)) /\ (v \notin mixed' => v \notin mixed)
    BY <1>2 DEF LimiterInv
  <2>2. Kept(v) => Kept(v)'
    BY <1>2, SameUser
  <2>3. CASE v # u
    BY <1>2, <1>5, <1>6, <1>7, <2>1, <2>2, <2>3, SameUser
  <2>4. CASE v = u
    <3>1. Entry(u)'
      BY <1>2, <1>3, <1>5, <2>1, <2>4 DEF Entry, Gone
    <3>2. ASSUME u \notin mixed' PROVE Undisturbed(u)'
      <4>1. update.user # u /\ report # u
        BY <1>2, <3>2
      <4>2. listed[u] # Gone /\ s = listed[u].speed
        BY <1>3, <2>1, <2>4, <4>1 DEF Entry
      <4>3. \A o \in Threads : check'[o].user = u =>
              check'[o].limit \in {listed[u].speed, determineSpeedLimit(listed[u].speed, DynSpeed)}
        BY <1>2, <1>4, <1>6, <1>7, <2>1, <2>4, <3>2, <4>2 DEF Undisturbed, InCheck
      <4> QED BY <1>2, <4>1, <4>2, <4>3 DEF Undisturbed, Gone, determineSpeedLimit
    <3> QED BY <2>1, <2>2, <2>4, <3>1, <3>2
  <2> QED BY <2>3, <2>4
<1>10. \A o \in Threads : Asked(o)'
  BY <1>6, <1>7 DEF LimiterInv, Asked
<1>11. \A v \in Users : Firm(v)'
  BY <1>2, <1>6, <1>7, StaysFirm DEF Slipped
<1> QED BY <1>8, <1>9, <1>10, <1>11 DEF LimiterInv

(* A goroutine decides about the device of its user.                       *)
LEMMA AskedOf ==
  ASSUME LimiterInv, NEW t \in Threads, check[t].at \notin {"idle", "bucket"}
  PROVE  /\ check[t] \in CheckRecords /\ check \in [Threads -> CheckRecords]
         /\ check[t].user \in Users /\ check[t].ip \in IPs
         /\ online \in [Users -> SUBSET IPs] /\ old \in [IPs -> Users \cup {None}]
         /\ safe \in [Users -> SUBSET IPs] /\ \A v \in Users : safe[v] \subseteq online[v]
<1>1. check \in [Threads -> CheckRecords]
  BY DEF LimiterInv, LimiterTypeOK, CheckRecords
<1> QED BY <1>1 DEF LimiterInv, LimiterTypeOK, Asked

(* The goroutine t alone changes its place.                                *)
LEMMA OneMoves ==
  ASSUME NEW t \in Threads, check \in [Threads -> CheckRecords], NEW w \in CheckRecords,
         check' = [check EXCEPT ![t] = w]
  PROVE  /\ check' \in [Threads -> CheckRecords] /\ check'[t] = w
         /\ \A o \in Threads \ {t} : Slipped(o)
BY DEF Slipped

LEMMA KeepCheckDevice ==
  ASSUME LimiterInv, NEW t \in Threads, CheckDevice(t)
  PROVE  LimiterInv'
<1>1. check[t].at = "device"
  BY DEF CheckDevice
<1>2. PICK u \in Users, i \in IPs : u = check[t].user /\ i = check[t].ip
  BY <1>1, AskedOf
<1> DEFINE a == IF online[u] = {} THEN "old" ELSE "inner"
           d == IF check[t].dev <= alive[u] THEN check[t].dev ELSE 0
           w == [check[t] EXCEPT !.at = a, !.dev = d]
<1>3. /\ w \in CheckRecords /\ w.at = a
      /\ w.user = u /\ w.limit = check[t].limit /\ w.ip = i
  <2>1. check[t] \in CheckRecords
    BY <1>1, AskedOf
  <2>2. a \in Places /\ d \in {check[t].dev, 0}
    BY DEF Places
  <2> HIDE DEF a, d
  <2> QED BY <1>2, <2>1, <2>2 DEF CheckRecords
<1>4. check' = [check EXCEPT ![t] = w]
  BY <1>2 DEF CheckDevice
<1> HIDE DEF w
<1>5. /\ check' \in [Threads -> CheckRecords] /\ check'[t] = w
      /\ \A o \in Threads \ {t} : Slipped(o)
  BY <1>1, <1>3, <1>4, AskedOf, OneMoves
<1>6. /\ UNCHANGED <<info, old, alive, bucket, listed, update, report, stale, safe, mixed>>
      /\ online' = [online EXCEPT ![u] = IF online[u] = {} THEN {i} ELSE online[u]]
  BY <1>2 DEF CheckDevice
<1>7. /\ online' \in [Users -> SUBSET IPs]
      /\ \A v \in Users : safe'[v] \subseteq online'[v]
      /\ \A v \in Users \ {u} : online'[v] = online[v]
      /\ w.at = "old" => safe[u] = {}
  BY <1>1, <1>3, <1>6, AskedOf
<1> QED BY <1>1, <1>2, <1>3, <1>5, <1>6, <1>7, AskedOf, DeviceStep

(* A device that is let in is safe unless somebody else may take it away.  *)
LEMMA LetInIs ==
  ASSUME LimiterInv, NEW t \in Threads, check[t].at \notin {"idle", "bucket"}, LetIn(t),
         online' \in [Users -> SUBSET IPs], \A v \in Users : online[v] \subseteq online'[v]
  PROVE  /\ safe' \in [Users -> SUBSET IPs] /\ \A v \in Users : safe'[v] \subseteq online'[v]
         /\ \A v \in Users \ {check[t].user} : safe'[v] = safe[v]
         /\ \A i \in safe'[check[t].user] :
              i \in safe[check[t].user] \/ ~Open(t, check[t].user, i)
<1>1. PICK u \in Users, i \in IPs : u = check[t].user /\ i = check[t].ip
  BY AskedOf
<1>2. safe' = IF i \in online'[u] /\ ~Open(t, u, i) THEN [safe EXCEPT ![u] = @ \cup {i}] ELSE safe
  BY <1>1 DEF LetIn
<1>3. safe \in [Users -> SUBSET IPs] /\ \A v \in Users : safe[v] \subseteq online[v]
  BY AskedOf
<1> HIDE DEF LetIn, Open
<1> QED BY <1>1, <1>2, <1>3

LEMMA KeepCheckInner ==
  ASSUME LimiterInv, NEW t \in Threads, CheckInner(t)
  PROVE  LimiterInv'
<1>1. check[t].at = "inner"
  BY DEF CheckInner
<1>2. PICK u \in Users, i \in IPs : u = check[t].user /\ i = check[t].ip
  BY <1>1, AskedOf
<1>3. /\ UNCHANGED <<info, old, alive, bucket, listed, update, report, stale, mixed>>
      /\ online' = [online EXCEPT ![u] = @ \cup {i}]
  BY <1>2 DEF CheckInner
<1>4. /\ online' \in [Users -> SUBSET IPs] /\ \A v \in Users : online[v] \subseteq online'[v]
      /\ \A v \in Users \ {u} : online'[v] = online[v]
  BY <1>1, <1>3, AskedOf
<1>5. CASE GotoBucket(t) /\ LetIn(t)
  <2> DEFINE w == ForBucket(check[t])
  <2>1. /\ w \in CheckRecords /\ w.at = "bucket"
        /\ w.user = u /\ w.limit = check[t].limit
    BY <1>1, <1>2, AskedOf, NextRecord
  <2>2. check' = [check EXCEPT ![t] = w]
    BY <1>5 DEF GotoBucket
  <2> HIDE DEF w
  <2>3. /\ check' \in [Threads -> CheckRecords] /\ check'[t] = w
        /\ \A o \in Threads \ {t} : Slipped(o)
    BY <1>1, <2>1, <2>2, AskedOf, OneMoves
  <2>4. /\ safe' \in [Users -> SUBSET IPs] /\ \A v \in Users : safe'[v] \subseteq online'[v]
        /\ \A v \in Users \ {u} : safe'[v] = safe[v]
        /\ \A j \in safe'[u] : j \in safe[u] \/ ~Open(t, u, j)
    BY <1>1, <1>2, <1>4, <1>5, LetInIs
  <2> QED BY <1>1, <1>2, <1>3, <1>4, <2>1, <2>3, <2>4, AskedOf, DeviceStep
<1>6. CASE i \notin online[u] /\ GoOn(t, "refuseIP") /\ UNCHANGED safe
  <2> DEFINE w == [check[t] EXCEPT !.at = "refuseIP"]
  <2>1. /\ w \in CheckRecords /\ w.at = "refuseIP"
        /\ w.user = u /\ w.limit = check[t].limit /\ w.ip = i
    <3>1. check[t] \in CheckRecords /\ "refuseIP" \in Places
      BY <1>1, AskedOf DEF Places
    <3> QED BY <1>2, <3>1, NextPlace
  <2>2. check' = [check EXCEPT ![t] = w]
    BY <1>6 DEF GoOn
  <2> HIDE DEF w
  <2>3. /\ check' \in [Threads -> CheckRecords] /\ check'[t] = w
        /\ \A o \in Threads \ {t} : Slipped(o)
    BY <1>1, <2>1, <2>2, AskedOf, OneMoves
  <2>4. /\ safe' \in [Users -> SUBSET IPs] /\ \A v \in Users : safe'[v] \subseteq online'[v]
        /\ i \notin safe[u]
    BY <1>1, <1>4, <1>6, AskedOf
  <2> QED BY <1>1, <1>2, <1>3, <1>4, <1>6, <2>1, <2>3, <2>4, AskedOf, DeviceStep
<1> QED BY <1>2, <1>5, <1>6 DEF CheckInner

LEMMA KeepRefuseIP ==
  ASSUME LimiterInv, NEW t \in Threads, RefuseIP(t)
  PROVE  LimiterInv'
<1>1. check[t].at = "refuseIP"
  BY DEF RefuseIP
<1>2. PICK u \in Users, i \in IPs : u = check[t].user /\ i = check[t].ip
  BY <1>1, AskedOf
<1>3. /\ UNCHANGED <<info, old, alive, bucket, listed, update, report, stale, mixed>>
      /\ online' = [online EXCEPT ![u] = @ \ {i}] /\ safe' = [safe EXCEPT ![u] = @ \ {i}]
      /\ check' = [check EXCEPT ![t] = NoCheck]
  BY <1>2 DEF RefuseIP, Done
<1>4. NoCheck \in CheckRecords /\ NoCheck.at = "idle" /\ NoCheck.user = None
  BY <1>1, AskedOf, NextRecord
<1>5. /\ check' \in [Threads -> CheckRecords] /\ check'[t] = NoCheck
      /\ \A o \in Threads \ {t} : Slipped(o)
  BY <1>1, <1>3, <1>4, AskedOf, OneMoves
<1>6. /\ online' \in [Users -> SUBSET IPs] /\ safe' \in [Users -> SUBSET IPs]
      /\ \A v \in Users : safe'[v] \subseteq online'[v]
      /\ \A v \in Users \ {u} : online'[v] = online[v] /\ safe'[v] = safe[v]
      /\ safe'[u] \subseteq safe[u]
  BY <1>1, <1>3, AskedOf
<1> QED BY <1>1, <1>2, <1>3, <1>4, <1>5, <1>6, AskedOf, DeviceStep

LEMMA KeepCheckLost ==
  ASSUME LimiterInv, NEW t \in Threads, CheckLost(t)
  PROVE  LimiterInv'
<1>1. check[t].at \in {"lostInner", "lostRefuse"}
  BY DEF CheckLost
<1>2. UNCHANGED <<info, online, old, alive, bucket, listed, update, report, stale, safe, mixed>>
  BY DEF CheckLost
<1>3. PICK w \in {NoCheck, ForBucket(check[t])} : check' = [check EXCEPT ![t] = w]
  BY DEF CheckLost, Done, GotoBucket
<1>4. /\ w \in CheckRecords /\ w.at \in {"idle", "bucket"}
      /\ \/ w.at = "idle" /\ w.user = None
         \/ w.user = check[t].user /\ w.limit = check[t].limit
  BY <1>1, <1>3, AskedOf, NextRecord
<1>5. /\ check' \in [Threads -> CheckRecords] /\ check'[t] = w
      /\ \A o \in Threads \ {t} : Slipped(o)
  BY <1>1, <1>3, <1>4, AskedOf, OneMoves
<1>6. \A v \in Users : safe'[v] \subseteq online'[v]
  BY <1>1, <1>2, AskedOf
<1> QED BY <1>1, <1>2, <1>4, <1>5, <1>6, AskedOf, DeviceStep

LEMMA KeepCheckOld ==
  ASSUME LimiterInv, NEW t \in Threads, CheckOld(t)
  PROVE  LimiterInv'
<1>1. check[t].at = "old"
  BY DEF CheckOld
<1>2. PICK u \in Users, i \in IPs : u = check[t].user /\ i = check[t].ip
  BY <1>1, AskedOf
<1>3. UNCHANGED <<info, online, old, alive, bucket, listed, update, report, stale, mixed>>
  BY DEF CheckOld
<1>4. CASE LetIn(t) /\ (GotoBucket(t) \/ GoOn(t, "forgetOld"))
  <2>1. PICK w \in {ForBucket(check[t]), [check[t] EXCEPT !.at = "forgetOld"]} :
          check' = [check EXCEPT ![t] = w]
    BY <1>4 DEF GotoBucket, GoOn
  <2>2. /\ w \in CheckRecords /\ w.at \in {"bucket", "forgetOld"}
        /\ w.user = u /\ w.limit = check[t].limit /\ (w.at = "bucket" \/ w.ip = i)
    <3>1. CASE w = ForBucket(check[t])
      BY <1>1, <1>2, <3>1, AskedOf, NextRecord
    <3>2. CASE w = [check[t] EXCEPT !.at = "forgetOld"]
      <4>1. check[t] \in CheckRecords /\ "forgetOld" \in Places
        BY <1>1, AskedOf DEF Places
      <4> QED BY <1>2, <3>2, <4>1, NextPlace
    <3> QED BY <2>1, <3>1, <3>2
  <2>3. /\ check' \in [Threads -> CheckRecords] /\ check'[t] = w
        /\ \A o \in Threads \ {t} : Slipped(o)
    BY <1>1, <2>1, <2>2, AskedOf, OneMoves
  <2>4. /\ safe' \in [Users -> SUBSET IPs] /\ \A v \in Users : safe'[v] \subseteq online'[v]
        /\ \A v \in Users \ {u} : safe'[v] = safe[v]
        /\ \A j \in safe'[u] : j \in safe[u] \/ ~Open(t, u, j)
    BY <1>1, <1>2, <1>3, <1>4, AskedOf, LetInIs
  <2> QED BY <1>1, <1>2, <1>3, <2>2, <2>3, <2>4, AskedOf, DeviceStep
<1>5. CASE GoOn(t, "refuseUser") /\ UNCHANGED safe
  <2> DEFINE w == [check[t] EXCEPT !.at = "refuseUser"]
  <2>1. /\ w \in CheckRecords /\ w.at = "refuseUser"
        /\ w.user = u /\ w.limit = check[t].limit /\ w.ip = i
    <3>1. check[t] \in CheckRecords /\ "refuseUser" \in Places
      BY <1>1, AskedOf DEF Places
    <3> QED BY <1>2, <3>1, NextPlace
  <2>2. check' = [check EXCEPT ![t] = w]
    BY <1>5 DEF GoOn
  <2> HIDE DEF w
  <2>3. /\ check' \in [Threads -> CheckRecords] /\ check'[t] = w
        /\ \A o \in Threads \ {t} : Slipped(o)
    BY <1>1, <2>1, <2>2, AskedOf, OneMoves
  <2>4. safe[u] = {}
    BY <1>1, <1>2, AskedOf DEF LimiterInv, Firm
  <2>5. /\ safe' \in [Users -> SUBSET IPs] /\ \A v \in Users : safe'[v] \subseteq online'[v]
    BY <1>1, <1>3, <1>5, AskedOf
  <2> QED BY <1>1, <1>2, <1>3, <1>5, <2>1, <2>3, <2>4, <2>5, AskedOf, DeviceStep
<1> QED BY <1>4, <1>5 DEF CheckOld

(* An old device that goes is not a safe one of the user being reported.   *)
LEMMA WipeIs ==
  ASSUME LimiterTypeOK, NEW i \in IPs, Wipe(i)
  PROVE  /\ old' \in [IPs -> Users \cup {None}] /\ safe' \in [Users -> SUBSET IPs]
         /\ \A v \in Users : safe'[v] \subseteq safe[v]
         /\ \A v \in Users : report = v => \A j \in safe'[v] : old'[j] = old[j]
<1>1. CASE report = None
  BY <1>1, NoneOK DEF Wipe, LimiterTypeOK
<1>2. CASE report # None
  <2>1. safe' = [safe EXCEPT ![report] = safe[report] \ {i}] /\ old' = [old EXCEPT ![i] = None]
    BY <1>2 DEF Wipe
  <2> QED BY <1>2, <2>1 DEF LimiterTypeOK
<1> QED BY <1>1, <1>2

LEMMA KeepForgetOld ==
  ASSUME LimiterInv, NEW t \in Threads, ForgetOld(t)
  PROVE  LimiterInv'
<1>1. check[t].at = "forgetOld"
  BY DEF ForgetOld
<1>2. PICK u \in Users, i \in IPs : u = check[t].user /\ i = check[t].ip
  BY <1>1, AskedOf
<1> DEFINE w == ForBucket(check[t])
<1>3. /\ UNCHANGED <<info, online, alive, bucket, listed, update, report, stale, mixed>>
      /\ Wipe(i) /\ check' = [check EXCEPT ![t] = w]
  BY <1>2 DEF ForgetOld, GotoBucket
<1>4. /\ w \in CheckRecords /\ w.at = "bucket" /\ w.user = u /\ w.limit = check[t].limit
  BY <1>1, <1>2, AskedOf, NextRecord
<1> HIDE DEF w
<1>5. /\ check' \in [Threads -> CheckRecords] /\ check'[t] = w
      /\ \A o \in Threads \ {t} : Slipped(o)
  BY <1>1, <1>3, <1>4, AskedOf, OneMoves
<1>6. /\ old' \in [IPs -> Users \cup {None}] /\ safe' \in [Users -> SUBSET IPs]
      /\ \A v \in Users : safe'[v] \subseteq safe[v]
      /\ \A v \in Users : report = v => \A j \in safe'[v] : old'[j] = old[j]
  BY <1>3, WipeIs DEF LimiterInv
<1>7. \A v \in Users : safe'[v] \subseteq online'[v]
  BY <1>1, <1>3, <1>6, AskedOf
<1> QED BY <1>1, <1>2, <1>3, <1>4, <1>5, <1>6, <1>7, AskedOf, DeviceStep

LEMMA KeepRefuseUser ==
  ASSUME LimiterInv, NEW t \in Threads, RefuseUser(t)
  PROVE  LimiterInv'
<1>1. check[t].at = "refuseUser"
  BY DEF RefuseUser
<1>2. PICK u \in Users, i \in IPs : u = check[t].user /\ i = check[t].ip
  BY <1>1, AskedOf
<1>3. /\ UNCHANGED <<info, old, alive, bucket, listed, update, report, stale, mixed>>
      /\ online' = [online EXCEPT ![u] = {}] /\ safe' = [safe EXCEPT ![u] = {}]
      /\ check' = [Detached(u) EXCEPT ![t] = NoCheck]
  BY <1>2 DEF RefuseUser, DropEntry
<1>4. NoCheck \in CheckRecords /\ NoCheck.at = "idle" /\ NoCheck.user = None
  BY <1>1, AskedOf, NextRecord
<1>5. Detached(u) \in [Threads -> CheckRecords]
  <2>1. Detached(u) = [o \in Threads |-> Detached(u)[o]]
    BY Zenon DEF Detached
  <2> QED BY <2>1, DetachedRecord DEF LimiterInv
<1>6. /\ check' \in [Threads -> CheckRecords] /\ check'[t] = NoCheck
      /\ \A o \in Threads \ {t} : Slipped(o)
  <2>1. \A o \in Threads \ {t} : check'[o] = Detached(u)[o]
    BY <1>3, <1>5
  <2> QED BY <1>3, <1>4, <1>5, <2>1, DetachedRecord DEF Slipped, LimiterInv
<1>7. /\ online' \in [Users -> SUBSET IPs] /\ safe' \in [Users -> SUBSET IPs]
      /\ \A v \in Users : safe'[v] \subseteq online'[v]
      /\ \A v \in Users \ {u} : online'[v] = online[v] /\ safe'[v] = safe[v]
      /\ safe'[u] = {}
  BY <1>1, <1>3, AskedOf
<1> QED BY <1>1, <1>2, <1>3, <1>4, <1>6, <1>7, AskedOf, DeviceStep

(* The bucket is made from the limits of the list, or was.                 *)
LEMMA KeepCheckBucket ==
  ASSUME LimiterInv, NEW t \in Threads, CheckBucket(t)
  PROVE  LimiterInv'
<1>1. LimiterTypeOK /\ check[t].at = "bucket"
  BY DEF LimiterInv, CheckBucket
<1>2. PICK u \in Users : u = check[t].user
  BY <1>1 DEF LimiterInv, Asked
<1> DEFINE limit == determineSpeedLimit(NodeSpeed, check[t].limit)
<1>3. /\ UNCHANGED <<info, online, old, alive, listed, update, report, stale, safe, mixed, done>>
      /\ check' = [check EXCEPT ![t] = NoCheck]
      /\ bucket' = [bucket EXCEPT ![u] = IF @ = 0 THEN limit ELSE @]
  BY <1>2 DEF CheckBucket, Done
<1>4. check[t].limit \in Nat /\ limit \in Nat
  <2>1. check[t].limit \in Nat /\ NodeSpeed \in Nat
    BY <1>1, NumbersOK DEF LimiterTypeOK
  <2> QED BY <2>1 DEF determineSpeedLimit
<1> HIDE DEF limit
<1>5. /\ check' \in [Threads -> CheckRecords]
      /\ \A o \in Threads : Asked(o)'
      /\ \A o \in Threads : check'[o].user = None \/
           (check'[o].user = check[o].user /\ check'[o].limit = check[o].limit)
      /\ \A v \in Users : Firm(v)'
  <2>1. check \in [Threads -> CheckRecords]
    BY <1>1 DEF LimiterTypeOK, CheckRecords
  <2>2. NoCheck \in CheckRecords /\ NoCheck.at = "idle" /\ NoCheck.user = None
    BY <2>1, NextRecord
  <2>3. /\ check' \in [Threads -> CheckRecords] /\ check'[t] = NoCheck
        /\ \A o \in Threads \ {t} : Slipped(o)
    BY <1>3, <2>1, <2>2, OneMoves
  <2> QED BY <1>1, <1>3, <2>2, <2>3, CheckMoves, StaysFirm
<1>6. /\ bucket' \in [Users -> Nat] /\ bucket'[u] = IF bucket[u] = 0 THEN limit ELSE bucket[u]
      /\ \A v \in Users \ {u} : bucket'[v] = bucket[v]
  BY <1>1, <1>3, <1>4 DEF LimiterTypeOK
<1>7. LimiterTypeOK'
  BY <1>1, <1>3, <1>5, <1>6 DEF LimiterTypeOK, CheckRecords, None
<1>8. ASSUME NEW v \in Users PROVE Entry(v)' /\ (v \notin mixed' => Undisturbed(v)' /\ Kept(v)')
  <2>1. Entry(v) /\ (v \notin mixed => Undisturbed(v) /\ Kept(v))
    BY DEF LimiterInv
  <2>2. Entry(v)' /\ (Undisturbed(v) => Undisturbed(v)')
    BY <1>3, <1>5, <2>1, SameUser, NoneOK
  <2>3. CASE v # u
    <3>1. Kept(v) => Kept(v)'
      BY <1>3, <1>6, <2>3, SameUser
    <3> QED BY <1>3, <2>1, <2>2, <3>1
  <2>4. CASE v = u /\ v \notin mixed
    <3>1. InCheck(u)
      BY <1>2 DEF InCheck
    <3>2. /\ update.user # u /\ report # u /\ listed[u] # Gone
          /\ check[t].limit \in {listed[u].speed, determineSpeedLimit(listed[u].speed, DynSpeed)}
      BY <1>2, <2>1, <2>4, <3>1 DEF Undisturbed
    <3>3. listed[u].speed \in Nat
      BY <1>1, LimitsAre DEF LimiterTypeOK
    <3>4. Static(u) # 0 => limit <= Static(u)
      BY <3>2, <3>3, SlowerStill, NumbersOK DEF Static, limit
    <3>5. Static(u)' = Static(u)
      BY <1>3 DEF Static
    <3>6. Kept(u)'
      BY <1>3, <1>6, <2>1, <2>4, <3>2, <3>4, <3>5 DEF Kept, Emptied, Gone
    <3> QED BY <2>1, <2>2, <2>4, <3>6
  <2> QED BY <1>3, <2>2, <2>3, <2>4
<1> QED BY <1>5, <1>7, <1>8 DEF LimiterInv
-----------------------------------------------------------------------------
(* The monitor, the speed checker, the report task and the sweeps.         *)

(* What holds of the goroutines' checks while none of them moves.          *)
LEMMA OtherSteps ==
  ASSUME LimiterInv, LimiterTypeOK', \A o \in Threads : Slipped(o),
         \A u \in Users : safe'[u] \subseteq safe[u],
         \A u \in Users : Entry(u)' /\ (u \notin mixed' => Undisturbed(u)' /\ Kept(u)')
  PROVE  LimiterInv'
<1>1. \A o \in Threads : Asked(o)'
  BY DEF LimiterInv, Asked, Slipped
<1> QED BY <1>1, StaysFirm DEF LimiterInv

LEMMA NoneMoves ==
  ASSUME check' = check PROVE \A o \in Threads : Slipped(o)
BY DEF Slipped

LEMMA DropSlips ==
  ASSUME LimiterTypeOK, NEW u \in Users, check' = Detached(u)
  PROVE  check' \in [Threads -> CheckRecords] /\ \A o \in Threads : Slipped(o)
<1>1. check' = [o \in Threads |-> Detached(u)[o]]
  BY Zenon DEF Detached
<1> QED BY <1>1, DetachedRecord DEF Slipped

(* A user is about to leave the books, or to come on them.                 *)
LEMMA KeepUpdateUser ==
  ASSUME LimiterInv, NEW u \in Users, UpdateUser(u)
  PROVE  LimiterInv'
<1>1. LimiterTypeOK
  BY DEF LimiterInv
<1>2. /\ UNCHANGED <<info, online, old, alive, bucket, check, report, stale, safe>>
      /\ update.at = "idle" /\ update.user = None
      /\ update' = [at |-> IF listed[u] # Gone THEN "delInfo" ELSE "add", user |-> u]
      /\ mixed' = IF InCheck(u) THEN mixed \cup {u} ELSE mixed
  BY <1>1 DEF UpdateUser, Changing, LimiterTypeOK, None
<1>3. /\ listed' \in [Users -> Limits]
      /\ \A v \in Users \ {u} : listed'[v] = listed[v]
  <2>1. PICK l \in {Gone} \cup [dyn : {"off"}, speed : Speeds, dev : DeviceLimits] :
          listed' = [listed EXCEPT ![u] = l]
    BY DEF UpdateUser
  <2>2. l \in Limits
    BY DEF Limits
  <2> HIDE DEF Limits
  <2> QED BY <1>1, <2>1, <2>2 DEF LimiterTypeOK
<1>4. u # None /\ update'.user = u /\ update'.at \in {"delInfo", "add"}
  BY <1>2, NoneOK
<1>5. LimiterTypeOK'
  BY <1>1, <1>2, <1>3, <1>4 DEF LimiterTypeOK, None
<1>6. ASSUME NEW v \in Users PROVE Entry(v)' /\ (v \notin mixed' => Undisturbed(v)' /\ Kept(v)')
  <2>1. Entry(v) /\ (v \notin mixed => Undisturbed(v) /\ Kept(v)) /\ (v \notin mixed' => v \notin mixed)
    BY <1>2 DEF LimiterInv
  <2>2. CASE v # u
    <3>1. update.user # v /\ update'.user # v
      BY <1>2, <1>4, <2>2, NoneOK
    <3> QED BY <1>2, <1>3, <2>1, <2>2, <3>1, SameUser
  <2>3. CASE v = u
    <3>1. Entry(u)'
      <4>1. info[u] # Gone => update'.at = "delInfo"
        BY <1>2, <1>4, <2>1, <2>3 DEF Entry
      <4> QED BY <1>2, <1>4, <4>1 DEF Entry, Gone
    <3>2. ASSUME u \notin mixed' PROVE Undisturbed(u)' /\ Kept(u)'
      <4>1. ~InCheck(u) /\ ~InCheck(u)'
        BY <1>2, <3>2 DEF InCheck
      <4>2. update'.at = "add" => listed[u] = Gone
        BY <1>2
      <4>3. Kept(u)'
        BY <1>2, <1>4, <2>1, <2>3, <3>2, <4>2 DEF Kept, Emptied
      <4> QED BY <4>1, <4>3 DEF Undisturbed
    <3> QED BY <2>3, <3>1, <3>2
  <2> QED BY <2>2, <2>3
<1> QED BY <1>2, <1>5, <1>6, NoneMoves, OtherSteps

LEMMA KeepUpdateDelInfo ==
  ASSUME LimiterInv, UpdateDelInfo
  PROVE  LimiterInv'
<1>1. LimiterTypeOK
  BY DEF LimiterInv
<1>2. PICK u \in Users : u = update.user
  BY <1>1 DEF UpdateDelInfo, LimiterTypeOK
<1>3. /\ UNCHANGED <<online, old, alive, bucket, listed, check, report, stale, safe, mixed, done>>
      /\ update.at = "delInfo" /\ info' = [info EXCEPT ![u] = Gone]
      /\ update' = [update EXCEPT !.at = "delRest"]
  BY <1>2 DEF UpdateDelInfo
<1>4. update'.user = u /\ update'.at = "delRest"
      /\ update' \in [at : {"idle", "delInfo", "delRest", "add"}, user : Users \cup {None}]
  BY <1>1, <1>2, <1>3 DEF LimiterTypeOK, None
<1>5. /\ info' \in [Users -> Limits] /\ info'[u] = Gone
      /\ \A v \in Users \ {u} : info'[v] = info[v]
  <2>1. Gone \in Limits
    BY DEF Limits
  <2> QED BY <1>1, <1>3, <2>1 DEF LimiterTypeOK
<1>6. LimiterTypeOK'
  BY <1>1, <1>2, <1>3, <1>4, <1>5, NoneOK DEF LimiterTypeOK, None
<1>7. ASSUME NEW v \in Users PROVE Entry(v)' /\ (v \notin mixed' => Undisturbed(v)' /\ Kept(v)')
  <2>1. Entry(v) /\ (v \notin mixed => Undisturbed(v) /\ Kept(v))
    BY DEF LimiterInv
  <2>2. CASE v # u
    BY <1>2, <1>3, <1>4, <1>5, <2>1, <2>2, SameUser
  <2>3. CASE v = u
    <3>1. Entry(u)'
      BY <1>5 DEF Entry, Gone
    <3>2. Undisturbed(u) => Undisturbed(u)'
      BY <1>2, <1>3, <1>4 DEF Undisturbed, InCheck
    <3>3. Kept(u) => Kept(u)'
      BY <1>2, <1>3, <1>4 DEF Kept, Emptied
    <3> QED BY <1>3, <2>1, <2>3, <3>1, <3>2, <3>3
  <2> QED BY <2>2, <2>3
<1> QED BY <1>3, <1>6, <1>7, NoneMoves, OtherSteps

(* The rest of the user goes.                                              *)
LEMMA KeepUpdateDelRest ==
  ASSUME LimiterInv, UpdateDelRest
  PROVE  LimiterInv'
<1>1. LimiterTypeOK
  BY DEF LimiterInv
<1>2. PICK u \in Users : u = update.user
  BY <1>1 DEF UpdateDelRest, LimiterTypeOK
<1>3. /\ UNCHANGED <<info, old, listed, report, stale, mixed, done>>
      /\ update.at = "delRest" /\ check' = Detached(u)
      /\ online' = [online EXCEPT ![u] = {}] /\ safe' = [safe EXCEPT ![u] = {}]
      /\ bucket' = [bucket EXCEPT ![u] = 0] /\ alive' = [alive EXCEPT ![u] = 0]
      /\ update' = IF listed[u] = Gone THEN EndOfUpdate ELSE [update EXCEPT !.at = "add"]
  BY <1>2 DEF UpdateDelRest, AfterDelete, DropEntry
<1>4. /\ update' \in [at : {"idle", "delInfo", "delRest", "add"}, user : Users \cup {None}]
      /\ listed[u] = Gone => update'.at = "idle" /\ update'.user = None
      /\ listed[u] # Gone => update'.at = "add" /\ update'.user = u
  BY <1>1, <1>2, <1>3 DEF LimiterTypeOK, EndOfUpdate, None
<1>5. /\ online' \in [Users -> SUBSET IPs] /\ bucket' \in [Users -> Nat] /\ alive' \in [Users -> 0 .. MaxAlive]
      /\ safe' \in [Users -> SUBSET IPs] /\ safe'[u] = {} /\ online'[u] = {} /\ bucket'[u] = 0
      /\ \A v \in Users \ {u} :
           online'[v] = online[v] /\ bucket'[v] = bucket[v] /\ safe'[v] = safe[v]
      /\ \A v \in Users : safe'[v] \subseteq online'[v] /\ safe'[v] \subseteq safe[v]
  BY <1>1, <1>3, NumbersOK DEF LimiterTypeOK
<1>8. /\ check' \in [Threads -> CheckRecords] /\ \A o \in Threads : Slipped(o)
      /\ \A v \in Users : InCheck(v)' => InCheck(v)
  <2>1. check' \in [Threads -> CheckRecords] /\ \A o \in Threads : Slipped(o)
    BY <1>1, <1>3, DropSlips
  <2> QED BY <2>1 DEF Slipped, InCheck
<1>6. LimiterTypeOK'
  BY <1>1, <1>3, <1>4, <1>5, <1>8, NoneOK DEF LimiterTypeOK, CheckRecords, None
<1>7. ASSUME NEW v \in Users PROVE Entry(v)' /\ (v \notin mixed' => Undisturbed(v)' /\ Kept(v)')
  <2>1. Entry(v) /\ (v \notin mixed => Undisturbed(v) /\ Kept(v))
    BY DEF LimiterInv
  <2>2. CASE v # u
    <3>1. update.user # v /\ update'.user # v
      BY <1>2, <1>4, <2>2, NoneOK
    <3> QED BY <1>3, <1>5, <1>8, <2>1, <2>2, <3>1, SameUser DEF Slipped
  <2>3. CASE v = u
    <3>1. info[u] = Gone
      BY <1>2, <1>3, <2>1, <2>3 DEF Entry
    <3>2. Entry(u)'
      BY <1>3, <3>1 DEF Entry, Gone
    <3>3. ASSUME u \notin mixed PROVE Undisturbed(u)' /\ Kept(u)'
      <4>1. ~InCheck(u)'
        BY <1>2, <1>8, <2>1, <2>3, <3>3 DEF Undisturbed
      <4>2. Kept(u)'
        <5>1. Static(u)' = Static(u)
          BY <1>3 DEF Static
        <5>2. \/ listed'[u] = Gone \/ update'.user = u
          BY <1>3, <1>4
        <5> QED BY <1>5, <5>1, <5>2 DEF Kept, Gone
      <4> QED BY <4>1, <4>2 DEF Undisturbed
    <3> QED BY <1>3, <2>3, <3>2, <3>3
  <2> QED BY <2>2, <2>3
<1> QED BY <1>5, <1>6, <1>7, <1>8, OtherSteps

LEMMA KeepUpdateAdd ==
  ASSUME LimiterInv, UpdateAdd
  PROVE  LimiterInv'
<1>1. LimiterTypeOK
  BY DEF LimiterInv
<1>2. PICK u \in Users : u = update.user
  BY <1>1 DEF UpdateAdd, LimiterTypeOK
<1>3. /\ UNCHANGED <<online, old, alive, bucket, listed, check, report, stale, safe, mixed, done>>
      /\ update.at = "add" /\ info' = [info EXCEPT ![u] = listed[u]]
      /\ update' = EndOfUpdate
  BY <1>2 DEF UpdateAdd
<1>4. update'.at = "idle" /\ update'.user = None
      /\ update' \in [at : {"idle", "delInfo", "delRest", "add"}, user : Users \cup {None}]
  BY <1>3 DEF EndOfUpdate, None
<1>5. /\ info' \in [Users -> Limits] /\ info'[u] = listed[u]
      /\ \A v \in Users \ {u} : info'[v] = info[v]
  BY <1>1, <1>3 DEF LimiterTypeOK
<1>6. LimiterTypeOK'
  BY <1>1, <1>3, <1>4, <1>5 DEF LimiterTypeOK, None
<1>7. ASSUME NEW v \in Users PROVE Entry(v)' /\ (v \notin mixed' => Undisturbed(v)' /\ Kept(v)')
  <2>1. Entry(v) /\ (v \notin mixed => Undisturbed(v) /\ Kept(v))
    BY DEF LimiterInv
  <2>2. CASE v # u
    <3>1. update.user # v /\ update'.user # v
      BY <1>2, <1>4, <2>2, NoneOK
    <3> QED BY <1>3, <1>5, <2>1, <2>2, <3>1, SameUser
  <2>3. CASE v = u
    <3>1. Entry(u)'
      BY <1>3, <1>4, <1>5, NoneOK DEF Entry, Gone
    <3>2. ASSUME u \notin mixed PROVE Undisturbed(u)' /\ Kept(u)'
      <4>1. ~InCheck(u)'
        BY <1>2, <1>3, <2>1, <2>3, <3>2 DEF Undisturbed, InCheck
      <4>2. bucket[u] = 0 /\ online[u] = {} /\ safe[u] = {}
        BY <1>1, <1>2, <1>3, <2>1, <2>3, <3>2 DEF Kept, Emptied, LimiterTypeOK
      <4>3. Static(u) \in Nat /\ Static(u)' = Static(u)
        <5>1. listed[u].speed \in Nat /\ NodeSpeed \in Nat
          BY <1>1, LimitsAre, NumbersOK DEF LimiterTypeOK
        <5> QED BY <1>3, <5>1 DEF Static, determineSpeedLimit
      <4>4. Kept(u)'
        BY <1>3, <4>2, <4>3 DEF Kept
      <4> QED BY <4>1, <4>4 DEF Undisturbed
    <3> QED BY <1>3, <2>3, <3>1, <3>2
  <2> QED BY <2>2, <2>3
<1> QED BY <1>3, <1>6, <1>7, NoneMoves, OtherSteps

(* A step of the dynamic limit: an entry keeps its static limits.          *)
LEMMA DynamicStep ==
  ASSUME LimiterInv, NEW u \in Users, NEW dyn \in {"off", "active", "expired"},
         info[u].dyn # "gone", info' = [info EXCEPT ![u].dyn = dyn],
         UNCHANGED <<online, old, alive, bucket, listed, check, update, report, stale, safe, mixed>>
  PROVE  LimiterInv'
<1>1. LimiterTypeOK /\ info[u] \in Limits
  BY DEF LimiterInv, LimiterTypeOK
<1>2. info[u] # Gone /\ info[u] \in [dyn : {"off", "active", "expired"}, speed : Speeds, dev : DeviceLimits]
  BY <1>1, LimitsAre
<1>3. [info[u] EXCEPT !.dyn = dyn] \in Limits /\ [info[u] EXCEPT !.dyn = dyn].speed = info[u].speed
  BY <1>2 DEF Limits
<1>4. /\ info' \in [Users -> Limits] /\ info'[u].speed = info[u].speed
      /\ \A v \in Users \ {u} : info'[v] = info[v]
  <2>1. info' = [info EXCEPT ![u] = [info[u] EXCEPT !.dyn = dyn]]
    OBVIOUS
  <2> QED BY <1>1, <1>3, <2>1 DEF LimiterTypeOK
<1>5. LimiterTypeOK'
  BY <1>1, <1>4 DEF LimiterTypeOK, None
<1>6. ASSUME NEW v \in Users PROVE Entry(v)' /\ (v \notin mixed' => Undisturbed(v)' /\ Kept(v)')
  <2>1. Entry(v) /\ (v \notin mixed => Undisturbed(v) /\ Kept(v))
    BY DEF LimiterInv
  <2>2. Entry(v)'
    BY <1>2, <1>4, <2>1 DEF Entry, Gone
  <2>3. (Undisturbed(v) => Undisturbed(v)') /\ (Kept(v) => Kept(v)')
    BY SameUser
  <2> QED BY <2>1, <2>2, <2>3
<1> QED BY <1>5, <1>6, NoneMoves, OtherSteps

(* The devices of a user are old ones of its own once they are collected.  *)
LEMMA KeepCollectOnline ==
  ASSUME LimiterInv, NEW u \in Users, CollectOnline(u)
  PROVE  LimiterInv'
<1>1. LimiterTypeOK
  BY DEF LimiterInv
<1>2. /\ UNCHANGED <<info, online, alive, bucket, listed, check, update, stale, safe>>
      /\ report = None /\ report' = u /\ old' = Remember(u)
      /\ mixed' = IF InCheck(u) THEN mixed \cup {u} ELSE mixed
  BY DEF CollectOnline, Changing, None
<1>3. /\ old' \in [IPs -> Users \cup {None}]
      /\ \A i \in IPs : i \in online[u] => old'[i] = u
  BY <1>1, <1>2 DEF Remember, LimiterTypeOK
<1>4. LimiterTypeOK'
  BY <1>1, <1>2, <1>3 DEF LimiterTypeOK, None
<1>5. ASSUME NEW v \in Users PROVE Entry(v)' /\ (v \notin mixed' => Undisturbed(v)' /\ Kept(v)')
  <2>1. Entry(v) /\ (v \notin mixed => Undisturbed(v) /\ Kept(v)) /\ (v \notin mixed' => v \notin mixed)
    BY <1>2 DEF LimiterInv
  <2>2. Entry(v)'
    BY <1>2, <2>1, SameUser
  <2>3. CASE v # u
    BY <1>2, <2>1, <2>2, <2>3, SameUser
  <2>4. CASE v = u
    <3>1. ASSUME u \notin mixed' PROVE Undisturbed(u)' /\ Kept(u)'
      <4>1. ~InCheck(u)'
        BY <1>2, <3>1 DEF InCheck
      <4>2. \A i \in safe'[u] : old'[i] = u
        BY <1>1, <1>2, <1>3 DEF LimiterTypeOK
      <4>3. Static(u)' = Static(u) /\ Emptied(u)' = Emptied(u)
        BY <1>2 DEF Static, Emptied, Gone
      <4>4. Kept(u)'
        BY <1>2, <2>1, <2>4, <3>1, <4>2, <4>3 DEF Kept, Gone
      <4> QED BY <4>1, <4>4 DEF Undisturbed
    <3> QED BY <2>2, <2>4, <3>1
  <2> QED BY <2>3, <2>4
<1> QED BY <1>2, <1>4, <1>5, NoneMoves, OtherSteps

LEMMA KeepDropOnline ==
  ASSUME LimiterInv, DropOnline
  PROVE  LimiterInv'
<1>1. LimiterTypeOK
  BY DEF LimiterInv
<1>2. PICK u \in Users : u = report
  BY <1>1 DEF DropOnline, LimiterTypeOK
<1>3. /\ UNCHANGED <<info, old, alive, bucket, listed, update, stale, mixed, done>>
      /\ online' = [online EXCEPT ![u] = {}] /\ safe' = [safe EXCEPT ![u] = {}]
      /\ check' = Detached(u) /\ report' = None
  BY <1>2 DEF DropOnline, DropEntry, None
<1>4. /\ online' \in [Users -> SUBSET IPs] /\ safe' \in [Users -> SUBSET IPs]
      /\ \A v \in Users : /\ online'[v] \subseteq online[v] /\ safe'[v] \subseteq safe[v]
                          /\ safe'[v] \subseteq online'[v]
  BY <1>1, <1>3 DEF LimiterTypeOK
<1>5. check' \in [Threads -> CheckRecords] /\ \A o \in Threads : Slipped(o)
  BY <1>1, <1>3, DropSlips
<1>6. LimiterTypeOK'
  BY <1>1, <1>3, <1>4, <1>5 DEF LimiterTypeOK, CheckRecords, None
<1>7. ASSUME NEW v \in Users PROVE Entry(v)' /\ (v \notin mixed' => Undisturbed(v)' /\ Kept(v)')
  <2>1. Entry(v) /\ (v \notin mixed => Undisturbed(v) /\ Kept(v))
    BY DEF LimiterInv
  <2>2. report' # v
    BY <1>3, NoneOK
  <2> QED BY <1>3, <1>4, <1>5, <2>1, <2>2, SameUser DEF Slipped
<1> QED BY <1>4, <1>5, <1>6, <1>7, OtherSteps

LEMMA KeepGCStale ==
  ASSUME LimiterInv, GCStale
  PROVE  LimiterInv'
<1>1. UNCHANGED <<info, online, old, alive, bucket, listed, check, update, report, safe, mixed>>
  BY DEF GCStale
<1>2. LimiterTypeOK'
  BY <1>1 DEF LimiterInv, LimiterTypeOK, GCStale
<1>3. \A v \in Users : Entry(v)' /\ (v \notin mixed' => Undisturbed(v)' /\ Kept(v)')
  BY <1>1, SameUser DEF LimiterInv
<1> QED BY <1>1, <1>2, <1>3, NoneMoves, OtherSteps

LEMMA KeepGCDelete ==
  ASSUME LimiterInv, GCDelete
  PROVE  LimiterInv'
<1>1. LimiterTypeOK
  BY DEF LimiterInv
<1>2. PICK i \in IPs : i = stale
  BY <1>1 DEF GCDelete, LimiterTypeOK
<1>3. /\ UNCHANGED <<info, online, alive, bucket, listed, check, update, report, mixed>>
      /\ Wipe(i) /\ stale' = None
  BY <1>2 DEF GCDelete
<1>4. /\ old' \in [IPs -> Users \cup {None}] /\ safe' \in [Users -> SUBSET IPs]
      /\ \A v \in Users : safe'[v] \subseteq safe[v]
      /\ \A v \in Users : report = v => \A j \in safe'[v] : old'[j] = old[j]
  BY <1>1, <1>3, WipeIs
<1>5. LimiterTypeOK'
  BY <1>1, <1>3, <1>4 DEF LimiterTypeOK, None
<1>6. ASSUME NEW v \in Users PROVE Entry(v)' /\ (v \notin mixed' => Undisturbed(v)' /\ Kept(v)')
  BY <1>3, <1>4, SameUser DEF LimiterInv
<1> QED BY <1>3, <1>4, <1>5, <1>6, NoneMoves, OtherSteps

LEMMA KeepAliveReplace ==
  ASSUME LimiterInv, NEW u \in Users, AliveReplace(u) PROVE LimiterInv'
<1>1. LimiterTypeOK'
  BY DEF LimiterInv, LimiterTypeOK, AliveReplace, None
<1>2. UNCHANGED <<info, online, old, bucket, listed, check, update, report, stale, safe, mixed>>
  BY DEF AliveReplace
<1>3. \A v \in Users : Entry(v)' /\ (v \notin mixed' => Undisturbed(v)' /\ Kept(v)')
  BY <1>2, SameUser DEF LimiterInv
<1> QED BY <1>1, <1>2, <1>3, NoneMoves, OtherSteps

-----------------------------------------------------------------------------
LEMMA InitKeepsLimiter ==
  ASSUME LimiterInit PROVE LimiterInv
<1>1. /\ listed \in [Users -> [dyn : {"off"}, speed : Speeds, dev : DeviceLimits]] /\ info = listed
      /\ online = [u \in Users |-> {}] /\ bucket = [u \in Users |-> 0]
      /\ check = [t \in Threads |-> NoCheck]
      /\ update = [at |-> "idle", user |-> None] /\ report = None /\ stale = None /\ mixed = {}
      /\ safe = [u \in Users |-> {}]
  BY DEF LimiterInit, EndOfUpdate, None
<1>2. listed \in [Users -> Limits] /\ \A u \in Users : listed[u] # Gone
  <2>1. \A u \in Users : listed[u] \in Limits /\ listed[u].dyn = "off"
    <3>1. ASSUME NEW u \in Users PROVE listed[u] \in [dyn : {"off"}, speed : Speeds, dev : DeviceLimits]
      BY <1>1
    <3> QED BY <3>1 DEF Limits
  <2>2. listed \in [Users -> Limits]
    BY <1>1, <2>1
  <2> QED BY <2>1, <2>2 DEF Gone
<1>3. /\ check \in [Threads -> CheckRecords]
      /\ \A t \in Threads : check[t].at = "idle" /\ check[t].user = None
  BY <1>1 DEF NoCheck, None, CheckRecords, Places
<1>4. LimiterTypeOK
  <2>1. /\ online \in [Users -> SUBSET IPs] /\ old \in [IPs -> Users \cup {None}]
        /\ bucket \in [Users -> Nat] /\ alive \in [Users -> 0 .. MaxAlive]
    BY <1>1, NumbersOK DEF LimiterInit, None
  <2>2. /\ update \in [at : {"idle", "delInfo", "delRest", "add"}, user : Users \cup {None}]
        /\ update.at = "idle" /\ update.user = None
    BY <1>1
  <2> QED BY <1>1, <1>2, <1>3, <2>1, <2>2 DEF LimiterTypeOK, CheckRecords, None
<1>5. \A u \in Users : Entry(u)
  BY <1>1, <1>2, NoneOK DEF Entry
<1>6. \A u \in Users : Undisturbed(u)
  BY <1>3, NoneOK DEF Undisturbed, InCheck
<1>7. ASSUME NEW u \in Users PROVE Kept(u)
  <2>1. bucket[u] = 0 /\ online[u] = {} /\ safe[u] = {} /\ listed[u].speed \in Nat /\ NodeSpeed \in Nat
    BY <1>1, <1>2, LimitsAre, NumbersOK
  <2>2. Static(u) \in Nat
    BY <2>1 DEF Static, determineSpeedLimit
  <2> QED BY <2>1, <2>2 DEF Kept
<1>8. \A u \in Users : Firm(u)
  BY <1>1 DEF Firm
<1>9. \A t \in Threads : Asked(t)
  BY <1>3 DEF Asked
<1> QED BY <1>4, <1>5, <1>6, <1>7, <1>8, <1>9 DEF LimiterInv

LEMMA StepKeepsLimiter ==
  ASSUME LimiterInv, [LimiterNext]_limiterVars PROVE LimiterInv'
<1>1. CASE UNCHANGED limiterVars
  <2>1. LimiterTypeOK'
    BY <1>1 DEF LimiterInv, LimiterTypeOK, limiterVars
  <2>2. \A u \in Users : Entry(u)' /\ (u \notin mixed' => Undisturbed(u)' /\ Kept(u)')
    BY <1>1, SameUser DEF LimiterInv, limiterVars
  <2> QED BY <1>1, <2>1, <2>2, NoneMoves, OtherSteps DEF limiterVars
<1>2. ASSUME NEW u \in Users, UpdateDynamicSpeedLimit(u) PROVE LimiterInv'
  BY <1>2, DynamicStep DEF UpdateDynamicSpeedLimit
<1>3. ASSUME NEW u \in Users, Expire(u) PROVE LimiterInv'
  <2>1. info[u].dyn # "gone"
    BY <1>3 DEF Expire
  <2> QED BY <1>3, <2>1, DynamicStep DEF Expire
<1> QED BY <1>1, <1>2, <1>3, KeepCheckUser, KeepCheckDevice, KeepCheckInner, KeepRefuseIP,
           KeepCheckLost, KeepCheckOld, KeepForgetOld, KeepRefuseUser, KeepCheckBucket, KeepUpdateUser,
           KeepUpdateDelInfo, KeepUpdateDelRest, KeepUpdateAdd, KeepAliveReplace,
           KeepCollectOnline, KeepDropOnline, KeepGCStale, KeepGCDelete DEF LimiterNext

(* The inductive invariant of limits, devices and buckets.                 *)
THEOREM LimiterStaysSound == LimiterSpec => []LimiterInv
BY InitKeepsLimiter, StepKeepsLimiter, PTL DEF LimiterSpec

(* The types of a Limiter's maps, and that an update is about a user       *)
(* exactly while it goes on (limiter.go:133-158).                          *)
THEOREM LimiterTypes == LimiterSpec => []LimiterTypeOK
<1>1. LimiterInv => LimiterTypeOK
  BY DEF LimiterInv
<1> QED BY <1>1, LimiterStaysSound, PTL

(* A bucket, which CheckLimit keeps whatever becomes of the limits         *)
(* (limiter.go:236-244), is never faster than what the panel and the node  *)
(* allow a user whose checks and updates did not overlap.                  *)
THEOREM BucketsNeverFaster == LimiterSpec => []NeverFaster
<1>1. ASSUME LimiterInv PROVE NeverFaster
  BY <1>1 DEF LimiterInv, Kept, Static, NeverFaster, Settled
<1> QED BY <1>1, LimiterStaysSound, PTL

(* UpdateUser leaves nothing of a user that is not on the list             *)
(* (limiter.go:133-158).                                                   *)
THEOREM RemovedAreForgotten == LimiterSpec => []RemovedForgotten
<1>1. ASSUME LimiterInv PROVE RemovedForgotten
  BY <1>1 DEF LimiterInv, Entry, Kept, Emptied, RemovedForgotten, Settled
<1> QED BY <1>1, LimiterStaysSound, PTL

(* A device let in while no refusal was open leaves the online devices as  *)
(* an old one of its user, or with the user's limits (limiter.go:45-51),   *)
(* whatever the goroutines that share the entry are refused.               *)
THEOREM DevicesAreRemembered == LimiterSpec => DevicesRemembered
<1> DEFINE A == \A u \in Users : u \notin mixed' /\ update.at # "delRest" =>
                  \A i \in safe[u] \ online'[u] : old'[i] = u
<1>1. ASSUME LimiterInv, [LimiterNext]_limiterVars PROVE [A]_limiterVars
  <2> SUFFICES ASSUME LimiterNext, NEW u \in Users, u \notin mixed', update.at # "delRest",
                      NEW i \in safe[u] \ online'[u]
               PROVE  old'[i] = u
    BY <1>1
  <2>1. LimiterTypeOK /\ i \in online[u] /\ Firm(u)
    BY <1>1 DEF LimiterInv, LimiterTypeOK
  <2>2. ASSUME NEW t \in Threads, CheckDevice(t) PROVE FALSE
    <3>1. PICK v \in Users, j \in IPs : v = check[t].user /\ j = check[t].ip
      BY <1>1, <2>2, AskedOf DEF CheckDevice
    <3>2. online' = [online EXCEPT ![v] = IF online[v] = {} THEN {j} ELSE online[v]]
      BY <2>2, <3>1 DEF CheckDevice
    <3> QED BY <2>1, <3>1, <3>2 DEF LimiterTypeOK
  <2>3. ASSUME NEW t \in Threads, CheckInner(t) PROVE FALSE
    <3>1. PICK v \in Users, j \in IPs : v = check[t].user /\ j = check[t].ip
      BY <1>1, <2>3, AskedOf DEF CheckInner
    <3>2. online' = [online EXCEPT ![v] = online[v] \cup {j}]
      BY <2>3, <3>1 DEF CheckInner
    <3> QED BY <2>1, <3>1, <3>2 DEF LimiterTypeOK
  <2>4. ASSUME NEW t \in Threads, RefuseIP(t) PROVE FALSE
    <3>1. PICK v \in Users, j \in IPs : v = check[t].user /\ j = check[t].ip
      BY <1>1, <2>4, AskedOf DEF RefuseIP
    <3>2. online' = [online EXCEPT ![v] = online[v] \ {j}] /\ check[t].at = "refuseIP"
      BY <2>4, <3>1 DEF RefuseIP
    <3>3. v = u /\ j = i
      BY <2>1, <3>1, <3>2 DEF LimiterTypeOK
    <3> QED BY <2>1, <3>1, <3>2, <3>3 DEF Firm
  <2>5. ASSUME NEW t \in Threads, RefuseUser(t) PROVE FALSE
    <3>1. PICK v \in Users : v = check[t].user
      BY <1>1, <2>5, AskedOf DEF RefuseUser
    <3>2. online' = [online EXCEPT ![v] = {}] /\ check[t].at = "refuseUser"
      BY <2>5, <3>1 DEF RefuseUser, DropEntry
    <3>3. v = u
      BY <2>1, <3>1, <3>2 DEF LimiterTypeOK
    <3> QED BY <2>1, <3>1, <3>2, <3>3 DEF Firm
  <2>6. CASE DropOnline
    <3>1. online' = [online EXCEPT ![report] = {}] /\ old' = old /\ mixed' = mixed
      BY <2>6 DEF DropOnline, DropEntry
    <3>2. report = u
      BY <2>1, <3>1 DEF LimiterTypeOK
    <3> QED BY <1>1, <3>1, <3>2 DEF LimiterInv, Kept
  <2>7. CASE online' = online
    BY <2>1, <2>7
  <2>8. ~UpdateDelRest
    BY DEF UpdateDelRest
  <2> QED BY <2>2, <2>3, <2>4, <2>5, <2>6, <2>7, <2>8
      DEF LimiterNext, CheckUser, CheckLost, CheckOld, ForgetOld, CheckBucket, UpdateUser,
          AliveReplace, UpdateDynamicSpeedLimit, Expire, CollectOnline, UpdateDelInfo, UpdateAdd,
          GCStale, GCDelete
<1>2. LimiterSpec => [][A]_limiterVars
  <2> HIDE DEF A
  <2> QED BY <1>1, LimiterStaysSound, PTL DEF LimiterSpec
<1> QED BY <1>2 DEF DevicesRemembered
=============================================================================

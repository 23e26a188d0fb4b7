------------------------ MODULE TrafficReportProofs -------------------------
(***************************************************************************)
(* Proofs about the traffic report, for any users, threshold, cap and      *)
(* bounds.                                                                 *)
(*                                                                         *)
(* Conserved is not inductive: that clearing a counter takes away just     *)
(* what was read of it needs that only the user being drained has a value  *)
(* read (ReadsOne), and that a value read is still there (TypeOK), which   *)
(* holds since the lock keeps removals out of the drain.                   *)
(***************************************************************************)
EXTENDS TrafficReport, TLAPS

\* Nothing is read but between the two steps of a drain, and then of one user.
ReadsOne ==
  /\ pc # "clear" => \A u \in Users : seen[u] = 0
  /\ \A u, v \in Users : seen[u] > 0 /\ seen[v] > 0 => u = v

\* The bytes transferred that are neither in the core, nor on their way, nor
\* booked, nor given up.
Missing(u) == sent[u] - (counter[u] + slice[u] + reported[u] + dropped[u])

\* What is in the core, on its way, booked or given up was transferred.
Backed ==
  \A u \in Users \ twice : counter[u] + slice[u] + reported[u] + dropped[u] <= sent[u]

\* Bytes have not come back from more failures than there were in a row.
WornByFailures == \A u \in Users : worn[u] <= failures

\* The inductive invariant.
ReportInv == TypeOK /\ ReadsOne /\ Conserved /\ Backed /\ WornByFailures /\ GuardHolds

(* The cap is an integer, whatever is configured.                          *)
LEMMA CapIsInt == reportFailureCap \in Int
BY NumbersOK DEF reportFailureCap, DefaultCap

(* The helpers on functions from users to bytes yield such functions.      *)
LEMMA PlusType ==
  ASSUME NEW f \in [Users -> Nat], NEW g \in [Users -> Nat]
  PROVE  Plus(f, g) \in [Users -> Nat] /\ \A u \in Users : Plus(f, g)[u] = f[u] + g[u]
BY DEF Plus

LEMMA OnlyType ==
  ASSUME NEW f \in [Users -> Nat], NEW S
  PROVE  /\ Only(f, S) \in [Users -> Nat]
         /\ \A u \in Users : Only(f, S)[u] = IF u \in S THEN f[u] ELSE 0
BY DEF Only

(* The counters start empty.                                               *)
LEMMA InitInv == Init => ReportInv
BY NumbersOK, CapIsInt
   DEF Init, ReportInv, TypeOK, ReadsOne, Conserved, Backed, WornByFailures, GuardHolds, None

(* A step that takes bytes only from users it excuses keeps the balance.   *)
LEMMA BalanceKept ==
  ASSUME ReportInv, TypeOK', excused \subseteq excused', twice \subseteq twice',
         \A u \in Users \ twice' :
           /\ Missing(u)' >= Missing(u)
           /\ u \notin excused' => Missing(u)' = Missing(u)
  PROVE  Conserved' /\ Backed'
<1>1. \A u \in Users : Missing(u) \in Int
  BY DEF ReportInv, TypeOK, Missing
<1>2. \A u \in Users : Missing(u)' \in Int
  BY DEF TypeOK, Missing
<1>3. \A u \in Users \ twice : Missing(u) >= 0 /\ (u \notin excused => Missing(u) = 0)
  BY DEF ReportInv, Backed, Conserved, TypeOK, Missing
<1>4. \A u \in Users \ twice' : Missing(u)' >= 0 /\ (u \notin excused' => Missing(u)' = 0)
  BY <1>1, <1>2, <1>3
<1>5. \A u \in Users : /\ counter'[u] \in Nat /\ slice'[u] \in Nat /\ reported'[u] \in Nat
                       /\ dropped'[u] \in Nat /\ sent'[u] \in Nat
  BY DEF TypeOK
<1>6. Conserved'
  BY <1>4, <1>5 DEF Conserved, Missing
<1>7. Backed'
  BY <1>4, <1>5 DEF Backed, Missing
<1> QED BY <1>6, <1>7

(* Steps that leave the failed requests alone keep the guard.              *)
LEMMA GuardKept ==
  ASSUME ReportInv, UNCHANGED <<failures, worn>>
  PROVE  WornByFailures' /\ GuardHolds'
BY DEF ReportInv, WornByFailures, GuardHolds, reportFailureCap

(* A step between drains that excuses every user it takes bytes from keeps *)
(* the invariant.                                                          *)
LEMMA TakingInv ==
  ASSUME ReportInv, TypeOK',
         UNCHANGED <<pc, seen, slice, reported, dropped, twice, failures, worn>>,
         excused \subseteq excused',
         \A u \in Users : sent'[u] - counter'[u] >= sent[u] - counter[u],
         \A u \in Users \ excused' : sent'[u] - counter'[u] = sent[u] - counter[u]
  PROVE  ReportInv'
<1>1. \A u \in Users : /\ counter[u] \in Nat /\ sent[u] \in Nat /\ slice[u] \in Nat
                       /\ reported[u] \in Nat /\ dropped[u] \in Nat
                       /\ counter'[u] \in Nat /\ sent'[u] \in Nat
  BY DEF ReportInv, TypeOK
<1>2. \A u \in Users : /\ Missing(u)' >= Missing(u)
                       /\ u \notin excused' => Missing(u)' = Missing(u)
  BY <1>1 DEF Missing
<1>3. Conserved' /\ Backed'
  BY <1>2, BalanceKept
<1>4. ReadsOne'
  BY DEF ReportInv, ReadsOne
<1> QED BY <1>3, <1>4, GuardKept DEF ReportInv

(* A connection adds to the counter what it adds to the bytes sent.        *)
LEMMA TransferInv ==
  ASSUME ReportInv, NEW u \in Users, Transfer(u)
  PROVE  ReportInv'
<1>1. TypeOK'
  BY NumbersOK DEF ReportInv, Transfer, task, links, TypeOK
<1>2. ReadsOne'
  BY DEF ReportInv, Transfer, task, ReadsOne
<1>3. \A v \in Users : /\ counter'[v] = counter[v] + IF v = u THEN 1 ELSE 0
                       /\ sent'[v] = sent[v] + IF v = u THEN 1 ELSE 0
  BY DEF ReportInv, Transfer, TypeOK
<1>4. UNCHANGED <<slice, reported, dropped, excused, twice, failures, worn>>
  BY DEF Transfer, task
<1>5. ASSUME NEW v \in Users
      PROVE  Missing(v)' = Missing(v) /\ Missing(v) \in Int
  <2>1. /\ counter[v] \in Nat /\ sent[v] \in Nat /\ slice[v] \in Nat
        /\ reported[v] \in Nat /\ dropped[v] \in Nat
    BY DEF ReportInv, TypeOK
  <2>2. counter'[v] \in Nat /\ sent'[v] \in Nat /\ sent'[v] - counter'[v] = sent[v] - counter[v]
    BY <1>3, <2>1
  <2>3. slice'[v] = slice[v] /\ reported'[v] = reported[v] /\ dropped'[v] = dropped[v]
    BY <1>4
  <2> QED BY <2>1, <2>2, <2>3 DEF Missing
<1>6. Conserved' /\ Backed'
  BY <1>1, <1>4, <1>5, BalanceKept
<1> QED BY <1>1, <1>2, <1>4, <1>6, GuardKept DEF ReportInv

(* Bytes counted into detached storage, and those of a counter overwritten *)
(* by a rival connection, excuse their users.                              *)
LEMMA ConnectionsInv ==
  ASSUME ReportInv, Connections
  PROVE  ReportInv'
<1>1. CASE \E u \in Users : Transfer(u)
  BY <1>1, TransferInv
<1>2. CASE \E u \in Users : TransferDetached(u)
  <2> PICK u \in Users : TransferDetached(u)
    BY <1>2
  <2>1. TypeOK'
    BY NumbersOK DEF ReportInv, TransferDetached, core, task, links, TypeOK
  <2>2. /\ UNCHANGED <<counter, pc, seen, slice, reported, dropped, twice, failures, worn>>
        /\ excused \subseteq excused' /\ u \in excused'
        /\ \A v \in Users : sent[v] \in Nat /\ sent'[v] = sent[v] + IF v = u THEN 1 ELSE 0
    BY DEF ReportInv, TransferDetached, core, task, TypeOK
  <2>3. \A v \in Users : counter[v] \in Nat /\ counter'[v] = counter[v]
    BY <2>2 DEF ReportInv, TypeOK
  <2> QED BY <2>1, <2>2, <2>3, TakingInv
<1>3. CASE Overwrite
  <2>1. /\ \A v \in Users : seen[v] = 0
        /\ UNCHANGED <<known, entry, task, sent, reported, dropped, twice, worn, bad, changes>>
        /\ excused' = excused \cup Some(counter) /\ counter' = None
        /\ loose' = loose \cup stored /\ stored' = {} /\ rival' = FALSE
    BY <1>3 DEF ReportInv, Overwrite, Draining, ReadsOne
  <2>2. /\ Some(counter) \subseteq Users
        /\ counter' \in [Users -> Nat] /\ \A v \in Users : counter'[v] = 0
    BY <2>1 DEF None, Some
  <2>3. TypeOK'
    <3>1. loose' \subseteq Users /\ excused' \subseteq Users /\ anon' \subseteq excused'
      BY <2>1, <2>2 DEF ReportInv, TypeOK, task
    <3>2. UNCHANGED <<pc, todo, seen, slice, anon, failures>>
      BY <2>1 DEF task
    <3>3. \A v \in Users : seen'[v] <= counter'[v] /\ ~(counter'[v] > 0)
      BY <2>1, <2>2, <3>2
    <3> QED BY <2>1, <2>2, <3>1, <3>2, <3>3 DEF ReportInv, TypeOK
  <2>4. \A v \in Users : /\ counter[v] \in Nat /\ sent[v] \in Nat
                         /\ v \notin excused' => counter[v] = 0
    BY <2>1 DEF ReportInv, TypeOK, Some
  <2>5. UNCHANGED <<pc, seen, slice, failures, sent>>
    BY <2>1 DEF task
  <2> QED BY <2>1, <2>2, <2>3, <2>4, <2>5, TakingInv
<1> QED BY <1>1, <1>2, <1>3 DEF Connections

(* The monitor changes users and node only outside a drain, and excuses    *)
(* the user whose counter goes.                                            *)
LEMMA MonitorInv ==
  ASSUME ReportInv, Monitor
  PROVE  ReportInv'
<1>1. CASE \E u \in Users : DelUser(u)
  <2> PICK u \in Users : DelUser(u)
    BY <1>1
  <2>1. \A v \in Users : seen[v] = 0
    BY DEF ReportInv, DelUser, Draining, ReadsOne
  <2>2. UNCHANGED <<pc, seen, slice, sent, reported, dropped, twice, failures, worn>>
    BY DEF DelUser, task
  <2>3. TypeOK'
    BY <2>1, NumbersOK DEF ReportInv, DelUser, task, TypeOK
  <2>4. /\ \A v \in Users : /\ counter[v] \in Nat /\ sent[v] \in Nat
                            /\ counter'[v] = IF v = u THEN 0 ELSE counter[v]
        /\ excused \subseteq excused' /\ (counter[u] > 0 => u \in excused')
    BY DEF ReportInv, DelUser, TypeOK
  <2> QED BY <2>2, <2>3, <2>4, TakingInv
<1>2. CASE (\E u \in Users : AddUser(u)) \/ NodeDown \/ NodeUp
  <2>1. /\ UNCHANGED <<counter, stored, links, task, sent, reported, dropped, excused, twice, worn, bad>>
        /\ known \subseteq known' /\ known' \subseteq Users /\ entry' \in BOOLEAN
        /\ changes' \in 0 .. MaxChanges
    <3>1. CASE \E u \in Users : AddUser(u)
      BY <3>1 DEF AddUser, history, ReportInv, TypeOK
    <3>2. CASE NodeDown
      <4>1. changes' \in 0 .. MaxChanges
        BY <3>2, NumbersOK DEF NodeDown, ReportInv, TypeOK
      <4>2. known \subseteq Users
        BY DEF ReportInv, TypeOK
      <4> QED BY <3>2, <4>1, <4>2 DEF NodeDown
    <3>3. CASE NodeUp
      BY <3>3 DEF NodeUp, history, ReportInv, TypeOK
    <3> QED BY <1>2, <3>1, <3>2, <3>3
  <2>2. TypeOK'
    BY <2>1 DEF ReportInv, TypeOK, task, links
  <2>3. ReadsOne' /\ Conserved' /\ Backed'
    BY <2>1 DEF ReportInv, ReadsOne, Conserved, Backed, task
  <2> QED BY <2>1, <2>2, <2>3, GuardKept DEF ReportInv, task
<1> QED BY <1>1, <1>2 DEF Monitor

(* Draining moves what was read from the counter to the slice.             *)
LEMMA DrainInv ==
  ASSUME ReportInv, Begin \/ \E u \in Users : DrainLoad(u) \/ DrainClear(u)
  PROVE  ReportInv'
<1>1. CASE Begin
  <2>1. TypeOK' /\ ReadsOne'
    BY <1>1 DEF Begin, ReportInv, TypeOK, ReadsOne, core, links, history
  <2>2. Conserved' /\ Backed'
    BY <1>1 DEF Begin, ReportInv, Conserved, Backed, core, history
  <2> QED BY <1>1, <2>1, <2>2, GuardKept DEF Begin, ReportInv, history
<1>2. CASE \E u \in Users : DrainLoad(u)
  <2> PICK u \in Users : DrainLoad(u)
    BY <1>2
  <2>1. UNCHANGED <<counter, slice, failures, sent, reported, dropped, excused, twice, worn>>
    BY DEF DrainLoad, core, history
  <2>2. /\ seen' \in [Users -> Nat] /\ pc' \in {"drain", "clear"}
        /\ pc' # "clear" => \A v \in Users : seen'[v] = 0
        /\ \A v \in Users : seen'[v] > 0 => v = u
        /\ \A v \in Users : seen'[v] <= counter[v]
    BY DEF DrainLoad, None, ReportInv, ReadsOne, TypeOK
  <2>3. TypeOK'
    BY <2>1, <2>2 DEF DrainLoad, core, links, history, ReportInv, TypeOK
  <2>4. ReadsOne'
    BY <2>2 DEF ReadsOne
  <2>5. Conserved' /\ Backed'
    BY <2>1 DEF ReportInv, Conserved, Backed
  <2> QED BY <2>1, <2>3, <2>4, <2>5, GuardKept DEF ReportInv
<1>3. CASE \E u \in Users : DrainClear(u)
  <2> PICK u \in Users : DrainClear(u)
    BY <1>3
  <2>1. \A v \in Users : v # u => seen[v] = 0
    BY DEF DrainClear, ReportInv, ReadsOne, TypeOK
  <2>2. /\ slice' \in [Users -> Nat]
        /\ \A v \in Users : slice'[v] = slice[v] + seen[v]
        /\ seen' \in [Users -> Nat]
        /\ \A v \in Users : seen'[v] = 0
    BY PlusType DEF DrainClear, None, ReportInv, TypeOK
  <2>3. /\ counter' \in [Users -> Nat]
        /\ \A v \in Users : counter'[v] = IF v = u THEN 0 ELSE counter[v]
        /\ excused \subseteq excused' /\ (counter[u] > seen[u] => u \in excused')
    BY DEF DrainClear, ReportInv, TypeOK
  <2>4. UNCHANGED <<failures, sent, reported, dropped, twice, worn>>
    BY DEF DrainClear
  <2>5. TypeOK'
    BY <2>2, <2>3 DEF DrainClear, links, ReportInv, TypeOK
  <2>6. ReadsOne'
    BY <2>2 DEF ReadsOne
  <2>7. \A v \in Users : /\ Missing(v)' >= Missing(v)
                         /\ v \notin excused' => Missing(v)' = Missing(v)
    <3>1. \A v \in Users : /\ counter[v] \in Nat /\ seen[v] \in Nat /\ Missing(v) \in Int
                           /\ seen[v] <= counter[v]
      BY DEF ReportInv, TypeOK, Missing
    <3>2. \A v \in Users :
            Missing(v)' = Missing(v) + counter[v] - counter'[v] - seen[v]
      BY <2>2, <2>4, <2>5 DEF ReportInv, TypeOK, Missing
    <3> QED BY <2>1, <2>3, <3>1, <3>2
  <2>8. Conserved' /\ Backed'
    BY <2>3, <2>4, <2>5, <2>7, BalanceKept
  <2> QED BY <2>4, <2>5, <2>6, <2>8, GuardKept DEF ReportInv
<1> QED BY <1>1, <1>2, <1>3

(* What the request books is taken from the slice, what the guard gives up *)
(* too, and only an answer that is lost leaves booked bytes in the slice.  *)
LEMMA ReportKeepsInv ==
  ASSUME ReportInv, Report
  PROVE  ReportInv'
<1> DEFINE booked == Plus(reported, Booked)
<1>0. /\ slice \in [Users -> Nat] /\ reported \in [Users -> Nat]
      /\ dropped \in [Users -> Nat]
  BY DEF ReportInv, TypeOK
<1>1. Above \subseteq Users
  BY DEF Above, Some
<1>2. /\ booked \in [Users -> Nat]
      /\ \A u \in Users : booked[u] = reported[u] + IF u \in Above \ anon THEN slice[u] ELSE 0
  BY <1>0, PlusType, OnlyType DEF Booked
<1>3. None \in [Users -> Nat] /\ \A u \in Users : None[u] = 0
  BY DEF None
<1> HIDE DEF booked
<1>4. /\ UNCHANGED <<counter, known, stored, loose, rival, entry, todo, seen, anon, sent,
                     excused, changes>>
      /\ pc' = "refill" /\ \A u \in Users : seen[u] = 0
  BY DEF Report, core, links, ReportInv, ReadsOne
<1>5. ReadsOne'
  BY <1>4 DEF ReadsOne
<1>6. CASE ReportOk
  <2>1. /\ reported' = booked /\ failures' = 0 /\ worn' = None
        /\ UNCHANGED <<dropped, twice, bad>>
    BY <1>6 DEF ReportOk, booked
  <2>2. /\ slice' \in [Users -> Nat]
        /\ \A u \in Users : slice'[u] = IF u \in Above THEN 0 ELSE slice[u]
    BY <1>0, <1>6 DEF ReportOk, Only
  <2>3. TypeOK'
    BY <1>2, <1>3, <1>4, <2>1, <2>2 DEF ReportInv, TypeOK
  <2>4. \A u \in Users : /\ Missing(u)' >= Missing(u)
                         /\ u \notin excused' => Missing(u)' = Missing(u)
    <3>1. anon \subseteq excused
      BY DEF ReportInv, TypeOK
    <3> QED BY <1>2, <1>4, <2>1, <2>2, <3>1 DEF ReportInv, TypeOK, Missing
  <2>5. Conserved' /\ Backed'
    BY <1>4, <2>1, <2>3, <2>4, BalanceKept
  <2>6. WornByFailures' /\ GuardHolds'
    BY <1>3, <2>1, CapIsInt DEF WornByFailures, GuardHolds, reportFailureCap
  <2> QED BY <1>5, <2>3, <2>5, <2>6 DEF ReportInv
<1>7. CASE ReportFailed
  <2>1. /\ reported' \in [Users -> Nat] /\ twice' \subseteq Users /\ twice \subseteq twice'
        /\ \A u \in Users \ twice' : reported'[u] = reported[u]
    BY <1>1, <1>2, <1>7 DEF ReportFailed, booked, ReportInv, TypeOK
  <2>2. /\ slice' \in [Users -> Nat] /\ dropped' \in [Users -> Nat]
        /\ \A u \in Users : slice'[u] + dropped'[u] = slice[u] + dropped[u]
    <3>1. /\ Plus(dropped, slice) \in [Users -> Nat]
          /\ \A u \in Users : Plus(dropped, slice)[u] = dropped[u] + slice[u]
      BY <1>0, PlusType
    <3> QED BY <1>3, <1>7, <3>1 DEF ReportFailed, ReportInv, TypeOK
  <2>3. worn' \in [Users -> Nat] /\ \A u \in Users : worn'[u] <= worn[u] + 1
    BY <1>3, <1>7 DEF ReportFailed, ReportInv, TypeOK
  <2>4. failures' = failures + 1 /\ bad' \in 0 .. MaxFailures
    BY <1>7, NumbersOK DEF ReportFailed, ReportInv, TypeOK
  <2>5. TypeOK'
    BY <1>4, <2>1, <2>2, <2>3, <2>4 DEF ReportInv, TypeOK
  <2>6. \A u \in Users \ twice' : Missing(u)' = Missing(u) /\ Missing(u) \in Int
    BY <1>4, <2>1, <2>2 DEF ReportInv, TypeOK, Missing
  <2>7. Conserved' /\ Backed'
    BY <1>4, <2>1, <2>5, <2>6, BalanceKept
  <2>8. WornByFailures'
    BY <2>3, <2>4 DEF WornByFailures, ReportInv, TypeOK
  <2>9. GuardHolds'
    <3>1. reportFailureCap' = reportFailureCap
      BY DEF reportFailureCap
    <3>2. CASE reportRollbackDecision(failures + 1)
      <4>1. \A u \in Users : worn'[u] = 0
        BY <1>3, <1>7, <3>2 DEF ReportFailed
      <4> QED BY <3>1, <4>1, CapIsInt DEF GuardHolds
    <3>3. CASE ~reportRollbackDecision(failures + 1)
      <4>1. reportFailureCap >= 0 => failures + 1 <= reportFailureCap
        BY <3>3, CapIsInt DEF reportRollbackDecision, ReportInv, TypeOK
      <4>2. \A u \in Users : worn'[u] <= failures + 1
        BY <2>4, <2>8 DEF WornByFailures
      <4>3. failures + 1 \in Nat
        BY DEF ReportInv, TypeOK
      <4> QED BY <2>3, <3>1, <4>1, <4>2, <4>3, CapIsInt DEF GuardHolds
    <3> QED BY <3>2, <3>3
  <2> QED BY <1>5, <2>5, <2>7, <2>8, <2>9 DEF ReportInv
<1>8. CASE UNCHANGED <<slice, failures, reported, dropped, twice, worn, bad>>
  <2>1. TypeOK'
    BY <1>4, <1>8 DEF ReportInv, TypeOK
  <2>2. Conserved' /\ Backed'
    BY <1>4, <1>8 DEF ReportInv, Conserved, Backed
  <2> QED BY <1>5, <1>8, <2>1, <2>2, GuardKept DEF ReportInv
<1> QED BY <1>6, <1>7, <1>8 DEF Report

(* What is left goes back to its owner's counter or its owner is excused.  *)
LEMMA RefillInv ==
  ASSUME ReportInv, Refill
  PROVE  ReportInv'
<1> PICK astray \in SUBSET Shared :
      /\ counter' = Plus(counter, Returned(astray))
      /\ excused' = excused \cup { u \in Users : slice[u] > Returned(astray)[u] }
  BY DEF Refill
<1> DEFINE back == Returned(astray)
<1>1. /\ back \in [Users -> Nat]
      /\ \A u \in Users : back[u] <= slice[u] /\ (back[u] > 0 => u \in stored)
  BY OnlyType DEF Returned, None, ReportInv, TypeOK
<1>2. /\ counter' = Plus(counter, back) /\ slice' = None /\ pc' = "idle"
      /\ excused' = excused \cup { u \in Users : slice[u] > back[u] }
      /\ anon' = {}
      /\ UNCHANGED <<known, stored, loose, rival, entry, todo, seen, failures, sent, reported,
                     dropped, twice, worn, bad, changes>>
  BY DEF Refill, links
<1> HIDE DEF back
<1>3. /\ counter' \in [Users -> Nat]
      /\ \A u \in Users : counter'[u] = counter[u] + back[u]
      /\ slice' \in [Users -> Nat]
      /\ \A u \in Users : slice'[u] = 0
  <2>1. counter \in [Users -> Nat]
    BY DEF ReportInv, TypeOK
  <2> QED BY <1>1, <1>2, <2>1, PlusType DEF None
<1>4. \A u \in Users : seen[u] = 0
  BY DEF Refill, ReportInv, ReadsOne
<1>5. TypeOK'
  <2>1. \A u \in Users : counter'[u] > 0 => u \in stored
    BY <1>1, <1>3 DEF ReportInv, TypeOK
  <2> QED BY <1>2, <1>3, <1>4, <2>1 DEF ReportInv, TypeOK
<1>6. ReadsOne'
  BY <1>2, <1>4 DEF ReadsOne
<1>7. ASSUME NEW u \in Users
      PROVE  /\ Missing(u)' >= Missing(u)
             /\ u \notin excused' => Missing(u)' = Missing(u)
  <2>1. /\ counter[u] \in Nat /\ sent[u] \in Nat /\ slice[u] \in Nat
        /\ reported[u] \in Nat /\ dropped[u] \in Nat /\ back[u] \in Nat
    BY <1>1 DEF ReportInv, TypeOK
  <2>2. /\ counter'[u] = counter[u] + back[u] /\ slice'[u] = 0 /\ sent'[u] = sent[u]
        /\ reported'[u] = reported[u] /\ dropped'[u] = dropped[u]
    BY <1>2, <1>3
  <2>3. back[u] <= slice[u] /\ (u \notin excused' => back[u] = slice[u])
    BY <1>1, <1>2, <2>1
  <2> QED BY <2>1, <2>2, <2>3 DEF Missing
<1>8. Conserved' /\ Backed'
  BY <1>2, <1>5, <1>7, BalanceKept
<1> QED BY <1>2, <1>5, <1>6, <1>8, GuardKept DEF ReportInv

(* Every step keeps the invariant.                                         *)
LEMMA NextInv == ReportInv /\ [Next]_vars => ReportInv'
<1> SUFFICES ASSUME ReportInv, [Next]_vars
             PROVE  ReportInv'
  OBVIOUS
<1>1. CASE UNCHANGED vars
  BY <1>1 DEF ReportInv, TypeOK, ReadsOne, Conserved, Backed, WornByFailures, GuardHolds,
              reportFailureCap, vars, links
<1>2. CASE Next
  BY <1>2, ConnectionsInv, MonitorInv, DrainInv, ReportKeepsInv, RefillInv
     DEF Next, reportUserTrafficTask
<1> QED BY <1>1, <1>2

(* The invariant holds in every reachable state.                           *)
THEOREM ReportCorrect == Spec => []ReportInv
BY InitInv, NextInv, PTL DEF Spec

(* Every byte a user transfers is in the core, on its way to the panel,    *)
(* booked there or given up, exactly once, through every split, failed     *)
(* request and rollback of reportUserTrafficTask - but for the losses the  *)
(* code does not exclude, each of which excuses its user when it happens:  *)
(* a UID of two nodes, detached storage, the gap in a drain, a removed     *)
(* user or node, a lost answer.                                            *)
THEOREM BytesConserved == Spec => []Conserved
<1>1. ReportInv => Conserved
  BY DEF ReportInv
<1> QED BY <1>1, ReportCorrect, PTL

(* No user is booked, or has given up, more than was transferred, short of *)
(* a lost answer: the rollback never puts back what was reported.          *)
THEOREM NeverOverReported == Spec => []NoOverReport
<1>1. ReportInv => NoOverReport
  BY DEF ReportInv, Backed, NoOverReport, TypeOK
<1> QED BY <1>1, ReportCorrect, PTL

(* The bounded-rollback guard (reportRollbackDecision) holds for any cap   *)
(* and any number of failures.                                             *)
THEOREM GuardAlwaysHolds == Spec => []GuardHolds
<1>1. ReportInv => GuardHolds
  BY DEF ReportInv
<1> QED BY <1>1, ReportCorrect, PTL

(* The state keeps its types, and a counter being cleared holds at least   *)
(* what was read of it.                                                    *)
THEOREM TrafficTypeCorrect == Spec => []TypeOK
<1>1. ReportInv => TypeOK
  BY DEF ReportInv
<1> QED BY <1>1, ReportCorrect, PTL

=============================================================================

--------------------------- MODULE TrafficReport ----------------------------
(***************************************************************************)
(* The traffic of a node's users on its way to the panel: the core's       *)
(* counters (core/xray/user.go, common/counter), reportUserTrafficTask     *)
(* (node/user.go) that drains them, reports what exceeds the threshold and *)
(* puts the rest, or everything after a failure, back, and the connections *)
(* and the monitor that run beside it.                                     *)
(*                                                                         *)
(* Upload and download of a user are one number.  The counters are read    *)
(* and cleared in two steps, and no lock keeps the connections out; the    *)
(* cores' mapLock keeps the monitor's user changes out of a drain and of a *)
(* rollback.  The other nodes of the core are seen in one place: a         *)
(* rollback looks its users up by UID among those of all nodes.            *)
(***************************************************************************)
EXTENDS Integers, FiniteSets

CONSTANTS
  Users,
  Shared,        \* the users whose UID another node of the same core has too
  Threshold,     \* Basic.TrafficReportThreshold, 0 for none
  Cap,           \* MaxReportFailureRollbacks: negative for no guard, 0 for the default
  MaxBytes,      \* bound: bytes a user transfers in a behaviour
  MaxFailures,   \* bound: requests that fail in a behaviour
  MaxChanges     \* bound: removals of a user and reloads in a behaviour

ASSUME NumbersOK ==
  /\ Threshold \in Nat /\ Cap \in Int /\ Shared \subseteq Users
  /\ MaxBytes \in Nat /\ MaxFailures \in Nat /\ MaxChanges \in Nat

VARIABLES
  counter,   \* the core's counters
  known,     \* the users in the core: uidMap
  stored,    \* the users whose counter exists
  loose,     \* the users with connections that outlived their counter
  rival,     \* may a first connection still overwrite the node's counters?
  entry,     \* has the Selector the node?
  pc,        \* where the report task is
  todo,      \* the users still to be drained
  seen,      \* the value just read of the user being drained, or 0
  slice,     \* the bytes drained and neither reported nor put back
  anon,      \* the users whose bytes in the slice carry no UID
  failures,  \* Controller.reportFailures
  sent,      \* history: bytes the connections transferred
  reported,  \* history: bytes the panel booked
  dropped,   \* history: bytes given up by the guard
  excused,   \* history: users who lost bytes to a race or a change beside the report
  twice,     \* history: users booked by a report whose answer was lost
  worn,      \* history: failed requests in a row a user's bytes have come back from
  bad,       \* history: requests failed
  changes    \* history: removals and reloads

vars == <<counter, known, stored, loose, rival, entry, pc, todo, seen, slice, anon, failures,
          sent, reported, dropped, excused, twice, worn, bad, changes>>

links == <<loose, rival>>
core == <<counter, known, stored, links, entry>>
task == <<pc, todo, seen, slice, anon, failures>>
history == <<sent, reported, dropped, excused, twice, worn, bad, changes>>

None == [u \in Users |-> 0]
Some(f) == { u \in Users : f[u] > 0 }
Plus(f, g) == [u \in Users |-> f[u] + g[u]]
Only(f, S) == [u \in Users |-> IF u \in S THEN f[u] ELSE 0]

\* reportFailureCap and reportRollbackDecision.
DefaultCap == 5
reportFailureCap == IF Cap = 0 THEN DefaultCap ELSE IF Cap < 0 THEN -1 ELSE Cap

\* Faulty variant, for the mutation runs only: one failure too late.
reportRollbackDecisionLate(n) == reportFailureCap >= 0 /\ n > reportFailureCap + 1

reportRollbackDecision(n) == reportFailureCap >= 0 /\ n > reportFailureCap

-----------------------------------------------------------------------------
(* The connections and the monitor.                                        *)

\* A connection counts into the counter its start found or made: that of a
\* user of the core, or of one removed while the connection was starting.
Transfer(u) ==
  /\ u \in known \cup loose
  /\ sent[u] < MaxBytes
  /\ stored' = stored \cup {u}
  /\ counter' = [counter EXCEPT ![u] = @ + 1]
  /\ sent' = [sent EXCEPT ![u] = @ + 1]
  /\ UNCHANGED <<known, links, entry, task, reported, dropped, excused, twice, worn, bad, changes>>

\* A connection that outlived its counter counts where nobody reads.
TransferDetached(u) ==
  /\ u \in loose
  /\ sent[u] < MaxBytes
  /\ sent' = [sent EXCEPT ![u] = @ + 1]
  /\ excused' = excused \cup {u}
  /\ UNCHANGED <<core, task, reported, dropped, twice, worn, bad, changes>>

\* Faulty variant: mapLock is given up between the two steps of a drain.
DrainingLoadOnly == pc = "drain"

\* mapLock is held for reading while the counters are drained or refilled.
Draining == pc \in {"drain", "clear"}

\* Two first connections of a node race in getLink: each finds the tag without
\* counters and stores new ones, the later over those the earlier counts in.
\* (A drain goes on over the old ones, as if it had come first.)
Overwrite ==
  /\ rival /\ stored # {} /\ ~Draining
  /\ rival' = FALSE
  /\ counter' = None
  /\ stored' = {}
  /\ loose' = loose \cup stored
  /\ excused' = excused \cup Some(counter)
  /\ UNCHANGED <<known, entry, task, sent, reported, dropped, twice, worn, bad, changes>>

\* DelUsers of the core: the user's counter goes with the bytes it holds.  Its
\* connections are closed on one side only, or were not registered yet.
DelUser(u) ==
  /\ u \in known /\ ~Draining
  /\ changes < MaxChanges /\ changes' = changes + 1
  /\ known' = known \ {u}
  /\ stored' = stored \ {u}
  /\ loose' = loose \cup {u}
  /\ counter' = [counter EXCEPT ![u] = 0]
  /\ excused' = IF counter[u] > 0 THEN excused \cup {u} ELSE excused
  /\ UNCHANGED <<rival, entry, task, sent, reported, dropped, twice, worn, bad>>

AddUser(u) ==
  /\ u \notin known /\ ~Draining
  /\ known' = known \cup {u}
  /\ UNCHANGED <<counter, stored, links, entry, task, history>>

\* DelNode and AddNode of a reload.  The counters of the tag stay.
NodeDown ==
  /\ entry
  /\ changes < MaxChanges /\ changes' = changes + 1
  /\ entry' = FALSE
  /\ UNCHANGED <<counter, known, stored, links, task, sent, reported, dropped, excused, twice, worn, bad>>

NodeUp ==
  /\ ~entry
  /\ entry' = TRUE
  /\ UNCHANGED <<counter, known, stored, links, task, history>>

-----------------------------------------------------------------------------
(* reportUserTrafficTask.                                                  *)

\* GetUserTrafficSlice of a node that is not in the Selector gives an error
\* the task ignores, and no traffic.
Begin ==
  /\ pc = "idle"
  /\ pc' = "drain"
  /\ todo' = IF entry THEN stored ELSE {}
  /\ UNCHANGED <<core, seen, slice, anon, failures, history>>

\* One counter: it is loaded ...
DrainLoad(u) ==
  /\ pc = "drain" /\ u \in todo
  /\ todo' = todo \ {u}
  /\ IF counter[u] > 0
     THEN pc' = "clear" /\ seen' = [None EXCEPT ![u] = counter[u]]
     ELSE UNCHANGED <<pc, seen>>
  /\ UNCHANGED <<core, slice, anon, failures, history>>

\* ... and set to 0, with whatever was added in between.  The bytes of a user
\* who is no longer in uidMap are taken along under UID 0.
DrainClear(u) ==
  /\ pc = "clear" /\ seen[u] > 0
  /\ counter' = [counter EXCEPT ![u] = 0]
  /\ excused' = IF counter[u] > seen[u] \/ u \notin known THEN excused \cup {u} ELSE excused
  /\ anon' = IF u \in known THEN anon ELSE anon \cup {u}
  /\ slice' = Plus(slice, seen)
  /\ seen' = None
  /\ pc' = "drain"
  /\ UNCHANGED <<known, stored, links, entry, todo, failures, sent, reported, dropped, twice, worn, bad, changes>>

\* Faulty variant: the two halves of the split are swapped.
AboveSwapped == { u \in Some(slice) : Threshold = 0 \/ slice[u] <= Threshold }

\* splitUserTrafficByThreshold.
Above == { u \in Some(slice) : Threshold = 0 \/ slice[u] > Threshold }

\* What the panel books of a request: nothing under UID 0.
Booked == Only(slice, Above \ anon)

\* Faulty variants: the bytes of the users below the threshold are forgotten
\* with those reported; all that was drained goes back.
ReportOkForgetsSkipped ==
  /\ reported' = Plus(reported, Booked)
  /\ slice' = None
  /\ failures' = 0 /\ worn' = None
  /\ UNCHANGED <<dropped, twice, bad>>

ReportOkRefillsAll ==
  /\ reported' = Plus(reported, Booked)
  /\ failures' = 0 /\ worn' = None
  /\ UNCHANGED <<slice, dropped, twice, bad>>

\* ReportUserTraffic succeeded: what was below the threshold goes back.
ReportOk ==
  /\ reported' = Plus(reported, Booked)
  /\ slice' = Only(slice, Users \ Above)
  /\ failures' = 0 /\ worn' = None
  /\ UNCHANGED <<dropped, twice, bad>>

\* It failed: the panel has booked nothing, or its answer was lost.  Beyond
\* the cap of failures in a row everything drained is given up.
ReportFailed ==
  /\ bad < MaxFailures /\ bad' = bad + 1
  /\ failures' = failures + 1
  /\ \/ UNCHANGED <<reported, twice>>
     \/ /\ reported' = Plus(reported, Booked)
        /\ twice' = twice \cup (Above \ anon)
  /\ IF reportRollbackDecision(failures + 1)
     THEN slice' = None /\ dropped' = Plus(dropped, slice) /\ worn' = None
     ELSE /\ worn' = [u \in Users |-> IF slice[u] > 0 THEN worn[u] + 1 ELSE 0]
          /\ UNCHANGED <<slice, dropped>>

\* One request for all users above the threshold, none if there is none.
Report ==
  /\ pc = "drain" /\ todo = {}
  /\ pc' = "refill"
  /\ \/ Above # {} /\ (ReportOk \/ ReportFailed)
     \/ Above = {} /\ UNCHANGED <<slice, failures, reported, dropped, twice, worn, bad>>
  /\ UNCHANGED <<core, todo, seen, anon, sent, excused, changes>>

\* What AddUserTrafficSlice puts back of what is left: nothing if the node is
\* gone; users who are gone, or back but without a new counter, are passed
\* over.  The reverse of uidMap has one e-mail for a UID, that of any of the
\* nodes that have it, and the counters of this node are not under another's.
Returned(astray) ==
  IF entry THEN Only(slice, (known \cap stored) \ (astray \cup anon)) ELSE None

Refill ==
  /\ pc = "refill"
  /\ \E astray \in SUBSET Shared :
       /\ counter' = Plus(counter, Returned(astray))
       /\ excused' = excused \cup { u \in Users : slice[u] > Returned(astray)[u] }
  /\ slice' = None /\ anon' = {}
  /\ pc' = "idle"
  /\ UNCHANGED <<known, stored, links, entry, todo, seen, failures,
                 sent, reported, dropped, twice, worn, bad, changes>>

-----------------------------------------------------------------------------
Init ==
  /\ counter = None /\ known = Users /\ stored = {} /\ entry = TRUE
  /\ loose = {} /\ rival = TRUE
  /\ pc = "idle" /\ todo = {} /\ seen = None /\ slice = None /\ anon = {} /\ failures = 0
  /\ sent = None /\ reported = None /\ dropped = None
  /\ excused = {} /\ twice = {} /\ worn = None /\ bad = 0 /\ changes = 0

reportUserTrafficTask ==
  \/ Begin \/ \E u \in Users : DrainLoad(u) \/ DrainClear(u)
  \/ Report \/ Refill

Monitor ==
  \/ \E u \in Users : DelUser(u) \/ AddUser(u)
  \/ NodeDown \/ NodeUp

Connections == Overwrite \/ \E u \in Users : Transfer(u) \/ TransferDetached(u)

Next == Connections \/ Monitor \/ reportUserTrafficTask

Spec == Init /\ [][Next]_vars

\* The report task runs at its interval and its requests come to an end; a
\* reload brings the node up again.
Fairness == WF_vars(reportUserTrafficTask) /\ WF_vars(NodeUp)

FairSpec == Spec /\ Fairness

-----------------------------------------------------------------------------
(* Properties.                                                             *)

\* The types; only users who are or were in the core have counters, bytes
\* without a UID were drained, and a counter that is being cleared had at
\* least what was read.
TypeOK ==
  /\ counter \in [Users -> Nat] /\ known \subseteq Users /\ entry \in BOOLEAN
  /\ loose \subseteq Users /\ rival \in BOOLEAN /\ stored \subseteq known \cup loose
  /\ anon \subseteq excused
  /\ pc \in {"idle", "drain", "clear", "refill"} /\ todo \subseteq Users
  /\ seen \in [Users -> Nat] /\ slice \in [Users -> Nat] /\ failures \in Nat
  /\ sent \in [Users -> 0 .. MaxBytes] /\ reported \in [Users -> Nat] /\ dropped \in [Users -> Nat]
  /\ excused \subseteq Users /\ twice \subseteq Users /\ worn \in [Users -> Nat]
  /\ bad \in 0 .. MaxFailures /\ changes \in 0 .. MaxChanges
  /\ \A u \in Users : seen[u] <= counter[u] /\ (counter[u] > 0 => u \in stored)

\* "the strict no-loss invariant" (user.go:14-23, 78-80): through every
\* threshold split, failed request, rollback and removal a user's bytes are in
\* the core, on their way, at the panel, or given up by the guard, exactly
\* once.  The code does not keep its promise for the excused: users whose UID
\* another node of the core has too and whose bytes Refill takes to that
\* node's e-mail (xray/user.go:108-121), users with bytes counted between the
\* two steps of a drain, into storage that a removal or a rival first
\* connection has detached, or drained or put back after their removal, and
\* users of a node that a reload has down; nor for a lost answer.
Conserved ==
  \A u \in Users \ (excused \cup twice) :
    sent[u] = counter[u] + slice[u] + reported[u] + dropped[u]

\* Nothing is booked that was not transferred, short of a lost answer.
NoOverReport == \A u \in Users \ twice : reported[u] + dropped[u] <= sent[u]

\* "so the in-core per-user counter doesn't grow without limit"
\* (user.go:34-37): with the guard on, no bytes come back to the core from
\* more failed requests in a row than the cap, whoever they belong to and
\* whatever happens to the node and its users between the requests.
GuardHolds == reportFailureCap >= 0 => \A u \in Users : worn[u] <= reportFailureCap

\* "low-traffic users still eventually cross the threshold and reach the
\* panel" (user.go:20-22): the bytes of a user that the panel has not got do
\* not stay above the threshold for ever, in the core and on their way taken
\* together.
EventuallyReported ==
  \A u \in Users : counter[u] + slice[u] > Threshold ~> counter[u] + slice[u] <= Threshold

=============================================================================

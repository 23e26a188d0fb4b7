-------------------------- MODULE DispatcherProofs --------------------------
(***************************************************************************)
(* Proofs about the dispatcher, for any users, connections, limit and      *)
(* number of changes.                                                      *)
(*                                                                         *)
(* CutOff is not inductive: that the walk of CloseAll leaves no connection *)
(* of the user running needs that every one that has not raced is among    *)
(* the links of the manager the user has (Reached) and among those still   *)
(* to be walked (Walking), and that whoever is still on its way into a     *)
(* manager when the user is gone has raced (LateHasRaced).                 *)
(***************************************************************************)
EXTENDS Dispatcher, FiniteSetTheorems, TLAPS

\* A connection of getLink that can be held against DelUsers.
Plain(c) == cn[c].via = "pipe" /\ ~cn[c].raced

\* Only users of xray come by getLink; past the lookup, each has a manager.
Entered(c) ==
  /\ cn[c].via = "pipe" => cn[c].user \in Users \ SingUsers
  /\ cn[c].at \in Entering => cn[c].user \in Users
  /\ cn[c].at = "link" => cn[c].lm # None

\* A user is being removed from an xray inbound.
Removing == upd.at \in {"links", "closeAll"}
Removal == Removing => upd.user \in Users \ (SingUsers \cup inCore)

LateHasRaced(c) == cn[c].at \in Entering /\ cn[c].user \notin inCore => cn[c].raced

\* What DelUsers will find.
Reached(c) ==
  Plain(c) /\ cn[c].at \in Held \cup {"link"} =>
    /\ cn[c].lm # None /\ manager[cn[c].user] = cn[c].lm
    /\ cn[c].at \in Held => c \in links[cn[c].lm]

Walking(c) ==
  upd.at = "closeAll" /\ Plain(c) /\ cn[c].at \in Held /\ cn[c].user = upd.user =>
    cn[c].lm = upd.lm /\ c \in upd.todo

Gone(c) ==
  Plain(c) /\ cn[c].at \in Held /\ cn[c].user \notin inCore =>
    Removing /\ upd.user = cn[c].user

\* The inductive invariant of the removal.
Accounted(c) == Entered(c) /\ LateHasRaced(c) /\ Reached(c) /\ Walking(c) /\ Gone(c)
CutInv == TypeOK /\ Removal /\ \A c \in Conns : Accounted(c)

(* The dispatcher starts without connections.                              *)
LEMMA InitCut == Init => CutInv
BY ConnsOK DEF Init, CutInv, TypeOK, ConnStates, Removing, Removal, Accounted, Entered, LateHasRaced, Reached, Walking,
   Gone, Plain, New, NoUpdate, Users, Entering, Held, None

(* What follows from the invariant when DelUsers is not at work.           *)
LEMMA CutInvIsCutOff == CutInv => CutOff
<1> SUFFICES ASSUME CutInv, NEW u \in XrayUsers, u \notin inCore, upd.user # u, NEW c \in Conns,
                    cn[c].user = u, cn[c].via = "pipe", ~cn[c].raced
             PROVE  cn[c].at \notin {"route", "open"}
  BY DEF CutOff
<1> QED
  BY DEF CutInv, Accounted, Gone, Plain, Held

-----------------------------------------------------------------------------
(* How a connection changes.                                               *)

\* Only c changes.
Alone(c) == cn' \in [Conns -> ConnStates] /\ \A o \in Conns \ {c} : cn'[o] = cn[o]

\* The rest is as it was for the connection o.
Beside(o) ==
  /\ cn'[o] = cn[o] /\ UNCHANGED <<inCore, manager>>
  /\ upd'.at = upd.at /\ upd'.user = upd.user /\ upd'.lm = upd.lm
  /\ o \in upd.todo => o \in upd'.todo
  /\ \A m \in Conns : o \in links[m] => o \in links'[m]

(* A connection beside the one that steps is accounted for as before.      *)
LEMMA OthersStay ==
  ASSUME TypeOK, NEW o \in Conns, Accounted(o), Beside(o)
  PROVE  Accounted(o)'
<1> USE DEF Beside, Plain, Removing
<1>1. Entered(o)' /\ LateHasRaced(o)'
  BY DEF Accounted, Entered, LateHasRaced
<1>2. cn[o].lm # None => cn[o].lm \in Conns
  BY DEF TypeOK, ConnStates
<1>3. Reached(o)' /\ Walking(o)' /\ Gone(o)'
  BY <1>2 DEF Accounted, Reached, Walking, Gone
<1> QED BY <1>1, <1>3 DEF Accounted

(* A connection moves on.                                                  *)
LEMMA GotoMoves ==
  ASSUME TypeOK, NEW c \in Conns, NEW label \in Entering \cup Held \cup {"cut"}, Goto(c, label)
  PROVE  /\ Alone(c)
         /\ cn'[c].at = label /\ cn'[c].user = cn[c].user /\ cn'[c].via = cn[c].via
         /\ cn'[c].lm = cn[c].lm /\ cn'[c].raced = cn[c].raced
         /\ cn'[c].counted = cn[c].counted /\ cn'[c].released = cn[c].released
<1>1. cn[c] \in ConnStates /\ cn' = [cn EXCEPT ![c] = [cn[c] EXCEPT !.at = label]]
  BY DEF TypeOK, Goto
<1>2. [cn[c] EXCEPT !.at = label] \in ConnStates
  BY <1>1 DEF ConnStates
<1>3. Alone(c) /\ cn'[c] = [cn[c] EXCEPT !.at = label]
  BY <1>1, <1>2 DEF Alone, TypeOK
<1> QED BY <1>1, <1>3 DEF ConnStates

(* A closed connection is nobody's.                                        *)
LEMMA ClosedIsState ==
  Closed \in ConnStates /\ Closed.at = "closed" /\ Closed.via = None /\ Closed.user = None /\ ~Closed.counted
BY DEF Closed, New, ConnStates

(* A refused connection is closed.                                         *)
LEMMA RefuseCloses ==
  ASSUME TypeOK, NEW c \in Conns, Refuse(c)
  PROVE  Alone(c) /\ cn'[c].at = "closed" /\ cn'[c].via = None /\ ~cn'[c].counted
BY ClosedIsState DEF Refuse, TypeOK, Alone

\* What closing the writer of c does to the connections and the links.
Closing(c) ==
  /\ Alone(c) /\ links' \in [Conns -> SUBSET Conns] /\ slots' \in [Users -> Nat]
  /\ cn'[c].at \in {"closed", "cut"} /\ (cn'[c].via = "pipe" => cn'[c].user \in Users \ SingUsers)
  /\ \A m \in Conns : links'[m] \subseteq links[m] \ {c}
  /\ \A m \in Conns, o \in Conns \ {c} : o \in links[m] => o \in links'[m]

(* ManagedWriter.Close does no more than that.                             *)
LEMMA ClosingWriter ==
  ASSUME TypeOK, NEW c \in Conns, Entered(c), NEW label \in {"closed", "cut"}, CloseWriter(c, label)
  PROVE  Closing(c)
<1>a. cn[c] \in ConnStates
  BY DEF TypeOK
<1>b. Hooked(c) \in BOOLEAN
  BY <1>a, ConnsOK DEF Hooked, ConnStates
<1>c. [cn[c] EXCEPT !.at = label, !.released = Hooked(c)] \in ConnStates
  <2> DEFINE h == Hooked(c)
  <2>1. h \in BOOLEAN
    BY <1>b
  <2> HIDE DEF h
  <2>2. [cn[c] EXCEPT !.at = label, !.released = h] \in ConnStates
    BY <1>a, <2>1 DEF ConnStates
  <2> QED BY <2>2 DEF h
<1>d. cn' = [cn EXCEPT ![c] = IF label = "closed" THEN Closed
                              ELSE [cn[c] EXCEPT !.at = label, !.released = Hooked(c)]]
  BY DEF CloseWriter
<1>1. Alone(c)
  BY <1>c, <1>d, ClosedIsState DEF Alone, TypeOK
<1>2. cn'[c].at \in {"closed", "cut"} /\ (cn'[c].via = "pipe" => cn'[c].user \in Users \ SingUsers)
  <2>1. CASE label = "closed"
    BY <1>d, <2>1, ClosedIsState DEF TypeOK, None
  <2>2. CASE label = "cut"
    BY <1>a, <1>d, <2>2 DEF TypeOK, Entered, ConnStates
  <2> QED BY <2>1, <2>2
<1>3. \A m \in Conns : c \in links[m] => cn[c].lm = m
  BY DEF TypeOK
<1>4. links' = Unlinked(c)
  BY DEF CloseWriter
<1>5. /\ links' \in [Conns -> SUBSET Conns]
      /\ \A m \in Conns : links'[m] \subseteq links[m] \ {c}
      /\ \A m \in Conns, o \in Conns \ {c} : o \in links[m] => o \in links'[m]
  <2>1. cn[c].lm \in Conns \cup {None} /\ links \in [Conns -> SUBSET Conns]
    BY <1>a DEF ConnStates, TypeOK
  <2>2. CASE cn[c].lm = None
    BY <1>3, <1>4, <2>1, <2>2, ConnsOK DEF Unlinked
  <2>3. CASE cn[c].lm # None
    BY <1>3, <1>4, <2>1, <2>3 DEF Unlinked
  <2> QED BY <2>2, <2>3
<1>6. slots' \in [Users -> Nat]
  <2> DEFINE u == cn[c].user
  <2>1. slots \in [Users -> Nat]
    BY DEF TypeOK
  <2>2. slots' = slots \/ (slots[u] > 0 /\ slots' = [slots EXCEPT ![u] = @ - 1])
    <3>1. CASE Releases(c) /\ slots[u] > 0
      BY <3>1 DEF CloseWriter
    <3>2. CASE ~(Releases(c) /\ slots[u] > 0)
      BY <3>2 DEF CloseWriter
    <3> QED BY <3>1, <3>2
  <2> HIDE DEF u
  <2>3. CASE u \in Users
    BY <2>1, <2>2, <2>3
  <2>4. CASE u \notin Users
    BY <2>1, <2>2, <2>4
  <2> QED BY <2>3, <2>4
<1> QED BY <1>1, <1>2, <1>5, <1>6 DEF Closing

(* Closing a writer keeps the rest accounted for.                          *)
LEMMA ClosingKeepsCut ==
  ASSUME CutInv, NEW c \in Conns, Closing(c), UNCHANGED <<inCore, inLimiter, registered, manager, alive, hist>>,
         upd' = upd \/ upd' = [upd EXCEPT !.todo = @ \ {c}]
  PROVE  CutInv'
<1>1. upd' \in [at : {"idle", "links", "closeAll", "limiter"}, user : Users \cup {None},
                lm : Conns \cup {None}, todo : SUBSET Conns]
  BY DEF CutInv, TypeOK
<1>2. upd'.at = upd.at /\ upd'.user = upd.user /\ upd'.lm = upd.lm /\ upd.todo \ {c} \subseteq upd'.todo
  BY DEF CutInv, TypeOK
<1>3. \A m \in Conns : links'[m] \subseteq { o \in Conns : cn'[o].lm = m /\ cn'[o].at \in Held }
  BY DEF CutInv, TypeOK, Closing, Alone
<1>4. TypeOK'
  BY <1>1, <1>2, <1>3 DEF CutInv, TypeOK, Closing, Alone
<1>5. Removal'
  BY <1>2 DEF CutInv, Removal, Removing
<1>6. ASSUME NEW o \in Conns PROVE Accounted(o)'
  <2>1. CASE o = c
    BY <2>1 DEF Closing, Accounted, Entered, LateHasRaced, Reached, Walking, Gone, Entering, Held
  <2>2. CASE o # c
    BY <1>2, <2>2, OthersStay DEF CutInv, Closing, Alone, Beside
  <2> QED BY <2>1, <2>2
<1> QED BY <1>4, <1>5, <1>6 DEF CutInv

-----------------------------------------------------------------------------
(* The steps of a connection.                                              *)

\* c has been given another state and nothing else happened to the links.
Stepping(c) ==
  /\ Alone(c) /\ UNCHANGED <<users, manager, links, alive>>
  /\ slots' \in [Users -> Nat] /\ hist' \in [lost : [Users -> Nat], changes : Nat]
  /\ \A m \in Conns : c \in links[m] => cn'[c].lm = cn[c].lm /\ cn'[c].at \in Held

(* If c is accounted for after its step, everything is.                    *)
LEMMA StepKeepsCut ==
  ASSUME CutInv, NEW c \in Conns, Stepping(c), Accounted(c)'
  PROVE  CutInv'
<1>1. UNCHANGED <<inCore, inLimiter, registered, upd, manager, links, alive>>
  BY DEF Stepping, users
<1>2. \A m \in Conns : links'[m] \subseteq { o \in Conns : cn'[o].lm = m /\ cn'[o].at \in Held }
  BY <1>1 DEF CutInv, TypeOK, Stepping, Alone
<1>3. TypeOK'
  BY <1>1, <1>2 DEF CutInv, TypeOK, Stepping, Alone
<1>4. Removal'
  BY <1>1 DEF CutInv, Removal, Removing
<1>5. ASSUME NEW o \in Conns PROVE Accounted(o)'
  BY <1>1, OthersStay DEF CutInv, Stepping, Alone, Beside
<1> QED BY <1>3, <1>4, <1>5 DEF CutInv

(* The inbound hands over a connection: its user is in the inbound.        *)
LEMMA DialKeepsCut ==
  ASSUME CutInv, NEW c \in Conns, NEW u \in Users, NEW via \in {"pipe", "link", "hook"}, Dial(c, u, via)
  PROVE  CutInv'
<1> DEFINE new == [New EXCEPT !.at = "check", !.user = u, !.via = via]
<1>1. new \in ConnStates /\ new.at = "check" /\ new.user = u /\ new.via = via
  BY DEF New, ConnStates, Entering
<1>2. cn' = [cn EXCEPT ![c] = new] /\ UNCHANGED <<users, manager, links, slots, alive, hist>>
  BY DEF Dial
<1>3. cn[c].at = "new" /\ u \in inCore /\ via \in Vias(u)
  BY DEF Dial, At
<1> HIDE DEF new
<1>4. Alone(c) /\ cn'[c] = new
  BY <1>1, <1>2 DEF CutInv, TypeOK, Alone
<1>5. Stepping(c)
  BY <1>2, <1>3, <1>4 DEF CutInv, TypeOK, Stepping, Held
<1>6. via = "pipe" => u \notin SingUsers
  BY <1>3 DEF Vias
<1>7. Accounted(c)'
  BY <1>1, <1>2, <1>3, <1>4, <1>6
  DEF users, Accounted, Entered, LateHasRaced, Reached, Walking, Gone, Entering, Held
<1> QED BY <1>5, <1>7, StepKeepsCut

(* A connection refused or let into an sing outbound is no business of     *)
(* DelUsers; one that stays inside getLink keeps what it has.              *)
LEMMA PassingKeepsCut ==
  ASSUME CutInv, NEW c \in Conns, cn[c].at \in Entering, Stepping(c),
         \/ cn'[c].at = "closed" /\ cn'[c].via = None
         \/ cn'[c].at = "open" /\ cn'[c].via = "hook"
         \/ /\ cn'[c].at \in {"load", "store"} /\ cn'[c].user = cn[c].user
            /\ cn'[c].via = cn[c].via /\ cn'[c].raced = cn[c].raced
  PROVE  CutInv'
<1>1. UNCHANGED <<inCore, upd, manager, links>>
  BY DEF Stepping, users
<1>2. Entered(c)' /\ LateHasRaced(c)'
  BY <1>1 DEF CutInv, Accounted, Entered, LateHasRaced, Entering, None
<1>3. Reached(c)' /\ Walking(c)' /\ Gone(c)'
  BY DEF Reached, Walking, Gone, Plain, Held, None
<1> QED BY <1>2, <1>3, StepKeepsCut DEF Accounted

(* GetLimiter and CheckLimit, with whatever they answer.                   *)
LEMMA LimitKeepsCut ==
  ASSUME CutInv, NEW c \in Conns, GetLimiter(c) \/ \E isTcp \in BOOLEAN : CheckLimit(c, isTcp)
  PROVE  CutInv'
<1>1. cn[c].at = "check" /\ cn[c].user \in Users /\ UNCHANGED <<users, manager, links, alive>>
  BY DEF GetLimiter, CheckLimit, At, CutInv, Accounted, Entered, Entering
<1>2. \A m \in Conns : c \notin links[m]
  BY <1>1 DEF CutInv, TypeOK, Held
<1>3. CASE GetLimiter(c)
  <2>1. UNCHANGED <<slots, hist>>
    BY <1>3 DEF GetLimiter
  <2>2. \/ cn[c].via = "hook" /\ Goto(c, "open")
        \/ Refuse(c)
    BY <1>3 DEF GetLimiter
  <2>3. Alone(c) /\ \/ cn'[c].at = "closed" /\ cn'[c].via = None
                    \/ cn'[c].at = "open" /\ cn'[c].via = "hook"
    BY <2>2, GotoMoves, RefuseCloses DEF CutInv, Held
  <2>4. Stepping(c)
    BY <1>1, <1>2, <2>1, <2>3 DEF CutInv, TypeOK, Stepping
  <2> QED BY <1>1, <2>3, <2>4, PassingKeepsCut DEF Entering
<1>4. ASSUME NEW isTcp \in BOOLEAN, CheckLimit(c, isTcp)
      PROVE  CutInv'
  <2> DEFINE counts == isTcp /\ ConnLimit # 0
             at == IF cn[c].via = "hook" THEN "open" ELSE "load"
             next == [cn[c] EXCEPT !.at = at, !.counted = counts]
  <2>1. slots' \in [Users -> Nat] /\ hist' \in [lost : [Users -> Nat], changes : Nat]
    BY <1>1, <1>4 DEF CheckLimit, CutInv, TypeOK
  <2>2. cn[c] \in ConnStates
    BY DEF CutInv, TypeOK
  <2>3. counts \in BOOLEAN /\ at \in Entering \cup Held
    BY <1>4 DEF Entering, Held
  <2>4. Refuse(c) \/ cn' = [cn EXCEPT ![c] = next]
    BY <1>4 DEF CheckLimit
  <2> HIDE DEF counts
  <2>5. next \in ConnStates /\ next.at = at /\ next.user = cn[c].user /\ next.via = cn[c].via /\ next.raced = cn[c].raced
    BY <2>2, <2>3 DEF ConnStates
  <2> HIDE DEF next
  <2>6. CASE Refuse(c)
    <3>1. Stepping(c)
      BY <1>1, <1>2, <2>1, <2>6, RefuseCloses DEF CutInv, Stepping
    <3> QED BY <1>1, <2>6, <3>1, RefuseCloses, PassingKeepsCut DEF CutInv, Entering
  <2>7. CASE cn' = [cn EXCEPT ![c] = next]
    <3>1. Alone(c) /\ cn'[c] = next
      BY <2>5, <2>7 DEF CutInv, TypeOK, Alone
    <3>2. Stepping(c)
      BY <1>1, <1>2, <2>1, <3>1 DEF Stepping
    <3> QED BY <1>1, <2>5, <3>1, <3>2, PassingKeepsCut DEF Entering
  <2> QED BY <2>4, <2>6, <2>7
<1> QED BY <1>3, <1>4

(* The lookup: whoever finds a manager has the one DelUsers would find.    *)
LEMMA LoadKeepsCut ==
  ASSUME CutInv, NEW c \in Conns, LoadManager(c)
  PROVE  CutInv'
<1> DEFINE m == manager[cn[c].user]
           at == IF m = None THEN "store" ELSE "link"
           next == [cn[c] EXCEPT !.lm = m, !.at = at]
<1>1. cn[c].at = "load" /\ UNCHANGED <<users, manager, links, slots, alive, hist>> /\ cn' = [cn EXCEPT ![c] = next]
  BY DEF LoadManager, At
<1>2. cn[c].user \in Users /\ cn[c] \in ConnStates /\ m \in Conns \cup {None}
  BY <1>1 DEF CutInv, TypeOK, Accounted, Entered, Entering
<1> HIDE DEF m
<1>3. /\ next \in ConnStates /\ next.at = at /\ next.user = cn[c].user /\ next.lm = m
      /\ next.via = cn[c].via /\ next.raced = cn[c].raced
  BY <1>2 DEF ConnStates, Entering
<1> HIDE DEF next
<1>4. Alone(c) /\ cn'[c] = next
  BY <1>1, <1>3 DEF CutInv, TypeOK, Alone
<1>5. Stepping(c)
  BY <1>1, <1>4 DEF CutInv, TypeOK, Stepping, Held
<1>6. Entered(c)' /\ LateHasRaced(c)'
  BY <1>1, <1>2, <1>3, <1>4 DEF users, CutInv, Accounted, Entered, LateHasRaced, Entering
<1>7. Reached(c)' /\ Walking(c)' /\ Gone(c)'
  BY <1>1, <1>3, <1>4 DEF m, users, Reached, Walking, Gone, Held
<1> QED BY <1>5, <1>6, <1>7, StepKeepsCut DEF Accounted

(* A handler is found, or the connection has none and its writer is closed *)
(* without the manager being told.                                         *)
LEMMA RoutedKeepsCut ==
  ASSUME CutInv, NEW c \in Conns, routedDispatch(c)
  PROVE  CutInv'
<1>1. PICK label \in {"open", "dead"} : Goto(c, label)
  BY DEF routedDispatch
<1>2. cn[c].at = "route" /\ UNCHANGED <<users, manager, links, slots, alive, hist>>
  BY DEF routedDispatch, At
<1>3. /\ Alone(c) /\ cn'[c].at = label /\ cn'[c].user = cn[c].user /\ cn'[c].via = cn[c].via
      /\ cn'[c].lm = cn[c].lm /\ cn'[c].raced = cn[c].raced
  BY <1>1, GotoMoves DEF CutInv, Held
<1>4. Stepping(c)
  BY <1>2, <1>3 DEF CutInv, TypeOK, Stepping, Held
<1>5. Accounted(c)'
  BY <1>2, <1>3
  DEF users, CutInv, Accounted, Entered, LateHasRaced, Reached, Walking, Gone, Plain, Removing, Entering, Held
<1> QED BY <1>4, <1>5, StepKeepsCut

(* A manager stored over another: whoever has the other one has raced.     *)
LEMMA StoreKeepsCut ==
  ASSUME CutInv, NEW c \in Conns, StoreManager(c)
  PROVE  CutInv'
<1> DEFINE u == cn[c].user
<1> USE DEF Plain, Removing
<1>1. cn[c].at = "store" /\ u \in Users /\ UNCHANGED <<users, links, slots, alive, hist>>
  BY DEF StoreManager, At, CutInv, Accounted, Entered, Entering
<1>2. manager' = [manager EXCEPT ![u] = c] /\ manager' \in [Users -> Conns \cup {None}]
  BY DEF StoreManager, CutInv, TypeOK
<1>3. \A o \in Conns : cn[o] \in ConnStates
  BY DEF CutInv, TypeOK
<1>4. /\ cn'[c] \in ConnStates /\ cn'[c].at = "link" /\ cn'[c].lm = c
      /\ cn'[c].user = u /\ cn'[c].via = cn[c].via /\ cn'[c].raced = cn[c].raced
  <2>1. cn'[c] = [cn[c] EXCEPT !.lm = c, !.at = "link"]
    BY DEF StoreManager
  <2> QED BY <1>3, <2>1 DEF ConnStates, Entering
<1>5. ASSUME NEW o \in Conns, o # c
      PROVE  /\ cn'[o] \in ConnStates /\ cn'[o].at = cn[o].at /\ cn'[o].user = cn[o].user
             /\ cn'[o].via = cn[o].via /\ cn'[o].lm = cn[o].lm
             /\ cn'[o].raced <=> cn[o].raced \/ (manager[u] # None /\ cn[o].lm = manager[u])
  <2>1. cn'[o] = [cn[o] EXCEPT !.raced = cn[o].raced \/ (manager[u] # None /\ cn[o].lm = manager[u])]
    BY <1>5 DEF StoreManager
  <2> DEFINE r == cn[o].raced \/ (manager[u] # None /\ cn[o].lm = manager[u])
  <2>2. r \in BOOLEAN /\ cn'[o] = [cn[o] EXCEPT !.raced = r]
    BY <1>3, <2>1 DEF ConnStates
  <2> HIDE DEF r
  <2>3. /\ cn'[o] \in ConnStates /\ cn'[o].at = cn[o].at /\ cn'[o].user = cn[o].user
        /\ cn'[o].via = cn[o].via /\ cn'[o].lm = cn[o].lm /\ cn'[o].raced = r
    BY <1>3, <2>2 DEF ConnStates
  <2> QED BY <2>3 DEF r
<1>6. TypeOK'
  <2>1. cn' \in [Conns -> ConnStates]
    BY <1>4, <1>5 DEF StoreManager
  <2>2. \A m \in Conns : links'[m] \subseteq { o \in Conns : cn'[o].lm = m /\ cn'[o].at \in Held }
    BY <1>1, <1>5 DEF CutInv, TypeOK, Held
  <2>3. upd.at = "closeAll" => manager'[upd.user] # None
    BY <1>1, <1>2, ConnsOK DEF CutInv, TypeOK
  <2> QED BY <1>1, <1>2, <2>1, <2>2, <2>3 DEF users, CutInv, TypeOK
<1>7. Removal'
  BY <1>1 DEF users, CutInv, Removal
<1>8. Accounted(c)'
  BY <1>1, <1>2, <1>4, ConnsOK
  DEF users, CutInv, TypeOK, Accounted, Entered, LateHasRaced, Reached, Walking, Gone, Entering, Held
<1>9. ASSUME NEW o \in Conns, o # c PROVE Accounted(o)'
  <2>1. Accounted(o) /\ (Plain(o)' => Plain(o))
    BY <1>5, <1>9 DEF CutInv
  <2>2. Entered(o)' /\ LateHasRaced(o)'
    BY <1>1, <1>5, <1>9, <2>1 DEF users, Accounted, Entered, LateHasRaced
  <2>3. Reached(o)'
    BY <1>1, <1>2, <1>5, <1>9, <2>1 DEF CutInv, TypeOK, Accounted, Entered, Reached
  <2>4. Walking(o)' /\ Gone(o)'
    BY <1>1, <1>5, <1>9, <2>1 DEF users, Accounted, Walking, Gone
  <2> QED BY <2>2, <2>3, <2>4 DEF Accounted
<1> QED BY <1>6, <1>7, <1>8, <1>9 DEF CutInv

(* A link added to the manager, before or after the walk has passed.       *)
LEMMA AddKeepsCut ==
  ASSUME CutInv, NEW c \in Conns, AddLink(c)
  PROVE  CutInv'
<1> USE DEF Plain, Removing
<1>1. /\ cn[c].at = "link" /\ cn[c].user \in Users /\ cn[c].lm \in Conns
      /\ UNCHANGED <<inCore, inLimiter, registered, manager, slots, alive, hist>>
  BY DEF AddLink, At, CutInv, TypeOK, ConnStates, Accounted, Entered, Entering
<1>2. /\ Alone(c) /\ cn'[c].at = "route" /\ cn'[c].user = cn[c].user /\ cn'[c].via = cn[c].via
      /\ cn'[c].lm = cn[c].lm /\ cn'[c].raced = cn[c].raced
  <2>1. Goto(c, "route") /\ TypeOK
    BY DEF AddLink, CutInv
  <2> QED BY <2>1, GotoMoves DEF Held
<1>3. /\ links' \in [Conns -> SUBSET Conns]
      /\ \A m \in Conns : links[m] \subseteq links'[m] /\ links'[m] \subseteq links[m] \cup {c}
      /\ \A m \in Conns \ {cn[c].lm} : links'[m] = links[m]
      /\ cn[c].via = "pipe" => c \in links'[cn[c].lm]
  BY <1>1 DEF AddLink, CutInv, TypeOK
<1>4. /\ upd' \in [at : {"idle", "links", "closeAll", "limiter"}, user : Users \cup {None},
                   lm : Conns \cup {None}, todo : SUBSET Conns]
      /\ upd'.at = upd.at /\ upd'.user = upd.user /\ upd'.lm = upd.lm /\ upd.todo \subseteq upd'.todo
  <2>1. upd' = upd \/ upd' = [upd EXCEPT !.todo = @ \cup {c}]
    BY DEF AddLink
  <2> QED BY <2>1 DEF CutInv, TypeOK
<1>5. TypeOK'
  <2>1. \A m \in Conns : links'[m] \subseteq { o \in Conns : cn'[o].lm = m /\ cn'[o].at \in Held }
    BY <1>1, <1>2, <1>3 DEF CutInv, TypeOK, Alone, Held
  <2> QED BY <1>1, <1>2, <1>3, <1>4, <2>1 DEF CutInv, TypeOK, Alone
<1>6. Removal'
  BY <1>1, <1>4 DEF CutInv, Removal
<1>7. Accounted(c)'
  <2>1. Entered(c)' /\ LateHasRaced(c)'
    BY <1>1, <1>2 DEF CutInv, Accounted, Entered, LateHasRaced, Entering
  <2>2. Reached(c)'
    BY <1>1, <1>2, <1>3 DEF CutInv, Accounted, Reached
  <2>3. Plain(c)' => cn[c].user \in inCore
    BY <1>1, <1>2 DEF CutInv, Accounted, LateHasRaced, Entering
  <2>4. Walking(c)' /\ Gone(c)'
    BY <1>1, <1>2, <1>4, <2>3 DEF CutInv, Removal, Walking, Gone
  <2> QED BY <2>1, <2>2, <2>4 DEF Accounted
<1>8. ASSUME NEW o \in Conns, o # c PROVE Accounted(o)'
  BY <1>1, <1>2, <1>3, <1>4, <1>8, OthersStay DEF CutInv, Alone, Beside
<1> QED BY <1>5, <1>6, <1>7, <1>8 DEF CutInv

(* Every step of a connection, to its end.                                 *)
LEMMA ConnectionKeepsCut ==
  ASSUME CutInv, NEW c \in Conns, Connection(c)
  PROVE  CutInv'
<1>1. CASE Close(c)
  <2>1. PICK label \in {"closed", "cut"} : CloseWriter(c, label)
    BY <1>1 DEF Close
  <2>2. UNCHANGED <<inCore, inLimiter, registered, upd, manager, alive, hist>>
    BY <1>1 DEF Close, users
  <2>3. Closing(c)
    BY <2>1, ClosingWriter DEF CutInv, Accounted
  <2> QED BY <2>2, <2>3, ClosingKeepsCut
<1>2. CASE Fatal(c)
  <2>1. UNCHANGED <<inCore, inLimiter, registered, upd, manager, links, cn, slots, hist>> /\ alive' = FALSE
    BY <1>2 DEF Fatal, users
  <2> QED
    BY <2>1 DEF CutInv, TypeOK, Removal, Removing, Accounted, Entered, LateHasRaced, Reached, Walking, Gone, Plain
<1>3. CASE \E u \in Users, via \in {"pipe", "link", "hook"} : Dial(c, u, via)
  BY <1>3, DialKeepsCut
<1>4. CASE GetLimiter(c) \/ \E isTcp \in BOOLEAN : CheckLimit(c, isTcp)
  BY <1>4, LimitKeepsCut
<1>5. CASE LoadManager(c) \/ StoreManager(c) \/ AddLink(c) \/ routedDispatch(c)
  BY <1>5, LoadKeepsCut, StoreKeepsCut, AddKeepsCut, RoutedKeepsCut
<1> QED BY <1>1, <1>2, <1>3, <1>4, <1>5 DEF Connection

-----------------------------------------------------------------------------
(* The steps of the monitor.                                               *)

(* The inbound forgets the user: who is on the way into getLink has raced, *)
(* who is past it is what the update has to find.                          *)
LEMMA DelUsersKeepsCut ==
  ASSUME CutInv, NEW u \in Users, DelUsers(u)
  PROVE  CutInv'
<1> USE DEF Plain, Removing
<1>1. /\ upd.at = "idle" /\ inCore' = inCore \ {u}
      /\ UNCHANGED <<inLimiter, registered, manager, links, slots, alive>>
  BY DEF DelUsers, Change
<1>2. /\ upd'.at = (IF u \in SingUsers THEN "limiter" ELSE "links") /\ upd'.user = u
      /\ upd' \in [at : {"idle", "links", "closeAll", "limiter"}, user : Users \cup {None},
                   lm : Conns \cup {None}, todo : SUBSET Conns]
  BY DEF DelUsers, NoUpdate
<1>3. ASSUME NEW c \in Conns
      PROVE  /\ cn'[c] \in ConnStates /\ cn'[c].at = cn[c].at /\ cn'[c].user = cn[c].user
             /\ cn'[c].via = cn[c].via /\ cn'[c].lm = cn[c].lm
             /\ cn'[c].raced <=> cn[c].raced \/ (cn[c].user = u /\ cn[c].at \in Entering)
  <2> DEFINE r == cn[c].raced \/ (cn[c].user = u /\ cn[c].at \in Entering)
  <2>1. cn[c] \in ConnStates
    BY DEF CutInv, TypeOK
  <2>2. r \in BOOLEAN /\ cn'[c] = [cn[c] EXCEPT !.raced = r]
    BY <2>1 DEF DelUsers, ConnStates
  <2> HIDE DEF r
  <2>3. /\ cn'[c] \in ConnStates /\ cn'[c].at = cn[c].at /\ cn'[c].user = cn[c].user
        /\ cn'[c].via = cn[c].via /\ cn'[c].lm = cn[c].lm /\ cn'[c].raced = r
    BY <2>1, <2>2 DEF ConnStates
  <2> QED BY <2>3 DEF r
<1>4. TypeOK'
  <2>1. cn' \in [Conns -> ConnStates]
    BY <1>3 DEF DelUsers
  <2>2. hist' \in [lost : [Users -> Nat], changes : Nat]
    BY DEF DelUsers, CutInv, TypeOK
  <2> QED BY <1>1, <1>2, <1>3, <2>1, <2>2 DEF CutInv, TypeOK
<1>5. Removal'
  BY <1>1, <1>2 DEF Removal
<1>6. ASSUME NEW c \in Conns PROVE Accounted(c)'
  <2>1. Accounted(c) /\ (Plain(c)' => Plain(c))
    BY <1>3 DEF CutInv
  <2>2. Entered(c)' /\ LateHasRaced(c)' /\ Reached(c)' /\ Walking(c)'
    BY <1>1, <1>2, <1>3, <2>1 DEF Accounted, Entered, LateHasRaced, Reached, Walking
  <2>3. Gone(c)'
    BY <1>1, <1>2, <1>3, <2>1 DEF Accounted, Entered, Gone
  <2> QED BY <2>2, <2>3 DEF Accounted
<1> QED BY <1>4, <1>5, <1>6 DEF CutInv

(* DelLinks begins: no manager, no connection; else all of them are met.   *)
LEMMA DelLinksKeepsCut ==
  ASSUME CutInv, DelLinks
  PROVE  CutInv'
<1> DEFINE m == manager[upd.user]
<1> USE DEF Plain, Removing
<1>1. /\ upd.at = "links" /\ UNCHANGED <<inCore, inLimiter, registered, manager, links, cn, slots, alive, hist>>
      /\ upd.user \in Users /\ m \in Conns \cup {None}
  BY DEF DelLinks, CutInv, TypeOK, Removal
<1>2. /\ upd' \in [at : {"idle", "links", "closeAll", "limiter"}, user : Users \cup {None},
                   lm : Conns \cup {None}, todo : SUBSET Conns]
      /\ upd'.user = upd.user
      /\ \/ m = None /\ upd'.at = "limiter"
         \/ m # None /\ upd'.at = "closeAll" /\ upd'.lm = m /\ upd'.todo = links[m]
  BY <1>1 DEF DelLinks, CutInv, TypeOK
<1>3. TypeOK' /\ Removal'
  BY <1>1, <1>2 DEF CutInv, TypeOK, Removal
<1>4. ASSUME NEW c \in Conns PROVE Accounted(c)'
  BY <1>1, <1>2 DEF CutInv, Accounted, Entered, LateHasRaced, Reached, Walking, Gone
<1> QED BY <1>3, <1>4 DEF CutInv

(* The walk is over: every connection it had to meet is closed.            *)
LEMMA DelManagerKeepsCut ==
  ASSUME CutInv, DelManager
  PROVE  CutInv'
<1> USE DEF Plain, Removing
<1>1. /\ upd.at = "closeAll" /\ upd.todo \cap links[upd.lm] = {}
      /\ manager' = [manager EXCEPT ![upd.user] = None]
      /\ UNCHANGED <<inCore, inLimiter, registered, links, cn, slots, alive, hist>>
      /\ upd.user \in Users \ inCore
  BY DEF DelManager, CutInv, Removal
<1>2. /\ upd' \in [at : {"idle", "links", "closeAll", "limiter"}, user : Users \cup {None},
                   lm : Conns \cup {None}, todo : SUBSET Conns]
      /\ upd'.at = "limiter"
  BY DEF DelManager, CutInv, TypeOK
<1>3. ASSUME NEW c \in Conns, Plain(c), cn[c].at \in Held \cup {"link"}
      PROVE  cn[c].user # upd.user
  <2>1. CASE cn[c].at \in Held
    BY <1>1, <1>3, <2>1 DEF CutInv, Accounted, Reached, Walking
  <2>2. CASE cn[c].at = "link"
    BY <1>1, <1>3, <2>2 DEF CutInv, Accounted, LateHasRaced, Entering
  <2> QED BY <1>3, <2>1, <2>2
<1>4. TypeOK' /\ Removal'
  BY <1>1, <1>2 DEF CutInv, TypeOK, Removal
<1>5. ASSUME NEW c \in Conns PROVE Accounted(c)'
  <2>1. Entered(c)' /\ LateHasRaced(c)' /\ Walking(c)'
    BY <1>1, <1>2 DEF CutInv, Accounted, Entered, LateHasRaced, Walking
  <2>2. Reached(c)' /\ Gone(c)'
    BY <1>1, <1>2, <1>3 DEF CutInv, TypeOK, Accounted, Entered, Reached, Gone
  <2> QED BY <2>1, <2>2 DEF Accounted
<1> QED BY <1>4, <1>5 DEF CutInv

(* Every step of the monitor's update, and of Close.                       *)
LEMMA MonitorKeepsCut ==
  ASSUME CutInv, Monitor
  PROVE  CutInv'
<1> USE DEF Plain, Removing
<1>1. ASSUME NEW u \in Users, AddUsers(u)
      PROVE  CutInv'
  <2>1. /\ upd.at = "idle" /\ inCore' = inCore \cup {u}
        /\ UNCHANGED <<inLimiter, registered, manager, links, cn, slots, alive>>
    BY <1>1 DEF AddUsers, Change
  <2>2. /\ upd'.at = "limiter"
        /\ upd' \in [at : {"idle", "links", "closeAll", "limiter"}, user : Users \cup {None},
                     lm : Conns \cup {None}, todo : SUBSET Conns]
    BY <1>1 DEF AddUsers, NoUpdate
  <2>a. hist' \in [lost : [Users -> Nat], changes : Nat]
    BY <1>1 DEF AddUsers, CutInv, TypeOK
  <2>3. TypeOK' /\ Removal'
    BY <2>1, <2>2, <2>a DEF CutInv, TypeOK, Removal
  <2>4. ASSUME NEW c \in Conns PROVE Accounted(c)'
    BY <2>1, <2>2 DEF CutInv, Accounted, Entered, LateHasRaced, Reached, Walking, Gone
  <2> QED BY <2>3, <2>4 DEF CutInv
<1>2. ASSUME NEW c \in Conns, CloseAll(c)
      PROVE  CutInv'
  <2>1. CloseWriter(c, "cut") /\ TypeOK /\ Entered(c)
    BY <1>2 DEF CloseAll, CutInv, Accounted
  <2>2. Closing(c)
    BY <2>1, ClosingWriter
  <2> QED BY <1>2, <2>2, ClosingKeepsCut DEF CloseAll
<1>3. CASE UpdateUser
  <2>1. /\ upd.at = "limiter" /\ inLimiter' \subseteq Users /\ upd' = NoUpdate
        /\ UNCHANGED <<inCore, registered, manager, links, cn, slots, alive, hist>>
    BY <1>3 DEF UpdateUser, CutInv, TypeOK
  <2> QED
    BY <2>1 DEF NoUpdate, CutInv, TypeOK, Removal, Accounted, Entered, LateHasRaced, Reached, Walking, Gone
<1>4. CASE DeleteLimiter
  <2>1. /\ registered' = FALSE /\ inLimiter' = {}
        /\ UNCHANGED <<inCore, upd, manager, links, cn, slots, alive, hist>>
    BY <1>4 DEF DeleteLimiter
  <2> QED
    BY <2>1 DEF CutInv, TypeOK, Removal, Accounted, Entered, LateHasRaced, Reached, Walking, Gone
<1> QED
  BY <1>1, <1>2, <1>3, <1>4, DelUsersKeepsCut, DelLinksKeepsCut, DelManagerKeepsCut DEF Monitor

-----------------------------------------------------------------------------
(* The theorems.                                                           *)

(* The invariant of the removal holds for ever, whatever the number of     *)
(* users and connections.                                                  *)
THEOREM RemovalAccounted == Spec => []CutInv
<1>1. ASSUME CutInv, [Next]_vars
      PROVE  CutInv'
  <2>1. CASE UNCHANGED vars
    BY <1>1, <2>1
    DEF vars, CutInv, TypeOK, Removal, Removing, Accounted, Entered, LateHasRaced, Reached, Walking, Gone, Plain
  <2>2. CASE Next
    BY <1>1, <2>2, ConnectionKeepsCut, MonitorKeepsCut DEF Next
  <2> QED BY <1>1, <2>1, <2>2
<1> QED
  BY <1>1, InitCut, PTL DEF Spec

(* Once DelUsers has returned, every connection of the removed user that   *)
(* went through getLink without racing the removal has been closed.        *)
THEOREM RemovedAreCutOff == Spec => []CutOff
BY RemovalAccounted, CutInvIsCutOff, PTL

(* The variables keep their types, and no manager keeps a closed writer.   *)
THEOREM DispatcherTypes == Spec => []TypeOK
<1>1. CutInv => TypeOK
  BY DEF CutInv
<1> QED
  BY <1>1, RemovalAccounted, PTL

-----------------------------------------------------------------------------
(* The slots of the connection limiter, in realtime mode.                  *)

\* SlotsExact is inductive with the state of each counted connection: it has
\* a user, and its hook has run just when its writer has been cut.
Slotted(c) ==
  /\ cn[c].at = "check" => ~cn[c].released
  /\ cn[c].counted => /\ cn[c].user \in Users /\ cn[c].at \notin {"new", "check", "closed"}
                      /\ cn[c].released <=> cn[c].at = "cut"
SlotInv == SlotsExact /\ \A c \in Conns : Slotted(c)

\* c holds a slot after the step just when it held it before.
SameHold(c) ==
  /\ cn'[c].at = "check" => ~cn'[c].released
  /\ \/ ~cn[c].counted /\ ~cn'[c].counted
     \/ /\ cn'[c].counted = cn[c].counted /\ cn'[c].user = cn[c].user /\ cn'[c].released = cn[c].released
        /\ cn'[c].at = cn[c].at \/ {cn[c].at, cn'[c].at} \subseteq {"load", "store", "link"} \cup Held

(* No connection holds a slot at the start.                                *)
LEMMA InitSlots == Init => SlotInv
<1> SUFFICES ASSUME Init PROVE SlotInv
  OBVIOUS
<1>1. \A c \in Conns : ~cn[c].counted /\ ~cn[c].released
  BY DEF Init, New
<1>2. \A u \in Users : Holding(u) = {} /\ slots[u] = 0 /\ hist.lost[u] = 0
  BY <1>1 DEF Init, Holding
<1> QED BY <1>1, <1>2, FS_EmptySet DEF SlotInv, SlotsExact, Slotted

(* A step that lets every connection keep what it holds.                   *)
LEMMA SameHolders ==
  ASSUME SlotInv, \A c \in Conns : SameHold(c)
  PROVE  (\A c \in Conns : Slotted(c)') /\ \A u \in Users : Holding(u)' = Holding(u)
<1>1. ASSUME NEW c \in Conns PROVE Slotted(c)'
  BY DEF SlotInv, Slotted, SameHold, Held
<1>2. ASSUME NEW u \in Users PROVE Holding(u)' = Holding(u)
  BY DEF SlotInv, Slotted, SameHold, Holding, Held
<1> QED BY <1>1, <1>2

LEMMA HoldersStay ==
  ASSUME SlotInv, \A c \in Conns : SameHold(c), slots' = slots, hist'.lost = hist.lost
  PROVE  SlotInv'
BY SameHolders, Zenon DEF SlotInv, SlotsExact

(* Connections are finitely many, so one more or less changes the count.   *)
LEMMA HoldingCounts ==
  ASSUME NEW u \in Users
  PROVE  IsFiniteSet(Holding(u)) /\ Cardinality(Holding(u)) \in Nat
BY ConnsOK, FS_Subset, FS_CardinalityType DEF Holding

(* CheckLimit counts the connection it admits, or loses the count.         *)
LEMMA CheckCounts ==
  ASSUME CutInv, SlotInv, NEW c \in Conns, NEW isTcp \in BOOLEAN, CheckLimit(c, isTcp)
  PROVE  SlotInv'
<1> DEFINE u == cn[c].user
           counts == isTcp /\ ConnLimit # 0
           at == IF cn[c].via = "hook" THEN "open" ELSE "load"
           next == [cn[c] EXCEPT !.at = at, !.counted = counts]
<1>1. cn[c].at = "check" /\ u \in Users /\ ~cn[c].counted /\ ~cn[c].released /\ cn[c] \in ConnStates
  BY DEF CheckLimit, At, CutInv, TypeOK, Accounted, Entered, Entering, SlotInv, Slotted
<1>2. slots \in [Users -> Nat] /\ hist \in [lost : [Users -> Nat], changes : Nat]
  BY DEF CutInv, TypeOK
<1>3. CASE Refuse(c)
  <2>1. Alone(c) /\ cn'[c].at = "closed" /\ ~cn'[c].counted
    BY <1>3, RefuseCloses DEF CutInv
  <2>2. \A o \in Conns : SameHold(o)
    BY <1>1, <2>1 DEF Alone, SameHold, SlotInv, Slotted
  <2>3. \/ slots' = slots /\ hist' = hist
        \/ slots' = [slots EXCEPT ![u] = @ + 1] /\ hist' = [hist EXCEPT !.lost[u] = @ + 1]
    BY <1>1, <1>3 DEF CheckLimit, Refuse, Closed, New, CutInv, TypeOK, ConnStates
  <2>4. CASE slots' = slots /\ hist' = hist
    BY <2>2, <2>4, HoldersStay
  <2>5. CASE slots' = [slots EXCEPT ![u] = @ + 1] /\ hist' = [hist EXCEPT !.lost[u] = @ + 1]
    <3>1. ASSUME NEW v \in Users
          PROVE  slots'[v] = Cardinality(Holding(v)') + hist'.lost[v]
      BY <1>1, <1>2, <2>2, <2>5, SameHolders, HoldingCounts DEF SlotInv, SlotsExact
    <3> QED BY <2>2, <3>1, SameHolders DEF SlotInv, SlotsExact
  <2> QED BY <2>3, <2>4, <2>5
<1>4. CASE ~Refuse(c)
  <2>1. /\ cn' = [cn EXCEPT ![c] = next] /\ hist' = hist
        /\ slots' = IF counts THEN [slots EXCEPT ![u] = @ + 1] ELSE slots
    BY <1>4 DEF CheckLimit
  <2>2. counts \in BOOLEAN /\ at \in Held \cup {"load"}
    BY DEF Held
  <2> HIDE DEF counts
  <2>3. next.at = at /\ next.user = u /\ next.counted = counts /\ next.released = cn[c].released
    BY <1>1, <2>2 DEF ConnStates
  <2> HIDE DEF next, at
  <2>4. cn'[c] = next /\ \A o \in Conns \ {c} : cn'[o] = cn[o]
    BY <2>1 DEF CutInv, TypeOK
  <2>5. CASE ~counts
    <3>1. \A o \in Conns : SameHold(o)
      BY <1>1, <2>2, <2>3, <2>4, <2>5 DEF SameHold, SlotInv, Slotted, Held
    <3> QED BY <2>1, <2>5, <3>1, HoldersStay
  <2>6. CASE counts
    <3>1. \A o \in Conns : Slotted(o)'
      BY <1>1, <2>2, <2>3, <2>4, <2>6 DEF SlotInv, Slotted, Held
    <3>2. ASSUME NEW v \in Users
          PROVE  /\ v = u => Holding(v)' = Holding(v) \cup {c} /\ c \notin Holding(v)
                 /\ v # u => Holding(v)' = Holding(v)
      BY <1>1, <2>2, <2>3, <2>4, <2>6 DEF Holding, Held
    <3>3. ASSUME NEW v \in Users
          PROVE  slots'[v] = Cardinality(Holding(v)') + hist'.lost[v]
      <4>1. CASE v = u
        <5>1. Cardinality(Holding(v)') = Cardinality(Holding(v)) + 1
          BY <3>2, <4>1, HoldingCounts, FS_AddElement
        <5> QED BY <1>1, <1>2, <2>1, <2>6, <4>1, <5>1, HoldingCounts DEF SlotInv, SlotsExact
      <4>2. CASE v # u
        BY <1>1, <1>2, <2>1, <2>6, <3>2, <4>2 DEF SlotInv, SlotsExact
      <4> QED BY <4>1, <4>2
    <3> QED BY <3>1, <3>3 DEF SlotInv, SlotsExact
  <2> QED BY <2>2, <2>5, <2>6
<1> QED BY <1>3, <1>4

(* Closing a writer gives the slot back, and only the first time.          *)
LEMMA ClosingReleases ==
  ASSUME Realtime = TRUE, CutInv, SlotInv, NEW c \in Conns, NEW label \in {"closed", "cut"}, CloseWriter(c, label),
         hist'.lost = hist.lost
  PROVE  SlotInv'
<1> DEFINE u == cn[c].user
           gives == cn[c].counted /\ ~cn[c].released
<1>1. cn[c] \in ConnStates /\ slots \in [Users -> Nat] /\ hist \in [lost : [Users -> Nat], changes : Nat]
  BY DEF CutInv, TypeOK
<1>2. Releases(c) <=> gives
  BY DEF Releases, Hooked
<1>3. gives => u \in Users /\ c \in Holding(u)
  BY DEF SlotInv, Slotted, Holding
<1>4. gives => slots[u] > 0
  <2> SUFFICES ASSUME gives PROVE slots[u] > 0
    OBVIOUS
  <2>1. Holding(u) # {} /\ IsFiniteSet(Holding(u)) /\ Cardinality(Holding(u)) \in Nat /\ u \in Users
    BY <1>3, HoldingCounts
  <2>2. Cardinality(Holding(u)) # 0
    BY <2>1, FS_EmptySet
  <2> QED BY <1>1, <2>1, <2>2 DEF SlotInv, SlotsExact
<1>5. slots' = IF gives THEN [slots EXCEPT ![u] = @ - 1] ELSE slots
  BY <1>2, <1>4 DEF CloseWriter
<1>6. /\ \A o \in Conns \ {c} : cn'[o] = cn[o]
      /\ \/ cn'[c].at = "closed" /\ ~cn'[c].counted
         \/ /\ cn'[c].at = "cut" /\ cn'[c].counted = cn[c].counted /\ cn'[c].user = u
            /\ cn'[c].released = cn[c].counted
  <2>1. CASE label = "closed"
    BY <2>1, ClosedIsState DEF CloseWriter, CutInv, TypeOK
  <2>2. CASE label = "cut"
    <3>1. cn'[c] = [cn[c] EXCEPT !.at = "cut", !.released = Hooked(c)] /\ \A o \in Conns \ {c} : cn'[o] = cn[o]
      BY <2>2 DEF CloseWriter, CutInv, TypeOK
    <3>2. Hooked(c) = cn[c].counted
      BY <1>1 DEF Hooked, ConnStates
    <3> QED BY <1>1, <3>1, <3>2 DEF ConnStates
  <2> QED BY <2>1, <2>2
<1>7. \A o \in Conns : Slotted(o)'
  BY <1>6 DEF SlotInv, Slotted
<1>8. ASSUME NEW v \in Users
      PROVE  /\ gives /\ v = u => Holding(v)' = Holding(v) \ {c}
             /\ ~gives \/ v # u => Holding(v)' = Holding(v)
  <2>1. CASE gives
    BY <1>6, <2>1 DEF SlotInv, Slotted, Holding
  <2>2. CASE ~gives
    BY <1>6, <2>2 DEF SlotInv, Slotted, Holding
  <2> QED BY <2>1, <2>2
<1>9. ASSUME NEW v \in Users
      PROVE  slots'[v] = Cardinality(Holding(v)') + hist'.lost[v]
  <2>1. slots[v] = Cardinality(Holding(v)) + hist.lost[v] /\ Cardinality(Holding(v)) \in Nat
    BY HoldingCounts DEF SlotInv, SlotsExact
  <2>2. CASE gives /\ v = u
    <3>1. Cardinality(Holding(v)') = Cardinality(Holding(v)) - 1
      BY <1>3, <1>8, <2>2, HoldingCounts, FS_RemoveElement
    <3>2. slots'[v] = slots[v] - 1
      BY <1>1, <1>5, <2>2
    <3> QED BY <1>1, <2>1, <3>1, <3>2
  <2>3. CASE ~(gives /\ v = u)
    <3>1. Holding(v)' = Holding(v) /\ slots'[v] = slots[v]
      BY <1>1, <1>5, <1>8, <2>3
    <3> QED BY <2>1, <3>1
  <2> QED BY <2>2, <2>3
<1> QED BY <1>7, <1>9 DEF SlotInv, SlotsExact

(* The other steps of a connection keep what it holds.                     *)
LEMMA ConnectionKeepsSlots ==
  ASSUME Realtime = TRUE, CutInv, SlotInv, NEW c \in Conns, Connection(c)
  PROVE  SlotInv'
<1>0. TypeOK /\ \A o \in Conns : cn[o] \in ConnStates
  BY DEF CutInv, TypeOK
<1>1. ASSUME NEW u \in Users, NEW via \in {"pipe", "link", "hook"}, Dial(c, u, via)
      PROVE  SlotInv'
  <2>1. ~cn[c].counted
    BY <1>1 DEF Dial, At, SlotInv, Slotted
  <2>2. ~cn'[c].counted /\ ~cn'[c].released /\ \A o \in Conns \ {c} : cn'[o] = cn[o]
    BY <1>0, <1>1 DEF Dial, New, TypeOK
  <2>3. \A o \in Conns : SameHold(o)
    BY <2>1, <2>2 DEF SameHold, SlotInv, Slotted
  <2> QED BY <1>1, <2>3, HoldersStay DEF Dial
<1>2. CASE GetLimiter(c)
  <2>1. ~cn[c].counted /\ (Goto(c, "open") \/ Refuse(c)) /\ slots' = slots /\ hist' = hist
    BY <1>2 DEF GetLimiter, At, SlotInv, Slotted
  <2>2. Alone(c) /\ cn'[c].at # "check" /\ ~cn'[c].counted
    BY <1>0, <2>1, GotoMoves, RefuseCloses DEF Held
  <2>3. \A o \in Conns : SameHold(o)
    BY <2>1, <2>2 DEF Alone, SameHold, SlotInv, Slotted
  <2> QED BY <2>1, <2>3, HoldersStay
<1>3. CASE LoadManager(c)
  <2> DEFINE m == manager[cn[c].user]
             at == IF m = None THEN "store" ELSE "link"
  <2>1. cn[c].at = "load" /\ slots' = slots /\ hist' = hist
    BY <1>3 DEF LoadManager, At
  <2>2. cn'[c] = [cn[c] EXCEPT !.lm = m, !.at = at] /\ \A o \in Conns \ {c} : cn'[o] = cn[o]
    BY <1>0, <1>3 DEF LoadManager, TypeOK
  <2>3. /\ cn'[c].at \in {"store", "link"} /\ cn'[c].user = cn[c].user
        /\ cn'[c].counted = cn[c].counted /\ cn'[c].released = cn[c].released
    BY <1>0, <2>2 DEF ConnStates
  <2>4. \A o \in Conns : SameHold(o)
    BY <2>1, <2>2, <2>3 DEF SameHold, SlotInv, Slotted
  <2> QED BY <2>1, <2>4, HoldersStay
<1>4. CASE StoreManager(c)
  <2>1. cn[c].at = "store" /\ slots' = slots /\ hist' = hist
    BY <1>4 DEF StoreManager, At
  <2>2. cn'[c] = [cn[c] EXCEPT !.lm = c, !.at = "link"]
    BY <1>4 DEF StoreManager
  <2>3. ASSUME NEW o \in Conns, o # c
        PROVE  /\ cn'[o].at = cn[o].at /\ cn'[o].user = cn[o].user
               /\ cn'[o].counted = cn[o].counted /\ cn'[o].released = cn[o].released
    BY <1>0, <1>4, <2>3 DEF StoreManager, ConnStates
  <2>4. /\ cn'[c].at = "link" /\ cn'[c].user = cn[c].user
        /\ cn'[c].counted = cn[c].counted /\ cn'[c].released = cn[c].released
    BY <1>0, <2>2 DEF ConnStates
  <2>5. \A o \in Conns : SameHold(o)
    BY <2>1, <2>3, <2>4 DEF SameHold, SlotInv, Slotted
  <2> QED BY <2>1, <2>5, HoldersStay
<1>5. CASE AddLink(c) \/ routedDispatch(c)
  <2>1. PICK label \in Held : Goto(c, label) /\ cn[c].at \in {"link"} \cup Held /\ slots' = slots /\ hist' = hist
    BY <1>5 DEF AddLink, routedDispatch, At, Held
  <2>2. /\ Alone(c) /\ cn'[c].at = label /\ cn'[c].user = cn[c].user
        /\ cn'[c].counted = cn[c].counted /\ cn'[c].released = cn[c].released
    BY <1>0, <2>1, GotoMoves
  <2>3. \A o \in Conns : SameHold(o)
    BY <2>1, <2>2 DEF Alone, SameHold, SlotInv, Slotted, Held
  <2> QED BY <2>1, <2>3, HoldersStay
<1>6. CASE Close(c)
  <2>1. PICK label \in {"closed", "cut"} : CloseWriter(c, label)
    BY <1>6 DEF Close
  <2> QED BY <1>6, <2>1, ClosingReleases DEF Close
<1>7. CASE Fatal(c)
  <2>1. \A o \in Conns : SameHold(o)
    BY <1>7 DEF Fatal, SameHold, SlotInv, Slotted
  <2> QED BY <1>7, <2>1, HoldersStay DEF Fatal
<1> QED BY <1>1, <1>2, <1>3, <1>4, <1>5, <1>6, <1>7, CheckCounts DEF Connection

(* So do those of the monitor, but for the links it closes.                *)
LEMMA MonitorKeepsSlots ==
  ASSUME Realtime = TRUE, CutInv, SlotInv, Monitor
  PROVE  SlotInv'
<1>1. \A o \in Conns : cn[o] \in ConnStates
  BY DEF CutInv, TypeOK
<1>2. ASSUME NEW u \in Users, DelUsers(u)
      PROVE  SlotInv'
  <2>1. ASSUME NEW o \in Conns
        PROVE  /\ cn'[o].at = cn[o].at /\ cn'[o].user = cn[o].user
               /\ cn'[o].counted = cn[o].counted /\ cn'[o].released = cn[o].released
    BY <1>1, <1>2 DEF DelUsers, ConnStates
  <2>2. \A o \in Conns : SameHold(o)
    BY <2>1 DEF SameHold, SlotInv, Slotted
  <2>3. slots' = slots /\ hist'.lost = hist.lost
    BY <1>2 DEF DelUsers, CutInv, TypeOK
  <2> QED BY <2>2, <2>3, HoldersStay
<1>3. ASSUME NEW u \in Users, AddUsers(u)
      PROVE  SlotInv'
  <2>1. \A o \in Conns : SameHold(o)
    BY <1>3 DEF AddUsers, SameHold, SlotInv, Slotted
  <2>2. slots' = slots /\ hist'.lost = hist.lost
    BY <1>3 DEF AddUsers, CutInv, TypeOK
  <2> QED BY <2>1, <2>2, HoldersStay
<1>4. ASSUME NEW c \in Conns, CloseAll(c)
      PROVE  SlotInv'
  BY <1>4, ClosingReleases DEF CloseAll
<1>5. CASE DelLinks \/ DelManager \/ UpdateUser \/ DeleteLimiter
  <2>1. cn' = cn /\ slots' = slots /\ hist' = hist
    BY <1>5 DEF DelLinks, DelManager, UpdateUser, DeleteLimiter
  <2>2. \A o \in Conns : SameHold(o)
    BY <2>1 DEF SameHold, SlotInv, Slotted
  <2> QED BY <2>1, <2>2, HoldersStay
<1> QED BY <1>2, <1>3, <1>4, <1>5 DEF Monitor

(* In realtime mode a user's count is that of the admitted TCP connections *)
(* not yet closed and of those counted and refused: the hook of each       *)
(* writer gives its slot back once.                                        *)
THEOREM SlotsAreExact ==
  ASSUME Realtime = TRUE
  PROVE  Spec => []SlotsExact
<1>1. ASSUME CutInv, SlotInv, [Next]_vars
      PROVE  SlotInv'
  <2>1. CASE UNCHANGED vars
    <3>1. \A o \in Conns : SameHold(o)
      BY <1>1, <2>1 DEF vars, SameHold, SlotInv, Slotted
    <3> QED BY <1>1, <2>1, <3>1, HoldersStay DEF vars
  <2>2. CASE Next
    BY <1>1, <2>2, ConnectionKeepsSlots, MonitorKeepsSlots DEF Next
  <2> QED BY <1>1, <2>1, <2>2
<1>2. SlotInv => SlotsExact
  BY DEF SlotInv
<1>3. Spec => []SlotInv
  BY <1>1, InitSlots, RemovalAccounted, PTL DEF Spec
<1> QED
  BY <1>2, <1>3, PTL

=============================================================================

----------------------- MODULE ControllerTasksProofs ------------------------
(***************************************************************************)
(* Proofs about the periodic tasks of a controller, for any order of the   *)
(* tasks, any number of timers and any number of interval changes: that    *)
(* one chain of timers drives a task whose interval is fixed, and that a   *)
(* task that the owner has closed is stopped for good, with one straggling *)
(* execution at most.                                                      *)
(*                                                                         *)
(* The owner takes every task through four stages: not started, starting,  *)
(* up and closed.  TaskInv says what a task and its chains may be at in    *)
(* each of them, ThreadInv where a goroutine may be and which mutex it     *)
(* holds there.                                                            *)
(***************************************************************************)
EXTENDS ControllerTasks, FiniteSetTheorems, TLAPS

\* How far the owner at o = pc[Owner] is with task t.
Stage(o, t) ==
  CASE o.at = "start" -> IF Index(t) < Index(o.on) THEN "up" ELSE "not"
    [] o.at \in {"check", "wait", "exec"} ->
         IF Index(t) < Index(o.on) THEN "up" ELSE IF t = o.on THEN "starting" ELSE "not"
    [] o.at = "close" -> IF Index(t) < Index(o.on) THEN "closed" ELSE "up"
    [] o.at = "closed" -> "closed"
    [] OTHER -> "up"

\* Where the owner may be; it holds a mutex while it is in an Execute of
\* Start(true).
OwnerInv ==
  /\ pc[Owner].at \in {"start", "check", "wait", "exec", "close", "started", "up", "closed", "failed"}
  /\ \A t \in Tasks : lock[t] = Owner <=> pc[Owner].at = "exec" /\ pc[Owner].on = t
  /\ pc[Owner].at = "exec" => pc[Owner].on \in FirstNow

\* A timer's goroutine in its own task ...
InTask(t, c) ==
  /\ pc[<<t, c>>].on = t
  /\ pc[<<t, c>>].at \in {"idle", "armed", "check", "wait", "exec"}
  /\ lock[t] = <<t, c>> <=> pc[<<t, c>>].at = "exec"

\* ... or the monitor's, in its Execute, at another task whose interval has
\* changed; at its own it waits for ever.
Adjusting(t, c) ==
  /\ t = "monitor" /\ lock[t] = <<t, c>>
  /\ pc[<<t, c>>].at \in {"close", "start", "check", "wait", "adjusted"}
  /\ pc[<<t, c>>].on \in Adjusted
  /\ pc[<<t, c>>].on = t => pc[<<t, c>>].at = "close"

ThreadInv ==
  /\ OwnerInv
  /\ \A t \in Tasks, c \in Chains : InTask(t, c) \/ Adjusting(t, c)
  /\ \A t, u \in Tasks, c \in Chains : lock[u] = <<t, c>> => u = t

\* A chain on its way to the execution of its task.
Looking(t, c) == At(<<t, c>>, "check", t) \/ At(<<t, c>>, "wait", t)
IsIdle(t, c) == pc[<<t, c>>].at = "idle"
IsArmed(t, c) == pc[<<t, c>>].at = "armed"

\* A task whose interval is fixed, at each stage.
TaskInv(t) ==
  LET stage == Stage(pc[Owner], t) IN
  /\ stage \in {"not", "starting"} =>
       (running[t] <=> stage = "starting") /\ late[t] = 0 /\ \A c \in Chains : IsIdle(t, c)
  /\ stage = "up" =>
       running[t] /\ late[t] = 0 /\ \A c \in Chains : IsIdle(t, c) <=> c # timer[t]
  /\ stage = "closed" =>
       /\ ~running[t] /\ late[t] <= 1
       /\ \A c \in Chains : ~IsArmed(t, c)
       /\ \A c, d \in Chains : ~IsIdle(t, c) /\ ~IsIdle(t, d) => c = d
       /\ late[t] = 1 => \A c \in Chains : ~Looking(t, c)

\* The types of the variables.
Typed ==
  /\ lock \in [Tasks -> Threads \cup {Free}]
  /\ running \in [Tasks -> BOOLEAN]
  /\ timer \in [Tasks -> Chains \cup {NoChain}]
  /\ pc \in [Threads -> [at : Labels, on : Tasks]]
  /\ adjusts \in 0 .. MaxAdjusts
  /\ late \in [Tasks -> 0 .. LateCap]

\* The inductive invariant of a controller's tasks.
TasksInv == Typed /\ ThreadInv /\ \A t \in Tasks \ Adjusted : TaskInv(t)

-----------------------------------------------------------------------------
(* Threads and the order of the tasks.                                     *)

Place == [at : Labels, on : Tasks]

(* The owner, a timer's goroutine and no thread are told apart.            *)
LEMMA ThreadsApart ==
  /\ Owner \in Threads /\ Owner \notin ChainThreads /\ Free \notin Threads
  /\ \A t \in Tasks, c \in Chains : <<t, c>> \in Threads /\ <<t, c>> # Owner /\ <<t, c>> # Free
  /\ Threads \ {Owner} = Tasks \X Chains
<1>1. \A c \in Chains : c # 0
  BY BoundsOK DEF Chains
<1> QED BY <1>1 DEF Owner, Free, Threads, ChainThreads

(* The places of the tasks in the order in which startTasks starts them.   *)
LEMMA IndexOrder ==
  /\ \A t \in Tasks : Index(t) \in 1 .. Len(TaskOrder)
  /\ \A t, u \in Tasks : Index(t) = Index(u) => t = u
  /\ \A t \in Tasks : HasNext(t) => Following(t) \in Tasks /\ Index(Following(t)) = Index(t) + 1
  /\ \A t \in Tasks : ~HasNext(t) => \A u \in Tasks : Index(u) <= Index(t)
  /\ Head(TaskOrder) \in Tasks /\ Index(Head(TaskOrder)) = 1
<1>0. /\ TaskOrder \in Seq(Tasks) /\ Len(TaskOrder) \in Nat \ {0}
      /\ DOMAIN TaskOrder = 1 .. Len(TaskOrder) /\ Tasks = { TaskOrder[i] : i \in 1 .. Len(TaskOrder) }
  <2>1. TaskOrder \in Seq(Tasks) /\ Len(TaskOrder) > 0
    BY TaskOrderOK
  <2>2. Tasks = { TaskOrder[i] : i \in DOMAIN TaskOrder }
    BY DEF Tasks, ToSet
  <2>3. Len(TaskOrder) \in Nat /\ DOMAIN TaskOrder = 1 .. Len(TaskOrder)
    BY <2>1
  <2> QED BY <2>1, <2>2, <2>3
<1>1. \A i, j \in 1 .. Len(TaskOrder) : TaskOrder[i] = TaskOrder[j] => i = j
  BY <1>0, TaskOrderOK DEF IsInjective
<1>2. \A t \in Tasks : Index(t) \in 1 .. Len(TaskOrder) /\ TaskOrder[Index(t)] = t
  BY <1>0 DEF Index
<1>3. \A i \in 1 .. Len(TaskOrder) : TaskOrder[i] \in Tasks /\ Index(TaskOrder[i]) = i
  BY <1>0, <1>1, <1>2
<1>4. \A t \in Tasks : HasNext(t) => Following(t) \in Tasks /\ Index(Following(t)) = Index(t) + 1
  <2>1. ASSUME NEW t \in Tasks, HasNext(t) PROVE Index(t) + 1 \in 1 .. Len(TaskOrder)
    BY <1>0, <1>2, <2>1 DEF HasNext
  <2> QED BY <1>3, <2>1 DEF Following
<1>5. \A t \in Tasks : ~HasNext(t) => \A u \in Tasks : Index(u) <= Index(t)
  BY <1>0, <1>2 DEF HasNext
<1>6. Head(TaskOrder) = TaskOrder[1]
  BY <1>0
<1>7. 1 \in 1 .. Len(TaskOrder)
  BY <1>0
<1> QED BY <1>2, <1>3, <1>4, <1>5, <1>6, <1>7

(* The stages of a task, as the owner gets to it and leaves it ...         *)
LEMMA StagesHere ==
  ASSUME NEW u \in Tasks
  PROVE  /\ Stage([at |-> "start", on |-> u], u) = "not"
         /\ Stage([at |-> "check", on |-> u], u) = "starting"
         /\ Stage([at |-> "wait", on |-> u], u) = "starting"
         /\ Stage([at |-> "exec", on |-> u], u) = "starting"
         /\ Stage([at |-> "close", on |-> u], u) = "up"
         /\ Stage(AfterStart(Owner, u), u) = "up"
         /\ Stage(AfterClose(Owner, u), u) = "closed"
<1>1. Index(u) \in Nat
  BY IndexOrder
<1>2. CASE HasNext(u)
  <2>1. Following(u) \in Tasks /\ Index(Following(u)) = Index(u) + 1
    BY <1>2, IndexOrder
  <2>2. /\ AfterStart(Owner, u) = [at |-> "start", on |-> Following(u)]
        /\ AfterClose(Owner, u) = [at |-> "close", on |-> Following(u)]
    BY <1>2 DEF AfterStart, AfterClose
  <2> QED BY <1>1, <2>1, <2>2 DEF Stage
<1>3. CASE ~HasNext(u)
  <2>1. /\ AfterStart(Owner, u) = [at |-> "started", on |-> u]
        /\ AfterClose(Owner, u) = [at |-> "closed", on |-> u]
    BY <1>3 DEF AfterStart, AfterClose
  <2> QED BY <1>1, <2>1 DEF Stage
<1> QED BY <1>2, <1>3

(* ... and those of the others meanwhile.                                  *)
LEMMA StagesElsewhere ==
  ASSUME NEW t \in Tasks, NEW u \in Tasks, t # u
  PROVE  /\ Stage([at |-> "start", on |-> u], t) = IF Index(t) < Index(u) THEN "up" ELSE "not"
         /\ Stage([at |-> "check", on |-> u], t) = IF Index(t) < Index(u) THEN "up" ELSE "not"
         /\ Stage([at |-> "wait", on |-> u], t) = IF Index(t) < Index(u) THEN "up" ELSE "not"
         /\ Stage([at |-> "exec", on |-> u], t) = IF Index(t) < Index(u) THEN "up" ELSE "not"
         /\ Stage([at |-> "close", on |-> u], t) = IF Index(t) < Index(u) THEN "closed" ELSE "up"
         /\ Stage(AfterStart(Owner, u), t) = IF Index(t) < Index(u) THEN "up" ELSE "not"
         /\ Stage(AfterClose(Owner, u), t) = IF Index(t) < Index(u) THEN "closed" ELSE "up"
<1>1. Index(t) \in Nat /\ Index(u) \in Nat /\ Index(t) # Index(u)
  BY IndexOrder
<1>2. CASE HasNext(u)
  <2>1. Following(u) \in Tasks /\ Index(Following(u)) = Index(u) + 1
    BY <1>2, IndexOrder
  <2>2. /\ AfterStart(Owner, u) = [at |-> "start", on |-> Following(u)]
        /\ AfterClose(Owner, u) = [at |-> "close", on |-> Following(u)]
    BY <1>2 DEF AfterStart, AfterClose
  <2> QED BY <1>1, <2>1, <2>2 DEF Stage
<1>3. CASE ~HasNext(u)
  <2>1. Index(t) <= Index(u)
    BY <1>3, IndexOrder
  <2>2. /\ AfterStart(Owner, u) = [at |-> "started", on |-> u]
        /\ AfterClose(Owner, u) = [at |-> "closed", on |-> u]
    BY <1>3 DEF AfterStart, AfterClose
  <2> QED BY <1>1, <2>1, <2>2 DEF Stage
<1> QED BY <1>2, <1>3

(* Where a thread is after Start and Close.                                *)
LEMMA AfterPlaces ==
  ASSUME NEW th \in Threads, NEW t \in Tasks
  PROVE  /\ AfterStart(th, t) \in Place /\ AfterClose(th, t) \in Place /\ Return(th, t) \in Place
         /\ th # Owner => AfterStart(th, t) = [at |-> "adjusted", on |-> t]
                          /\ AfterClose(th, t) = [at |-> "start", on |-> t]
         /\ AfterStart(Owner, t).at \in {"start", "started"}
         /\ AfterClose(Owner, t).at \in {"close", "closed"}
         /\ Return(Owner, t) = AfterStart(Owner, t)
         /\ \A c \in Chains : Return(<<t, c>>, t) = [at |-> "idle", on |-> t]
         /\ \A u \in Tasks \ {t}, c \in Chains : Return(<<u, c>>, t) = [at |-> "adjusted", on |-> t]
<1>1. HasNext(t) => Following(t) \in Tasks
  BY IndexOrder
<1>2. \A u \in Tasks, c \in Chains : <<u, c>> # Owner /\ <<u, c>>[1] = u
  BY ThreadsApart
<1>3. /\ AfterStart(th, t) \in Place /\ AfterClose(th, t) \in Place
      /\ th # Owner => AfterStart(th, t) = [at |-> "adjusted", on |-> t]
                       /\ AfterClose(th, t) = [at |-> "start", on |-> t]
      /\ AfterStart(Owner, t).at \in {"start", "started"}
      /\ AfterClose(Owner, t).at \in {"close", "closed"}
  BY <1>1 DEF AfterStart, AfterClose, Place, Labels
<1>4. Return(th, t) \in Place /\ Return(Owner, t) = AfterStart(Owner, t)
  BY <1>3 DEF Return, Place, Labels
<1>5. \A c \in Chains : Return(<<t, c>>, t) = [at |-> "idle", on |-> t]
  BY <1>2 DEF Return
<1>6. \A u \in Tasks \ {t}, c \in Chains : Return(<<u, c>>, t) = [at |-> "adjusted", on |-> t]
  BY <1>2 DEF Return, AfterStart
<1> QED BY <1>3, <1>4, <1>5, <1>6

-----------------------------------------------------------------------------
(* What a step leaves alone.                                               *)

\* Thread th goes to p, and no other thread moves.
Moved(th, p) ==
  /\ pc' \in [Threads -> Place] /\ pc'[th] = p
  /\ \A x \in Threads \ {th} : pc'[x] = pc[x]

\* A step that has to do with another task.
TaskKept(t) ==
  /\ running'[t] = running[t] /\ timer'[t] = timer[t] /\ late'[t] = late[t]
  /\ Stage(pc'[Owner], t) = Stage(pc[Owner], t)
  /\ \A c \in Chains : /\ IsIdle(t, c)' <=> IsIdle(t, c)
                       /\ IsArmed(t, c)' <=> IsArmed(t, c)
                       /\ Looking(t, c)' <=> Looking(t, c)

(* Such a step keeps what is said of the task.                             *)
LEMMA KeptTask ==
  ASSUME NEW t \in Tasks, TaskInv(t), TaskKept(t)
  PROVE  TaskInv(t)'
<1> DEFINE s == Stage(pc[Owner], t)
           r == Stage(pc'[Owner], t)
<1>1. s = r
  BY DEF TaskKept
<1> HIDE DEF s, r
<1>2. \A c \in Chains : /\ IsIdle(t, c)' <=> IsIdle(t, c)
                        /\ IsArmed(t, c)' <=> IsArmed(t, c)
                        /\ Looking(t, c)' <=> Looking(t, c)
  BY DEF TaskKept
<1>3. running'[t] = running[t] /\ timer'[t] = timer[t] /\ late'[t] = late[t]
  BY DEF TaskKept
<1>4. s \in {"not", "starting"} =>
        (running[t] <=> s = "starting") /\ late[t] = 0 /\ \A c \in Chains : IsIdle(t, c)
  BY DEF TaskInv, s
<1>5. s = "up" => running[t] /\ late[t] = 0 /\ \A c \in Chains : IsIdle(t, c) <=> c # timer[t]
  BY DEF TaskInv, s
<1>6. s = "closed" =>
        /\ ~running[t] /\ late[t] <= 1
        /\ \A c \in Chains : ~IsArmed(t, c)
        /\ \A c, d \in Chains : ~IsIdle(t, c) /\ ~IsIdle(t, d) => c = d
        /\ late[t] = 1 => \A c \in Chains : ~Looking(t, c)
  BY DEF TaskInv, s
<1>7. r \in {"not", "starting"} =>
        (running'[t] <=> r = "starting") /\ late'[t] = 0 /\ \A c \in Chains : IsIdle(t, c)'
  BY <1>1, <1>2, <1>3, <1>4
<1>8. r = "up" => running'[t] /\ late'[t] = 0 /\ \A c \in Chains : IsIdle(t, c)' <=> c # timer'[t]
  BY <1>1, <1>2, <1>3, <1>5
<1>9. r = "closed" =>
        /\ ~running'[t] /\ late'[t] <= 1
        /\ \A c \in Chains : ~IsArmed(t, c)'
        /\ \A c, d \in Chains : ~IsIdle(t, c)' /\ ~IsIdle(t, d)' => c = d
        /\ late'[t] = 1 => \A c \in Chains : ~Looking(t, c)'
  BY <1>1, <1>2, <1>3, <1>6
<1> QED BY <1>7, <1>8, <1>9 DEF TaskInv, r

-----------------------------------------------------------------------------
(* A timer's goroutine in its own task.                                    *)

(* A thread moves alone.                                                   *)
LEMMA MoveAlone ==
  ASSUME Typed, NEW th \in Threads, NEW p \in Place, pc' = [pc EXCEPT ![th] = p]
  PROVE  Moved(th, p)
BY DEF Typed, Moved, Place

\* The steps of checkedExecute in the goroutine of chain c.
OwnMove(t, c, l) ==
  LET th == <<t, c>>
  IN /\ Moved(th, [at |-> l, on |-> t]) /\ UNCHANGED <<running, adjusts>>
     /\ \/ At(th, "armed", t) /\ l = "check" /\ UNCHANGED <<lock, timer, late>>
        \/ At(th, "check", t) /\ running[t] /\ l = "wait" /\ UNCHANGED <<lock, timer, late>>
        \/ At(th, "check", t) /\ ~running[t] /\ l = "idle" /\ UNCHANGED <<lock, timer, late>>
        \/ /\ At(th, "wait", t) /\ lock[t] = Free /\ l = "exec" /\ lock' = [lock EXCEPT ![t] = th]
           /\ late' = [late EXCEPT ![t] = IF ClosedByOwner(t) /\ @ < LateCap THEN @ + 1 ELSE @]
           /\ UNCHANGED timer
        \/ /\ lock[t] = th /\ running[t] /\ l = "armed" /\ lock' = [lock EXCEPT ![t] = Free]
           /\ timer' = [timer EXCEPT ![t] = c] /\ UNCHANGED late
        \/ /\ lock[t] = th /\ ~running[t] /\ l = "idle" /\ lock' = [lock EXCEPT ![t] = Free]
           /\ UNCHANGED <<timer, late>>

(* At its own task a timer's goroutine does nothing else; the monitor that *)
(* would close its own task waits for its own mutex.                       *)
LEMMA OwnMoves ==
  ASSUME Typed, ThreadInv, NEW t \in Tasks, NEW c \in Chains, Step(<<t, c>>, t)
  PROVE  \E l \in Labels : OwnMove(t, c, l)
<1> DEFINE th == <<t, c>>
<1>1. th \in Threads /\ th # Owner /\ th # Free /\ th \in {t} \X Chains /\ First(th, t)
  BY ThreadsApart DEF First
<1>2. InTask(t, c) \/ Adjusting(t, c)
  BY DEF ThreadInv
<1>3. /\ Return(th, t) = [at |-> "idle", on |-> t]
      /\ \A l \in Labels : [at |-> l, on |-> t] \in Place
  <2>1. \A d \in Chains : Return(<<t, d>>, t) = [at |-> "idle", on |-> t]
    BY <1>1, AfterPlaces
  <2> QED BY <2>1 DEF Place
<1>4. ~At(th, "start", t) /\ (lock[t] = Free => ~At(th, "close", t))
  BY <1>1, <1>2 DEF InTask, Adjusting, At
<1> HIDE DEF th
<1>5. CASE Fire(t, c)
  <2>1. At(th, "armed", t) /\ pc' = [pc EXCEPT ![th] = [at |-> "check", on |-> t]]
        /\ UNCHANGED <<lock, running, timer, adjusts, late>>
    BY <1>5 DEF Fire, Goto, th
  <2>2. Moved(th, [at |-> "check", on |-> t])
    BY <1>1, <1>3, <2>1, MoveAlone DEF Labels
  <2> QED BY <2>1, <2>2 DEF OwnMove, At, th, Labels
<1>6. CASE hasClosed(th, t)
  <2>1. At(th, "check", t) /\ UNCHANGED <<lock, running, timer, adjusts, late>>
    BY <1>6 DEF hasClosed
  <2>2. /\ running[t] => pc' = [pc EXCEPT ![th] = [at |-> "wait", on |-> t]]
        /\ ~running[t] => pc' = [pc EXCEPT ![th] = [at |-> "idle", on |-> t]]
    BY <1>3, <1>6 DEF hasClosed
  <2>3. /\ running[t] => Moved(th, [at |-> "wait", on |-> t])
        /\ ~running[t] => Moved(th, [at |-> "idle", on |-> t])
    BY <1>1, <1>3, <2>2, MoveAlone DEF Labels
  <2> QED BY <2>1, <2>3 DEF OwnMove, At, th, Labels
<1>7. CASE Lock(th, t)
  <2>1. /\ At(th, "wait", t) /\ lock[t] = Free /\ lock' = [lock EXCEPT ![t] = th]
        /\ pc' = [pc EXCEPT ![th] = [at |-> "exec", on |-> t]]
        /\ late' = [late EXCEPT ![t] = IF ClosedByOwner(t) /\ @ < LateCap THEN @ + 1 ELSE @]
        /\ UNCHANGED <<running, timer, adjusts>>
    BY <1>7 DEF Lock, Goto
  <2>2. Moved(th, [at |-> "exec", on |-> t])
    BY <1>1, <1>3, <2>1, MoveAlone DEF Labels
  <2> QED BY <2>1, <2>2 DEF OwnMove, At, th, Labels
<1>8. CASE Executed(th, t)
  <2>1. /\ InExecute(th, t) /\ lock' = [lock EXCEPT ![t] = Free] /\ UNCHANGED <<running, adjusts, late>>
    BY <1>8 DEF Executed
  <2>2. CASE running[t]
    <3>1. PICK d \in Chains :
            /\ IF th = <<t, d>> THEN TRUE ELSE th \notin {t} \X Chains /\ At(<<t, d>>, "idle", t)
            /\ timer' = [timer EXCEPT ![t] = d]
            /\ pc' = [pc EXCEPT ![th] = Return(th, t), ![<<t, d>>] = [at |-> "armed", on |-> t]]
      BY <1>8, <2>2 DEF Executed, AfterFunc
    <3>2. d = c /\ th = <<t, d>>
      BY <1>1, <3>1 DEF th
    <3>3. pc' = [pc EXCEPT ![th] = [at |-> "armed", on |-> t]]
      BY <3>1, <3>2 DEF Typed
    <3>4. Moved(th, [at |-> "armed", on |-> t])
      BY <1>1, <1>3, <3>3, MoveAlone DEF Labels
    <3> QED BY <2>1, <2>2, <3>1, <3>2, <3>4 DEF OwnMove, InExecute, th, Labels
  <2>3. CASE ~running[t]
    <3>1. pc' = [pc EXCEPT ![th] = [at |-> "idle", on |-> t]] /\ UNCHANGED timer
      BY <1>3, <1>8, <2>3 DEF Executed
    <3>2. Moved(th, [at |-> "idle", on |-> t])
      BY <1>1, <1>3, <3>1, MoveAlone DEF Labels
    <3> QED BY <2>1, <2>3, <3>1, <3>2 DEF OwnMove, InExecute, th, Labels
  <2> QED BY <2>2, <2>3
<1>9. ~Start(th, t) /\ ~Close(th, t) /\ ~Arm(th, t)
  BY <1>1, <1>4 DEF Start, Close, Arm
<1>10. Step(th, t)
  BY DEF th
<1>11. \A d \in Chains : th = <<t, d>> => d = c
  BY DEF th
<1> QED BY <1>5, <1>6, <1>7, <1>8, <1>9, <1>10, <1>11 DEF Step

(* The invariant over such a step.                                         *)
LEMMA OwnMoveKeeps ==
  ASSUME TasksInv, NEW t \in Tasks, NEW c \in Chains, NEW l \in Labels, OwnMove(t, c, l)
  PROVE  TasksInv'
<1> DEFINE th == <<t, c>>
<1>1. Typed /\ ThreadInv
  BY DEF TasksInv
<1>2. Moved(th, [at |-> l, on |-> t]) /\ running' = running /\ adjusts' = adjusts
  BY DEF OwnMove
<1>3. /\ pc' \in [Threads -> Place] /\ pc'[th] = [at |-> l, on |-> t] /\ pc'[Owner] = pc[Owner]
      /\ th \in Threads /\ th # Owner /\ th # Free
      /\ \A u \in Tasks, d \in Chains : u # t \/ d # c => pc'[<<u, d>>] = pc[<<u, d>>]
      /\ \A u \in Tasks, d \in Chains : <<u, d>> = th => u = t /\ d = c
  BY <1>2, ThreadsApart DEF Moved
<1>4. \/ lock' = lock
      \/ lock[t] = Free /\ lock' = [lock EXCEPT ![t] = th]
      \/ lock[t] = th /\ lock' = [lock EXCEPT ![t] = Free]
  BY DEF OwnMove
<1>5. lock' \in [Tasks -> Threads \cup {Free}] /\ \A u \in Tasks \ {t} : lock'[u] = lock[u]
  BY <1>1, <1>3, <1>4 DEF Typed
<1>6. late' \in [Tasks -> 0 .. LateCap] /\ \A u \in Tasks \ {t} : late'[u] = late[u]
  BY <1>1 DEF Typed, LateCap, OwnMove
<1>7. timer' \in [Tasks -> Chains \cup {NoChain}] /\ \A u \in Tasks \ {t} : timer'[u] = timer[u]
  BY <1>1 DEF Typed, OwnMove
<1> HIDE DEF th
<1>8. Typed'
  <2>1. running' \in [Tasks -> BOOLEAN] /\ adjusts' \in 0 .. MaxAdjusts
    BY <1>1, <1>2 DEF Typed
  <2> QED BY <1>3, <1>5, <1>6, <1>7, <2>1 DEF Typed, Place
<1>9. l \in {"idle", "armed", "check", "wait", "exec"} /\ (l = "exec" <=> lock'[t] = th)
  <2>1. At(th, "armed", t) \/ At(th, "check", t) => lock[t] # th
    <3>1. InTask(t, c) \/ Adjusting(t, c)
      BY <1>1 DEF ThreadInv
    <3> QED BY <3>1 DEF InTask, Adjusting, At, th
  <2> QED BY <1>1, <1>3, <2>1 DEF OwnMove, Typed, th
<1>10. ThreadInv'
  <2>1. OwnerInv'
    <3>1. \A u \in Tasks : lock'[u] = Owner <=> lock[u] = Owner
      BY <1>1, <1>3, <1>4, <1>5, ThreadsApart DEF Typed
    <3> QED BY <1>1, <1>3, <3>1 DEF ThreadInv, OwnerInv
  <2>2. ASSUME NEW u \in Tasks, NEW d \in Chains
        PROVE  (InTask(u, d) \/ Adjusting(u, d))' /\ \A v \in Tasks : lock'[v] = <<u, d>> => v = u
    <3>1. CASE <<u, d>> = th
      <4>1. InTask(u, d)'
        BY <1>3, <1>9, <3>1 DEF InTask
      <4>2. \A v \in Tasks : lock'[v] = <<u, d>> => v = u
        BY <1>1, <1>3, <1>5, <3>1 DEF ThreadInv
      <4> QED BY <4>1, <4>2
    <3>2. CASE <<u, d>> # th
      <4>1. pc'[<<u, d>>] = pc[<<u, d>>] /\ <<u, d>> # Free
        BY <1>3, <3>2, ThreadsApart DEF th
      <4>2. InTask(u, d) \/ Adjusting(u, d)
        BY <1>1 DEF ThreadInv
      <4>3. lock'[u] = <<u, d>> <=> lock[u] = <<u, d>>
        BY <1>1, <1>3, <1>4, <3>2, <4>1 DEF Typed
      <4>4. \A v \in Tasks : lock'[v] = <<u, d>> => lock[v] = <<u, d>>
        BY <1>1, <1>3, <1>4, <3>2, <4>1 DEF Typed
      <4> QED BY <1>1, <4>1, <4>2, <4>3, <4>4 DEF ThreadInv, InTask, Adjusting
    <3> QED BY <3>1, <3>2
  <2> QED BY <2>1, <2>2 DEF ThreadInv
<1>11. ASSUME NEW u \in Tasks \ Adjusted, u # t
       PROVE  TaskInv(u)'
  <2>1. TaskKept(u)
    <3>1. \A d \in Chains : pc'[<<u, d>>] = pc[<<u, d>>]
      BY <1>3, <1>11
    <3>2. /\ running'[u] = running[u] /\ timer'[u] = timer[u] /\ late'[u] = late[u]
          /\ Stage(pc'[Owner], u) = Stage(pc[Owner], u)
      BY <1>2, <1>3, <1>6, <1>7, <1>11
    <3> QED BY <3>1, <3>2 DEF TaskKept, IsIdle, IsArmed, Looking, At
  <2> QED BY <2>1, KeptTask DEF TasksInv
<1>12. ASSUME t \notin Adjusted
       PROVE  TaskInv(t)'
  <2> DEFINE s == Stage(pc[Owner], t)
  <2>0. s = Stage(pc'[Owner], t) /\ running'[t] = running[t]
    BY <1>2, <1>3
  <2>1. ClosedByOwner(t) <=> s = "closed"
    BY DEF ClosedByOwner, Stage
  <2>2. s \in {"not", "starting", "up", "closed"}
    BY DEF s, Stage
  <2> HIDE DEF s
  <2>3. s \in {"not", "starting"} => IsIdle(t, c)
    BY <1>12 DEF TasksInv, TaskInv, s
  <2>4. s = "up" => running[t] /\ late[t] = 0 /\ \A d \in Chains : IsIdle(t, d) <=> d # timer[t]
    BY <1>12 DEF TasksInv, TaskInv, s
  <2>5. s = "closed" =>
          /\ ~running[t] /\ late[t] <= 1
          /\ \A d \in Chains : ~IsArmed(t, d)
          /\ \A d, e \in Chains : ~IsIdle(t, d) /\ ~IsIdle(t, e) => d = e
          /\ late[t] = 1 => \A d \in Chains : ~Looking(t, d)
    BY <1>12 DEF TasksInv, TaskInv, s
  <2>6. ~IsIdle(t, c)
    <3>1. InTask(t, c) \/ Adjusting(t, c)
      BY <1>1 DEF ThreadInv
    <3> QED BY <3>1 DEF OwnMove, IsIdle, InTask, Adjusting, At
  <2>7. \A d \in Chains \ {c} :
          /\ IsIdle(t, d)' <=> IsIdle(t, d)
          /\ IsArmed(t, d)' <=> IsArmed(t, d)
          /\ Looking(t, d)' <=> Looking(t, d)
    BY <1>3 DEF IsIdle, IsArmed, Looking, At
  <2>8. late[t] \in Nat
    BY <1>1 DEF Typed, LateCap
  <2>9. /\ IsIdle(t, c)' <=> l = "idle"
        /\ IsArmed(t, c)' <=> l = "armed"
        /\ Looking(t, c)' <=> l \in {"check", "wait"}
    BY <1>3 DEF IsIdle, IsArmed, Looking, At, th
  <2>10. CASE s = "up"
    <3>1. c = timer[t]
      BY <2>4, <2>6, <2>10
    <3>2. timer'[t] = timer[t] /\ late'[t] = late[t] /\ l # "idle"
      BY <1>1, <2>1, <2>4, <2>10, <3>1 DEF Typed, OwnMove
    <3>3. running'[t] /\ late'[t] = 0 /\ \A d \in Chains : IsIdle(t, d)' <=> d # timer'[t]
      BY <2>0, <2>4, <2>7, <2>9, <2>10, <3>1, <3>2
    <3> QED BY <2>0, <2>10, <3>3 DEF TaskInv
  <2>11. CASE s = "closed"
    <3>1. ~running[t] /\ ~IsArmed(t, c)
      BY <2>5, <2>11
    <3>2. /\ l \notin {"armed", "check"}
          /\ late'[t] = late[t] \/ (Looking(t, c) /\ l = "exec" /\ late'[t] = late[t] + 1)
          /\ l = "wait" => Looking(t, c)
      BY <1>1, <2>1, <2>5, <2>8, <2>11, <3>1 DEF OwnMove, IsArmed, Typed, LateCap, Looking, At
    <3>3. \A d \in Chains \ {c} : IsIdle(t, d)' /\ ~Looking(t, d)'
      BY <2>5, <2>6, <2>7, <2>11 DEF IsIdle, Looking, At
    <3>4. late'[t] <= 1 /\ (late'[t] = 1 => \A d \in Chains : ~Looking(t, d)')
      BY <2>5, <2>8, <2>9, <2>11, <3>2, <3>3
    <3>5. \A d \in Chains : ~IsArmed(t, d)'
      BY <2>5, <2>7, <2>9, <2>11, <3>2
    <3>6. \A d, e \in Chains : ~IsIdle(t, d)' /\ ~IsIdle(t, e)' => d = e
      BY <3>3
    <3> QED BY <2>0, <2>11, <3>1, <3>4, <3>5, <3>6 DEF TaskInv
  <2> QED BY <2>2, <2>3, <2>6, <2>10, <2>11
<1> QED BY <1>8, <1>10, <1>11, <1>12 DEF TasksInv

-----------------------------------------------------------------------------
(* The owner at a task, or a monitor's goroutine at the task of another.   *)

Visitor(th, u) == th = Owner \/ \E c \in Chains : th = <<"monitor", c>> /\ u # "monitor"

\* The timers of the task are left alone; or a first one is armed; or the
\* one that the task points to is stopped, unless it has fired.
Steady(u) == timer' = timer /\ \A c \in Chains : pc'[<<u, c>>] = pc[<<u, c>>]

Arms(u) ==
  \E c \in Chains :
    /\ At(<<u, c>>, "idle", u) /\ pc'[<<u, c>>] = [at |-> "armed", on |-> u]
    /\ \A d \in Chains \ {c} : pc'[<<u, d>>] = pc[<<u, d>>]
    /\ timer' = [timer EXCEPT ![u] = c]

Stops(u) ==
  /\ timer' = [timer EXCEPT ![u] = NoChain]
  /\ \A c \in Chains :
       pc'[<<u, c>>] = IF c = timer[u] /\ IsArmed(u, c) THEN [at |-> "idle", on |-> u] ELSE pc[<<u, c>>]

\* The steps of Start and Close in a thread that calls them.
Visit(th, u, p) ==
  /\ pc' \in [Threads -> Place] /\ pc'[th] = p
  /\ \A x \in Threads \ {th} : x \notin {u} \X Chains => pc'[x] = pc[x]
  /\ adjusts' = adjusts
  /\ \/ /\ At(th, "start", u) /\ running' = [running EXCEPT ![u] = TRUE] /\ Steady(u)
        /\ p = IF running[u] THEN AfterStart(th, u) ELSE [at |-> "check", on |-> u]
        /\ UNCHANGED <<lock, late>>
     \/ /\ At(th, "check", u) /\ Steady(u) /\ UNCHANGED <<running, lock, late>>
        /\ p = IF running[u] THEN [at |-> "wait", on |-> u] ELSE AfterStart(th, u)
     \/ /\ At(th, "wait", u) /\ th = Owner /\ u \in FirstNow
        /\ lock[u] = Free /\ lock' = [lock EXCEPT ![u] = Owner]
        /\ p = [at |-> "exec", on |-> u] /\ Steady(u) /\ UNCHANGED <<running, late>>
     \/ /\ \/ At(th, "wait", u) /\ UNCHANGED lock
           \/ th = Owner /\ At(th, "exec", u) /\ lock[u] = Owner /\ lock' = [lock EXCEPT ![u] = Free]
        /\ p = AfterStart(th, u) /\ UNCHANGED <<running, late>>
        /\ \/ running[u] /\ Arms(u)
           \/ ~running[u] /\ Steady(u)
     \/ /\ At(th, "close", u) /\ running' = [running EXCEPT ![u] = FALSE] /\ Stops(u)
        /\ p = AfterClose(th, u) /\ UNCHANGED <<lock, late>>

(* AfterFunc in a starter arms the timer of an idle chain.                 *)
LEMMA StarterArms ==
  ASSUME Typed, NEW u \in Tasks, NEW th \in Threads, th \notin {u} \X Chains, NEW p \in Place,
         AfterFunc(th, u, p)
  PROVE  /\ pc' \in [Threads -> Place] /\ pc'[th] = p /\ Arms(u)
         /\ \A x \in Threads \ {th} : x \notin {u} \X Chains => pc'[x] = pc[x]
<1>1. PICK c \in Chains :
        /\ th # <<u, c>> /\ At(<<u, c>>, "idle", u)
        /\ timer' = [timer EXCEPT ![u] = c]
        /\ pc' = [pc EXCEPT ![th] = p, ![<<u, c>>] = [at |-> "armed", on |-> u]]
  <2>1. \A c \in Chains : th # <<u, c>>
    OBVIOUS
  <2> QED BY <2>1 DEF AfterFunc
<1>2. \A d \in Chains : <<u, d>> \in Threads /\ <<u, d>> # th
  BY ThreadsApart
<1>3. [at |-> "armed", on |-> u] \in Place
  BY DEF Place, Labels
<1>4. /\ pc' \in [Threads -> Place] /\ pc'[th] = p
      /\ pc'[<<u, c>>] = [at |-> "armed", on |-> u]
      /\ \A x \in Threads : x # th /\ x # <<u, c>> => pc'[x] = pc[x]
  BY <1>1, <1>2, <1>3 DEF Typed, Place
<1>5. \A d \in Chains \ {c} : pc'[<<u, d>>] = pc[<<u, d>>]
  BY <1>2, <1>4
<1>6. Arms(u)
  BY <1>1, <1>4, <1>5 DEF Arms
<1> QED BY <1>1, <1>4, <1>6

(* A thread that moves alone leaves the timers of the task alone.          *)
LEMMA VisitorAlone ==
  ASSUME Typed, NEW u \in Tasks, NEW th \in Threads, th \notin {u} \X Chains, NEW p \in Place,
         pc' = [pc EXCEPT ![th] = p], timer' = timer
  PROVE  /\ pc' \in [Threads -> Place] /\ pc'[th] = p /\ Steady(u)
         /\ \A x \in Threads \ {th} : x \notin {u} \X Chains => pc'[x] = pc[x]
<1>1. \A d \in Chains : <<u, d>> \in Threads /\ <<u, d>> # th
  BY ThreadsApart
<1>2. /\ pc' \in [Threads -> Place] /\ pc'[th] = p
      /\ \A x \in Threads \ {th} : pc'[x] = pc[x]
  BY DEF Typed, Place
<1> QED BY <1>1, <1>2 DEF Steady

(* A visitor of a task does nothing else there.                            *)
LEMMA VisitorMoves ==
  ASSUME Typed, ThreadInv, NEW u \in Tasks, NEW th \in Threads, Visitor(th, u), Step(th, u)
  PROVE  \E p \in Place : Visit(th, u, p)
<1>1. th \notin {u} \X Chains /\ \A c \in Chains : th # <<u, c>>
  BY ThreadsApart DEF Visitor
<1>2. First(th, u) => th = Owner /\ u \in FirstNow
  BY <1>1 DEF First
<1>3. /\ Return(th, u) = AfterStart(th, u) /\ AfterStart(th, u) \in Place /\ AfterClose(th, u) \in Place
      /\ \A l \in Labels : [at |-> l, on |-> u] \in Place
  <2>1. th = Owner \/ \E c \in Chains : th = <<"monitor", c>> /\ th[1] # u
    BY DEF Visitor
  <2>2. Return(th, u) = AfterStart(th, u)
    BY <2>1 DEF Return
  <2> QED BY <2>2, AfterPlaces DEF Place
<1>4. CASE Start(th, u)
  <2> DEFINE p == IF running[u] THEN AfterStart(th, u) ELSE [at |-> "check", on |-> u]
  <2>1. /\ At(th, "start", u) /\ running' = [running EXCEPT ![u] = TRUE]
        /\ pc' = [pc EXCEPT ![th] = p] /\ UNCHANGED <<lock, timer, adjusts, late>>
    BY <1>4 DEF Start
  <2>2. p \in Place
    BY <1>3 DEF Labels
  <2>3. p = IF running[u] THEN AfterStart(th, u) ELSE [at |-> "check", on |-> u]
    OBVIOUS
  <2> HIDE DEF p
  <2>4. /\ pc' \in [Threads -> Place] /\ pc'[th] = p /\ Steady(u)
        /\ \A x \in Threads \ {th} : x \notin {u} \X Chains => pc'[x] = pc[x]
    BY <1>1, <2>1, <2>2, VisitorAlone
  <2>5. Visit(th, u, p)
    BY <2>1, <2>3, <2>4 DEF Visit
  <2> QED BY <2>2, <2>5
<1>5. CASE hasClosed(th, u)
  <2> DEFINE p == IF running[u] THEN [at |-> "wait", on |-> u] ELSE AfterStart(th, u)
  <2>1. /\ At(th, "check", u) /\ pc' = [pc EXCEPT ![th] = p]
        /\ UNCHANGED <<lock, running, timer, adjusts, late>>
    BY <1>3, <1>5 DEF hasClosed
  <2>2. p \in Place
    BY <1>3 DEF Labels
  <2>3. p = IF running[u] THEN [at |-> "wait", on |-> u] ELSE AfterStart(th, u)
    OBVIOUS
  <2> HIDE DEF p
  <2>4. /\ pc' \in [Threads -> Place] /\ pc'[th] = p /\ Steady(u)
        /\ \A x \in Threads \ {th} : x \notin {u} \X Chains => pc'[x] = pc[x]
    BY <1>1, <2>1, <2>2, VisitorAlone
  <2>5. Visit(th, u, p)
    BY <2>1, <2>3, <2>4 DEF Visit
  <2> QED BY <2>2, <2>5
<1>6. CASE Lock(th, u)
  <2> DEFINE p == [at |-> "exec", on |-> u]
  <2>1. /\ At(th, "wait", u) /\ lock[u] = Free /\ th = Owner /\ u \in FirstNow /\ lock' = [lock EXCEPT ![u] = Owner]
        /\ pc' = [pc EXCEPT ![th] = p] /\ UNCHANGED <<running, timer, adjusts>>
    BY <1>2, <1>6 DEF Lock, Goto
  <2>2. UNCHANGED late
    <3>1. ~ClosedByOwner(u)
      BY <2>1 DEF ClosedByOwner, At
    <3>2. late' = [late EXCEPT ![u] = late[u]]
      BY <1>6, <3>1 DEF Lock
    <3> QED BY <3>2 DEF Typed
  <2>3. p \in Place
    BY <1>3 DEF Labels
  <2>4. p = [at |-> "exec", on |-> u]
    OBVIOUS
  <2> HIDE DEF p
  <2>5. /\ pc' \in [Threads -> Place] /\ pc'[th] = p /\ Steady(u)
        /\ \A x \in Threads \ {th} : x \notin {u} \X Chains => pc'[x] = pc[x]
    BY <1>1, <2>1, <2>3, VisitorAlone
  <2>6. Visit(th, u, p)
    BY <2>1, <2>2, <2>4, <2>5 DEF Visit
  <2> QED BY <2>3, <2>6
<1>7. CASE Arm(th, u) \/ Executed(th, u)
  <2> DEFINE p == AfterStart(th, u)
  <2>1. /\ \/ At(th, "wait", u) /\ UNCHANGED lock
           \/ th = Owner /\ At(th, "exec", u) /\ lock[u] = Owner /\ lock' = [lock EXCEPT ![u] = Free]
        /\ UNCHANGED <<running, adjusts, late>>
    <3>1. CASE Arm(th, u)
      BY <3>1 DEF Arm
    <3>2. CASE Executed(th, u)
      <4>1. lock[u] = th /\ lock' = [lock EXCEPT ![u] = Free] /\ UNCHANGED <<running, adjusts, late>>
        BY <3>2 DEF Executed, InExecute
      <4>2. th = Owner
        BY <4>1, TaskSetsOK DEF Visitor, ThreadInv
      <4>3. At(th, "exec", u)
        <5>1. pc[Owner].at = "exec" /\ pc[Owner].on = u
          BY <4>1, <4>2 DEF ThreadInv, OwnerInv
        <5>2. pc[Owner] \in Place
          BY ThreadsApart DEF Typed, Place
        <5> QED BY <4>2, <5>1, <5>2 DEF At, Place
      <4> QED BY <4>1, <4>2, <4>3
    <3> QED BY <1>7, <3>1, <3>2
  <2>2. IF running[u] THEN AfterFunc(th, u, p) ELSE pc' = [pc EXCEPT ![th] = p] /\ timer' = timer
    BY <1>3, <1>7 DEF Arm, Executed
  <2>3. p \in Place /\ p = AfterStart(th, u)
    BY <1>3
  <2> HIDE DEF p
  <2>4. /\ pc' \in [Threads -> Place] /\ pc'[th] = p
        /\ \A x \in Threads \ {th} : x \notin {u} \X Chains => pc'[x] = pc[x]
        /\ (running[u] /\ Arms(u)) \/ (~running[u] /\ Steady(u))
    BY <1>1, <2>2, <2>3, VisitorAlone, StarterArms
  <2>5. Visit(th, u, p)
    BY <2>1, <2>3, <2>4 DEF Visit
  <2> QED BY <2>3, <2>5
<1>8. CASE Close(th, u)
  <2> DEFINE p == AfterClose(th, u)
             stopped == [at |-> "idle", on |-> u]
  <2>1. /\ At(th, "close", u) /\ running' = [running EXCEPT ![u] = FALSE]
        /\ timer' = [timer EXCEPT ![u] = NoChain] /\ UNCHANGED <<lock, adjusts, late>>
        /\ pc' = [x \in Threads |-> IF x = th THEN p
                    ELSE IF x = <<u, timer[u]>> /\ pc[x].at = "armed" THEN stopped ELSE pc[x]]
    BY <1>8 DEF Close
  <2>2. p \in Place /\ p = AfterClose(th, u) /\ stopped \in Place /\ stopped = [at |-> "idle", on |-> u]
    BY <1>3 DEF Labels
  <2> HIDE DEF p, stopped
  <2>3. /\ pc' \in [Threads -> Place] /\ pc'[th] = p
        /\ \A x \in Threads \ {th} :
             pc'[x] = IF x = <<u, timer[u]>> /\ pc[x].at = "armed" THEN stopped ELSE pc[x]
    BY <2>1, <2>2 DEF Typed, Place
  <2>4. \A x \in Threads \ {th} : x \notin {u} \X Chains => pc'[x] = pc[x]
    <3>1. ASSUME NEW x \in Threads \ {th}, x \notin {u} \X Chains, x = <<u, timer[u]>>, pc[x].at = "armed"
          PROVE  FALSE
      <4>1. timer[u] \in Chains \cup {NoChain}
        BY DEF Typed
      <4>2. timer[u] = NoChain
        BY <3>1, <4>1
      <4>3. <<u, 0>> \notin Tasks \X Chains
        BY BoundsOK DEF Chains
      <4>4. x = Owner
        BY <3>1, <4>2, <4>3, ThreadsApart DEF NoChain
      <4> QED BY <3>1, <4>4 DEF ThreadInv, OwnerInv
    <3> QED BY <2>3, <3>1
  <2>5. Stops(u)
    <3>1. \A c \in Chains : <<u, c>> \in Threads \ {th} /\ (<<u, c>> = <<u, timer[u]>> <=> c = timer[u])
      BY <1>1, ThreadsApart
    <3> QED BY <2>1, <2>2, <2>3, <3>1 DEF Stops, IsArmed
  <2>6. Visit(th, u, p)
    BY <2>1, <2>2, <2>3, <2>4, <2>5 DEF Visit
  <2> QED BY <2>2, <2>6
<1> QED BY <1>1, <1>4, <1>5, <1>6, <1>7, <1>8 DEF Step

(* Where the owner goes on, and where a goroutine that adjusts does.       *)
LEMMA VisitorPlaces ==
  ASSUME NEW th \in Threads, NEW u \in Tasks
  PROVE  /\ AfterStart(Owner, u).at \in {"start", "started"}
         /\ AfterClose(Owner, u).at \in {"close", "closed"}
         /\ th # Owner => AfterStart(th, u) = [at |-> "adjusted", on |-> u]
         /\ th # Owner => AfterClose(th, u) = [at |-> "start", on |-> u]
BY AfterPlaces

\* Who may be at a task: the owner, or a goroutine that adjusts its interval.
MayVisit(th, u) ==
  \/ th = Owner
  \/ \E c \in Chains : th = <<"monitor", c>> /\ u # "monitor" /\ Adjusting("monitor", c)

(* The types over a visit.                                                 *)
LEMMA VisitTyped ==
  ASSUME Typed, NEW u \in Tasks, NEW th \in Threads, NEW p \in Place, Visit(th, u, p)
  PROVE  Typed'
<1>1. lock' \in [Tasks -> Threads \cup {Free}]
  BY ThreadsApart DEF Typed, Visit
<1>2. running' \in [Tasks -> BOOLEAN]
  BY DEF Typed, Visit
<1>3. timer' \in [Tasks -> Chains \cup {NoChain}]
  BY DEF Typed, Visit, Steady, Arms, Stops
<1>4. late' = late /\ adjusts' = adjusts /\ pc' \in [Threads -> Place]
  BY DEF Visit
<1> QED BY <1>1, <1>2, <1>3, <1>4 DEF Typed, Place

(* A visit changes the mutex of no other task, and only the owner changes  *)
(* one at all.                                                             *)
LEMMA VisitLocks ==
  ASSUME Typed, ThreadInv, NEW u \in Tasks, NEW th \in Threads, NEW p \in Place, Visit(th, u, p)
  PROVE  /\ \A v \in Tasks \ {u} : lock'[v] = lock[v] /\ running'[v] = running[v] /\ timer'[v] = timer[v]
         /\ \A v \in Tasks, x \in Threads \ {Owner} : lock'[v] = x <=> lock[v] = x
         /\ th # Owner => lock' = lock
         /\ th = Owner => /\ lock'[u] = Owner <=> p.at = "exec"
                          /\ p.at = "exec" => p.on = u
<1>1. Owner # Free /\ \A x \in Threads \ {Owner} : x # Owner /\ x # Free
  BY ThreadsApart
<1>2. \A v \in Tasks \ {u} : lock'[v] = lock[v] /\ running'[v] = running[v] /\ timer'[v] = timer[v]
  BY DEF Typed, Visit, Steady, Arms, Stops
<1>3. \A v \in Tasks, x \in Threads \ {Owner} : lock'[v] = x <=> lock[v] = x
  BY <1>1 DEF Typed, Visit
<1>4. th # Owner => lock' = lock
  BY DEF Visit
<1> HIDE <1>2, <1>3
<1>5. th = Owner => (lock'[u] = Owner <=> p.at = "exec") /\ (p.at = "exec" => p.on = u)
  <2> SUFFICES ASSUME th = Owner PROVE (lock'[u] = Owner <=> p.at = "exec") /\ (p.at = "exec" => p.on = u)
    OBVIOUS
  <2>1. AfterStart(Owner, u).at # "exec" /\ AfterClose(Owner, u).at # "exec"
    <3>1. AfterStart(Owner, u).at \in {"start", "started"} /\ AfterClose(Owner, u).at \in {"close", "closed"}
      BY VisitorPlaces
    <3> QED BY <3>1
  <2>2. \/ lock' = lock /\ pc[Owner].at # "exec" /\ p.at # "exec"
        \/ lock' = [lock EXCEPT ![u] = Owner] /\ p = [at |-> "exec", on |-> u]
        \/ lock' = [lock EXCEPT ![u] = Free] /\ p.at # "exec"
    BY <2>1 DEF Visit, At
  <2>3. pc[Owner].at # "exec" => lock[u] # Owner
    BY DEF ThreadInv, OwnerInv
  <2> QED BY <1>1, <2>2, <2>3 DEF Typed
<1> QED BY <1>2, <1>3, <1>4, <1>5

(* The goroutines' places over a visit.                                    *)
LEMMA VisitThreads ==
  ASSUME Typed, ThreadInv, NEW u \in Tasks, NEW th \in Threads, MayVisit(th, u),
         NEW p \in Place, Visit(th, u, p)
  PROVE  ThreadInv'
<1>1. \A v \in Tasks, x \in Threads \ {Owner} : lock'[v] = x <=> lock[v] = x
  BY VisitLocks
<1>2. \A v \in Tasks \ {u} : lock'[v] = lock[v]
  BY VisitLocks
<1>3. pc'[th] = p /\ \A x \in Threads \ {th} : x \notin {u} \X Chains => pc'[x] = pc[x]
  BY DEF Visit
<1>4. OwnerInv'
  <2>1. CASE th = Owner
    <3>1. p.at \in {"start", "check", "wait", "exec", "close", "started", "closed"}
      <4>1. AfterStart(Owner, u).at \in {"start", "started"} /\ AfterClose(Owner, u).at \in {"close", "closed"}
        BY VisitorPlaces
      <4> QED BY <2>1, <4>1 DEF Visit
    <3>2. lock'[u] = Owner <=> p.at = "exec" /\ p.on = u
      BY <2>1, VisitLocks
    <3>3. \A v \in Tasks \ {u} : lock'[v] = Owner <=> p.at = "exec" /\ p.on = v
      <4>1. pc[Owner].on = u
        BY <2>1 DEF Visit, At
      <4>2. p.at = "exec" => p.on = u
        BY <2>1, VisitLocks
      <4> QED BY <1>2, <4>1, <4>2 DEF ThreadInv, OwnerInv
    <3>4. p.at = "exec" => p.on \in FirstNow
      <4>1. AfterStart(Owner, u).at \in {"start", "started"} /\ AfterClose(Owner, u).at \in {"close", "closed"}
        BY VisitorPlaces
      <4> QED BY <2>1, <4>1 DEF Visit
    <3> QED BY <1>3, <2>1, <3>1, <3>2, <3>3, <3>4 DEF OwnerInv
  <2>2. CASE th # Owner
    <3>1. lock' = lock
      BY <2>2, VisitLocks
    <3>2. pc'[Owner] = pc[Owner]
      BY <1>3, <2>2, ThreadsApart
    <3> QED BY <3>1, <3>2 DEF ThreadInv, OwnerInv
  <2> QED BY <2>1, <2>2
<1>5. ASSUME NEW t \in Tasks, NEW c \in Chains
      PROVE  (InTask(t, c) \/ Adjusting(t, c))' /\ \A v \in Tasks : lock'[v] = <<t, c>> => v = t
  <2> DEFINE x == <<t, c>>
  <2>1. x \in Threads \ {Owner}
    BY ThreadsApart
  <2>2. \A v \in Tasks : lock'[v] = x <=> lock[v] = x
    BY <1>1, <2>1
  <2>3. \A v \in Tasks : lock'[v] = <<t, c>> => v = t
    BY <2>2 DEF ThreadInv
  <2>4. InTask(t, c) \/ Adjusting(t, c)
    BY DEF ThreadInv
  <2>5. CASE x = th
    <3>1. t = "monitor" /\ u # "monitor" /\ Adjusting(t, c)
      BY <2>1, <2>5 DEF MayVisit
    <3>2. pc[x].on = u /\ pc[x].on \in Adjusted
      BY <2>1, <2>5, <3>1 DEF Visit, At, Adjusting
    <3>3. p.on = u /\ p.at \in {"start", "check", "wait", "adjusted"}
      <4>1. /\ AfterStart(th, u) = [at |-> "adjusted", on |-> u]
            /\ AfterClose(th, u) = [at |-> "start", on |-> u]
        BY <2>1, <2>5, VisitorPlaces
      <4> QED BY <2>1, <2>5, <4>1 DEF Visit
    <3> QED BY <1>3, <2>2, <2>3, <2>5, <3>1, <3>2, <3>3 DEF Adjusting
  <2>6. CASE x # th /\ t # u
    <3>1. pc'[x] = pc[x]
      BY <1>3, <2>1, <2>6
    <3> QED BY <2>2, <2>3, <2>4, <3>1 DEF InTask, Adjusting
  <2>7. CASE x # th /\ t = u
    <3>1. \/ pc'[x] = pc[x]
          \/ At(x, "idle", t) /\ pc'[x] = [at |-> "armed", on |-> t]
          \/ IsArmed(t, c) /\ pc'[x] = [at |-> "idle", on |-> t]
      BY <2>7 DEF Visit, Steady, Arms, Stops
    <3> QED BY <2>2, <2>3, <2>4, <3>1 DEF InTask, Adjusting, At, IsArmed
  <2> QED BY <2>5, <2>6, <2>7
<1> QED BY <1>4, <1>5 DEF ThreadInv

(* Another task does not notice the visit.                                 *)
LEMMA VisitSpares ==
  ASSUME Typed, ThreadInv, NEW u \in Tasks, NEW th \in Threads, MayVisit(th, u),
         NEW p \in Place, Visit(th, u, p), NEW t \in Tasks, t # u
  PROVE  TaskKept(t)
<1>1. running'[t] = running[t] /\ timer'[t] = timer[t] /\ late'[t] = late[t]
  BY VisitLocks DEF Visit
<1>2. pc'[th] = p /\ \A x \in Threads \ {th} : x \notin {u} \X Chains => pc'[x] = pc[x]
  BY DEF Visit
<1>3. Stage(pc'[Owner], t) = Stage(pc[Owner], t)
  <2>1. CASE th = Owner
    <3>1. /\ Stage([at |-> "start", on |-> u], t) = IF Index(t) < Index(u) THEN "up" ELSE "not"
          /\ Stage([at |-> "check", on |-> u], t) = IF Index(t) < Index(u) THEN "up" ELSE "not"
          /\ Stage([at |-> "wait", on |-> u], t) = IF Index(t) < Index(u) THEN "up" ELSE "not"
          /\ Stage([at |-> "exec", on |-> u], t) = IF Index(t) < Index(u) THEN "up" ELSE "not"
          /\ Stage([at |-> "close", on |-> u], t) = IF Index(t) < Index(u) THEN "closed" ELSE "up"
          /\ Stage(AfterStart(Owner, u), t) = IF Index(t) < Index(u) THEN "up" ELSE "not"
          /\ Stage(AfterClose(Owner, u), t) = IF Index(t) < Index(u) THEN "closed" ELSE "up"
      BY StagesElsewhere
    <3> QED BY <1>2, <2>1, <3>1 DEF Visit, At
  <2>2. CASE th # Owner
    BY <1>2, <2>2, ThreadsApart
  <2> QED BY <2>1, <2>2
<1>4. ASSUME NEW c \in Chains
      PROVE  /\ IsIdle(t, c)' <=> IsIdle(t, c)
             /\ IsArmed(t, c)' <=> IsArmed(t, c)
             /\ Looking(t, c)' <=> Looking(t, c)
  <2>1. <<t, c>> \in Threads /\ <<t, c>> # Owner
    BY ThreadsApart
  <2>2. CASE <<t, c>> # th
    BY <1>2, <2>1, <2>2 DEF IsIdle, IsArmed, Looking, At
  <2>3. CASE <<t, c>> = th
    <3>1. pc[th].on = u /\ pc[th].at \in {"start", "check", "wait", "close"}
      BY <2>1, <2>3 DEF Visit, At
    <3>2. p.on = u /\ p.at \in {"start", "check", "wait", "adjusted"}
      <4>1. /\ AfterStart(th, u) = [at |-> "adjusted", on |-> u]
            /\ AfterClose(th, u) = [at |-> "start", on |-> u]
        BY <2>1, <2>3, VisitorPlaces
      <4> QED BY <2>1, <2>3, <4>1 DEF Visit
    <3> QED BY <1>2, <2>3, <3>1, <3>2 DEF IsIdle, IsArmed, Looking, At
  <2> QED BY <2>2, <2>3
<1> QED BY <1>1, <1>3, <1>4 DEF TaskKept

(* The owner takes a task of a fixed interval to its next stage.           *)
LEMMA OwnerVisit ==
  ASSUME Typed, ThreadInv, NEW u \in Tasks, TaskInv(u), NEW p \in Place, Visit(Owner, u, p)
  PROVE  TaskInv(u)'
<1> DEFINE s == Stage(pc[Owner], u)
           r == Stage(p, u)
<1>1. pc'[Owner] = p /\ late' = late
  BY DEF Visit
<1>3. /\ Stage([at |-> "start", on |-> u], u) = "not"
      /\ Stage([at |-> "check", on |-> u], u) = "starting"
      /\ Stage([at |-> "wait", on |-> u], u) = "starting"
      /\ Stage([at |-> "exec", on |-> u], u) = "starting"
      /\ Stage([at |-> "close", on |-> u], u) = "up"
      /\ Stage(AfterStart(Owner, u), u) = "up"
      /\ Stage(AfterClose(Owner, u), u) = "closed"
  BY StagesHere
<1>4. s \in {"not", "starting"} =>
        (running[u] <=> s = "starting") /\ late[u] = 0 /\ \A c \in Chains : IsIdle(u, c)
  BY DEF TaskInv
<1>5. s = "up" => running[u] /\ late[u] = 0 /\ \A c \in Chains : IsIdle(u, c) <=> c # timer[u]
  BY DEF TaskInv
<1> HIDE DEF s, r
<1>6. CASE s = "not"
  <2>1. /\ ~running[u] /\ running' = [running EXCEPT ![u] = TRUE] /\ Steady(u) /\ r = "starting"
    BY <1>3, <1>4, <1>6 DEF Visit, At, s, r
  <2>2. running'[u] /\ late'[u] = 0 /\ \A c \in Chains : IsIdle(u, c)'
    BY <1>1, <1>4, <1>6, <2>1 DEF Typed, Steady, IsIdle
  <2> QED BY <1>1, <2>1, <2>2 DEF TaskInv, r
<1>7. CASE s = "starting"
  <2>1. running' = running /\ running[u] /\ ((r = "starting" /\ Steady(u)) \/ (r = "up" /\ Arms(u)))
    BY <1>3, <1>4, <1>7 DEF Visit, At, s, r
  <2>2. CASE r = "starting" /\ Steady(u)
    <3>1. running'[u] /\ late'[u] = 0 /\ \A c \in Chains : IsIdle(u, c)'
      BY <1>1, <1>4, <1>7, <2>1, <2>2 DEF Steady, IsIdle
    <3> QED BY <1>1, <2>2, <3>1 DEF TaskInv, r
  <2>3. CASE r = "up" /\ Arms(u)
    <3>1. running'[u] /\ late'[u] = 0 /\ \A c \in Chains : IsIdle(u, c)' <=> c # timer'[u]
      <4>1. PICK c \in Chains :
              /\ pc'[<<u, c>>] = [at |-> "armed", on |-> u]
              /\ \A d \in Chains \ {c} : pc'[<<u, d>>] = pc[<<u, d>>]
              /\ timer' = [timer EXCEPT ![u] = c]
        BY <2>3 DEF Arms
      <4>2. timer'[u] = c
        BY <4>1 DEF Typed
      <4> QED BY <1>1, <1>4, <1>7, <2>1, <4>1, <4>2 DEF IsIdle
    <3> QED BY <1>1, <2>3, <3>1 DEF TaskInv, r
  <2> QED BY <2>1, <2>2, <2>3
<1>8. CASE s = "up"
  <2>1. running' = [running EXCEPT ![u] = FALSE] /\ Stops(u) /\ r = "closed"
    BY <1>3, <1>8 DEF Visit, At, s, r
  <2>2. ~running'[u] /\ late'[u] = 0
    BY <1>1, <1>5, <1>8, <2>1 DEF Typed
  <2>3. \A c \in Chains :
          pc'[<<u, c>>] = IF c = timer[u] /\ IsArmed(u, c) THEN [at |-> "idle", on |-> u] ELSE pc[<<u, c>>]
    BY <2>1 DEF Stops
  <2>4. \A c \in Chains : ~IsArmed(u, c)' /\ (~IsIdle(u, c)' => c = timer[u])
    BY <1>5, <1>8, <2>3 DEF IsArmed, IsIdle
  <2> QED BY <1>1, <2>1, <2>2, <2>4 DEF TaskInv, r
<1>9. s \in {"not", "starting", "up"}
  BY <1>3 DEF Visit, At, s
<1> QED BY <1>6, <1>7, <1>8, <1>9

(* The invariant over a visit.                                             *)
LEMMA VisitKeeps ==
  ASSUME TasksInv, NEW u \in Tasks, NEW th \in Threads, MayVisit(th, u), Step(th, u)
  PROVE  TasksInv'
<1>1. Typed /\ ThreadInv /\ Visitor(th, u)
  BY DEF TasksInv, MayVisit, Visitor
<1>2. PICK p \in Place : Visit(th, u, p)
  BY <1>1, VisitorMoves
<1>3. Typed' /\ ThreadInv'
  BY <1>1, <1>2, VisitTyped, VisitThreads
<1>4. ASSUME NEW t \in Tasks \ Adjusted
      PROVE  TaskInv(t)'
  <2>1. CASE t # u
    BY <1>1, <1>2, <2>1, VisitSpares, KeptTask DEF TasksInv
  <2>2. CASE t = u
    <3>1. th = Owner
      <4>1. ASSUME NEW c \in Chains, th = <<"monitor", c>>, Adjusting("monitor", c)
            PROVE  u \in Adjusted
        BY <1>2, <4>1, ThreadsApart, TaskSetsOK DEF Visit, At, Adjusting
      <4> QED BY <2>2, <4>1 DEF MayVisit
    <3> QED BY <1>1, <1>2, <2>2, <3>1, OwnerVisit DEF TasksInv
  <2> QED BY <2>1, <2>2
<1> QED BY <1>3, <1>4 DEF TasksInv

-----------------------------------------------------------------------------
(* The controller.                                                         *)

(* startTasks begins with the first task, and no timer exists.             *)
LEMMA InitTasks == Init => TasksInv
<1> SUFFICES ASSUME Init PROVE TasksInv
  OBVIOUS
<1> DEFINE first == [at |-> "start", on |-> Head(TaskOrder)]
<1>1. /\ Owner \in Threads /\ \A t \in Tasks, c \in Chains :
             <<t, c>> \in Threads /\ <<t, c>> # Owner /\ <<t, c>> # Free /\ <<t, c>>[1] = t
      /\ Owner # Free /\ Threads \ {Owner} = Tasks \X Chains
  BY ThreadsApart
<1>2. first \in Place /\ Head(TaskOrder) \in Tasks
  BY IndexOrder DEF Place, Labels
<1>3. pc = [th \in Threads |-> IF th = Owner THEN first ELSE [at |-> "idle", on |-> th[1]]]
  BY DEF Init
<1>4. \A th \in Threads \ {Owner} : th[1] \in Tasks
  BY <1>1
<1>5. \A th \in Threads \ {Owner} : [at |-> "idle", on |-> th[1]] \in Place
  BY <1>4 DEF Place, Labels
<1>6. /\ pc[Owner] = first
      /\ \A t \in Tasks, c \in Chains : pc[<<t, c>>] = [at |-> "idle", on |-> t]
  BY <1>1, <1>3
<1>7. first.at = "start" /\ first.on = Head(TaskOrder)
  OBVIOUS
<1>8. \A t \in Tasks : Stage(first, t) = "not"
  <2>1. \A t \in Tasks : ~(Index(t) < Index(Head(TaskOrder)))
    BY IndexOrder
  <2> QED BY <1>7, <2>1 DEF Stage
<1> HIDE DEF first
<1>9. Typed
  <2>1. pc \in [Threads -> Place]
    BY <1>2, <1>3, <1>5
  <2> QED BY <2>1, BoundsOK DEF Init, Typed, Place, LateCap
<1>10. ThreadInv
  BY <1>1, <1>6, <1>7 DEF Init, ThreadInv, OwnerInv, InTask
<1>11. \A t \in Tasks : TaskInv(t)
  <2> SUFFICES ASSUME NEW t \in Tasks PROVE TaskInv(t)
    OBVIOUS
  <2>1. running[t] = FALSE /\ late[t] = 0
    BY DEF Init
  <2>2. \A c \in Chains : IsIdle(t, c)
    <3> TAKE c \in Chains
    <3>1. pc[<<t, c>>] = [at |-> "idle", on |-> t]
      BY <1>6
    <3>2. pc[<<t, c>>].at = "idle"
      BY <3>1
    <3> QED BY <3>2 DEF IsIdle
  <2>3. Stage(pc[Owner], t) = "not"
    BY <1>6, <1>8
  <2> QED BY <2>1, <2>2, <2>3 DEF TaskInv
<1> QED BY <1>9, <1>10, <1>11 DEF TasksInv

(* startTasks returns, or Controller.Close begins: no task notices.        *)
LEMMA OwnerKeeps ==
  ASSUME TasksInv, Started \/ Misconfigured \/ CloseController
  PROVE  TasksInv'
<1>1. Typed /\ ThreadInv /\ OwnerInv
  BY DEF TasksInv, ThreadInv
<1>2. Owner \in Threads /\ pc[Owner].on \in Tasks /\ Head(TaskOrder) \in Tasks
  BY <1>1, ThreadsApart, IndexOrder DEF Typed
<1>3. PICK p \in Place :
        /\ p.at \in {"up", "failed", "close"} /\ pc[Owner].at \in {"started", "up"}
        /\ pc' = [pc EXCEPT ![Owner] = p]
        /\ p.at = "close" => p.on = Head(TaskOrder)
  <2>1. \A l \in Labels, t \in Tasks : [at |-> l, on |-> t] \in Place
    BY DEF Place
  <2> QED BY <1>2, <2>1 DEF Started, Misconfigured, CloseController, Goto, Labels
<1>4. UNCHANGED <<lock, running, timer, adjusts, late>>
  BY DEF Started, Misconfigured, CloseController
<1>5. Moved(Owner, p)
  BY <1>1, <1>2, <1>3, MoveAlone
<1>6. /\ pc' \in [Threads -> Place] /\ pc'[Owner] = p
      /\ \A t \in Tasks, c \in Chains : pc'[<<t, c>>] = pc[<<t, c>>]
  BY <1>5, ThreadsApart DEF Moved
<1>7. Typed'
  BY <1>1, <1>4, <1>6 DEF Typed, Place
<1>8. ThreadInv'
  <2>1. OwnerInv'
    BY <1>1, <1>3, <1>4, <1>6 DEF OwnerInv
  <2> QED BY <1>1, <1>4, <1>6, <2>1 DEF ThreadInv, InTask, Adjusting
<1>9. ASSUME NEW t \in Tasks \ Adjusted
      PROVE  TaskInv(t)'
  <2>1. ~(Index(t) < Index(Head(TaskOrder)))
    BY IndexOrder
  <2>2. Stage(p, t) = "up" /\ Stage(pc[Owner], t) = "up"
    BY <1>3, <2>1 DEF Stage
  <2>3. TaskKept(t)
    BY <1>4, <1>6, <2>2 DEF TaskKept, IsIdle, IsArmed, Looking, At
  <2> QED BY <2>3, KeptTask DEF TasksInv
<1> QED BY <1>7, <1>8, <1>9 DEF TasksInv

(* The monitor's Execute turns to the task whose interval has changed.     *)
LEMMA AdjustKeeps ==
  ASSUME TasksInv, NEW th \in Threads, NEW u \in Tasks, adjustPeriodicIntervals(th, u)
  PROVE  TasksInv'
<1>1. Typed /\ ThreadInv
  BY DEF TasksInv
<1> DEFINE p == [at |-> "close", on |-> u]
<1>2. /\ u \in Adjusted /\ lock["monitor"] = th /\ adjusts < MaxAdjusts /\ adjusts' = adjusts + 1
      /\ pc' = [pc EXCEPT ![th] = p] /\ UNCHANGED <<lock, running, timer, late>>
      /\ At(th, "exec", "monitor") \/ At(th, "adjusted", "monitor")
  BY DEF adjustPeriodicIntervals, Goto
<1>3. "monitor" \in Tasks \ FirstNow
  BY TaskSetsOK
<1>4. th # Owner
  BY <1>1, <1>2, <1>3 DEF ThreadInv, OwnerInv
<1>5. PICK c \in Chains : th = <<"monitor", c>>
  <2>1. PICK t \in Tasks, c \in Chains : th = <<t, c>>
    BY <1>4, ThreadsApart
  <2>2. t = "monitor"
    BY <1>1, <1>2, <1>3, <2>1 DEF ThreadInv
  <2> QED BY <2>1, <2>2
<1>6. pc[th] = [at |-> "exec", on |-> "monitor"]
  <2>1. InTask("monitor", c) \/ Adjusting("monitor", c)
    BY <1>1, <1>3 DEF ThreadInv
  <2> QED BY <1>2, <1>5, <2>1 DEF InTask, Adjusting, At
<1>7. p \in Place /\ p.at = "close" /\ p.on = u
  BY DEF Place, Labels
<1> HIDE DEF p
<1>8. Moved(th, p)
  BY <1>1, <1>2, <1>7, MoveAlone
<1>9. /\ pc' \in [Threads -> Place] /\ pc'[th] = p /\ pc'[Owner] = pc[Owner]
      /\ \A t \in Tasks, d \in Chains : <<t, d>> # th => pc'[<<t, d>>] = pc[<<t, d>>]
  BY <1>4, <1>8, ThreadsApart DEF Moved
<1>10. Typed'
  <2>1. adjusts' \in 0 .. MaxAdjusts
    BY <1>1, <1>2, BoundsOK DEF Typed
  <2> QED BY <1>1, <1>2, <1>9, <2>1 DEF Typed, Place
<1>11. ThreadInv'
  <2>1. OwnerInv'
    BY <1>1, <1>2, <1>9 DEF ThreadInv, OwnerInv
  <2>2. ASSUME NEW t \in Tasks, NEW d \in Chains
        PROVE  (InTask(t, d) \/ Adjusting(t, d))'
    <3>1. CASE <<t, d>> = th
      <4>1. t = "monitor" /\ lock'[t] = <<t, d>> /\ pc'[<<t, d>>] = p
        BY <1>2, <1>5, <1>9, <3>1
      <4> QED BY <1>2, <1>7, <4>1 DEF Adjusting
    <3>2. CASE <<t, d>> # th
      <4>1. InTask(t, d) \/ Adjusting(t, d)
        BY <1>1 DEF ThreadInv
      <4> QED BY <1>2, <1>9, <3>2, <4>1 DEF InTask, Adjusting
    <3> QED BY <3>1, <3>2
  <2> QED BY <1>1, <1>2, <2>1, <2>2 DEF ThreadInv
<1>12. ASSUME NEW t \in Tasks \ Adjusted
       PROVE  TaskInv(t)'
  <2>1. ASSUME NEW d \in Chains
        PROVE  /\ IsIdle(t, d)' <=> IsIdle(t, d)
               /\ IsArmed(t, d)' <=> IsArmed(t, d)
               /\ Looking(t, d)' <=> Looking(t, d)
    <3>1. CASE <<t, d>> # th
      BY <1>9, <3>1 DEF IsIdle, IsArmed, Looking, At
    <3>2. CASE <<t, d>> = th
      <4>1. pc[<<t, d>>].at = "exec" /\ pc'[<<t, d>>].at = "close"
        BY <1>6, <1>7, <1>9, <3>2
      <4> QED BY <4>1 DEF IsIdle, IsArmed, Looking, At
    <3> QED BY <3>1, <3>2
  <2>2. TaskKept(t)
    BY <1>2, <1>9, <2>1 DEF TaskKept
  <2> QED BY <2>2, KeptTask DEF TasksInv
<1> QED BY <1>10, <1>11, <1>12 DEF TasksInv

(* A goroutine can be at its own task or visit another's.                  *)
LEMMA StepKeeps ==
  ASSUME TasksInv, NEW th \in Threads, NEW u \in Tasks, Step(th, u)
  PROVE  TasksInv'
<1>1. Typed /\ ThreadInv
  BY DEF TasksInv
<1>2. CASE th = Owner
  BY <1>2, VisitKeeps DEF MayVisit
<1>3. ASSUME NEW t \in Tasks, NEW c \in Chains, th = <<t, c>>, t = u
      PROVE  TasksInv'
  <2>1. \E l \in Labels : OwnMove(t, c, l)
    BY <1>1, <1>3, OwnMoves
  <2> QED BY <2>1, OwnMoveKeeps
<1>4. ASSUME NEW t \in Tasks, NEW c \in Chains, th = <<t, c>>, t # u
      PROVE  TasksInv'
  <2>1. At(th, "start", u) \/ At(th, "check", u) \/ At(th, "wait", u) \/ At(th, "close", u) \/ lock[u] = th
    BY <1>4, ThreadsApart DEF Step, Start, hasClosed, Lock, Arm, Executed, InExecute, Close
  <2>2. lock[u] # th
    BY <1>1, <1>4 DEF ThreadInv
  <2>3. InTask(t, c) \/ Adjusting(t, c)
    BY <1>1 DEF ThreadInv
  <2>4. Adjusting(t, c)
    BY <1>4, <2>1, <2>2, <2>3 DEF InTask, At
  <2>5. MayVisit(th, u)
    BY <1>4, <2>4 DEF MayVisit, Adjusting
  <2> QED BY <2>5, VisitKeeps
<1>5. th = Owner \/ \E t \in Tasks, c \in Chains : th = <<t, c>>
  BY ThreadsApart
<1> QED BY <1>2, <1>3, <1>4, <1>5

(* No interleaving of the owner, the timers and the interval changes       *)
(* leaves the invariant.                                                   *)
THEOREM TasksStaySound == Spec => []TasksInv
<1>1. Init => TasksInv
  BY InitTasks
<1>2. TasksInv /\ [Next]_vars => TasksInv'
  <2> SUFFICES ASSUME TasksInv, [Next]_vars PROVE TasksInv'
    OBVIOUS
  <2>1. ASSUME NEW th \in Threads, NEW u \in Tasks, Step(th, u) PROVE TasksInv'
    BY <2>1, StepKeeps
  <2>2. ASSUME NEW th \in Threads, NEW u \in Tasks, adjustPeriodicIntervals(th, u) PROVE TasksInv'
    BY <2>2, AdjustKeeps
  <2>3. CASE Started \/ Misconfigured \/ CloseController
    BY <2>3, OwnerKeeps
  <2>4. CASE UNCHANGED vars
    BY <2>4 DEF vars, TasksInv, Typed, ThreadInv, OwnerInv, InTask, Adjusting, TaskInv, IsIdle,
                IsArmed, Looking, At
  <2> QED BY <2>1, <2>2, <2>3, <2>4 DEF Next
<1> QED BY <1>1, <1>2, PTL DEF Spec

(* The fields of Task and the threads are as typed, and a mutex is held    *)
(* across steps only by the thread that is inside Execute (task.go:30-50). *)
THEOREM TasksTypes == Spec => []TypeOK
<1>1. TasksInv => TypeOK
  <2> SUFFICES ASSUME TasksInv PROVE TypeOK
    OBVIOUS
  <2>1. Typed /\ ThreadInv
    BY DEF TasksInv
  <2>2. ASSUME NEW t \in Tasks, lock[t] # Free
        PROVE  pc[lock[t]].at \notin {"idle", "armed", "started", "up", "closed", "failed"}
    <3>1. lock[t] \in Threads
      BY <2>1, <2>2 DEF Typed
    <3>2. CASE lock[t] = Owner
      BY <2>1, <3>2 DEF ThreadInv, OwnerInv
    <3>3. CASE lock[t] # Owner
      <4>1. PICK u \in Tasks, c \in Chains : lock[t] = <<u, c>>
        BY <3>1, <3>3, ThreadsApart
      <4>2. u = t /\ (InTask(u, c) \/ Adjusting(u, c))
        BY <2>1, <4>1 DEF ThreadInv
      <4> QED BY <4>1, <4>2 DEF InTask, Adjusting
    <3> QED BY <3>2, <3>3
  <2> QED BY <2>1, <2>2 DEF Typed, TypeOK
<1> QED BY <1>1, TasksStaySound, PTL

(* One chain of timers drives a running task whose interval is fixed       *)
(* (task.go:10), for any number of chains there might be.                  *)
THEOREM OneChainPerTask == Spec => []SingleChain
<1>1. TasksInv => SingleChain
  <2> SUFFICES ASSUME TasksInv, NEW t \in Tasks \ Adjusted, running[t]
               PROVE  Cardinality(Busy(t)) <= 1
    BY DEF SingleChain
  <2>1. Busy(t) \subseteq {timer[t]}
    BY DEF TasksInv, TaskInv, Stage, Busy, IsIdle
  <2>2. Cardinality({timer[t]}) = 1 /\ IsFiniteSet({timer[t]})
    BY FS_Singleton
  <2>3. Cardinality(Busy(t)) <= Cardinality({timer[t]})
    BY <2>1, <2>2, FS_Subset
  <2> QED BY <2>2, <2>3
<1> QED BY <1>1, TasksStaySound, PTL

(* A task of a fixed interval that Controller.Close has closed has no      *)
(* timer, and whoever is on the way to its Execute finds running cleared.  *)
THEOREM ClosedTaskIsStopped == Spec => []StoppedAfterClose
<1>1. TasksInv => StoppedAfterClose
  <2> SUFFICES ASSUME TasksInv, NEW t \in Tasks \ Adjusted, ClosedByOwner(t)
               PROVE  ~running[t] /\ \A c \in Chains : ~At(<<t, c>>, "armed", t)
    BY DEF StoppedAfterClose
  <2>1. Stage(pc[Owner], t) = "closed"
    BY DEF ClosedByOwner, Stage
  <2> QED BY <2>1 DEF TasksInv, TaskInv, IsArmed, At
<1> QED BY <1>1, TasksStaySound, PTL

(* After Close at most one goroutine that had looked at running before it  *)
(* still executes the task, once.                                          *)
THEOREM OneLateExecution == Spec => []OneStragglerAtMost
<1>1. TasksInv => OneStragglerAtMost
  <2> SUFFICES ASSUME TasksInv, NEW t \in Tasks \ Adjusted
               PROVE  late[t] <= 1
    BY DEF OneStragglerAtMost
  <2>1. Stage(pc[Owner], t) \in {"not", "starting", "up", "closed"}
    BY DEF Stage
  <2>2. TaskInv(t)
    BY DEF TasksInv
  <2> QED BY <2>1, <2>2 DEF TaskInv
<1> QED BY <1>1, TasksStaySound, PTL

=============================================================================

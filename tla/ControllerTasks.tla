-------------------------- MODULE ControllerTasks ---------------------------
(***************************************************************************)
(* The periodic tasks of one controller: task.Task (common/task/task.go)   *)
(* with the callers that share its objects, startTasks (node/task.go),     *)
(* adjustPeriodicIntervals (node/reload.go) and the task part of           *)
(* Controller.Close (node/controller.go).                                  *)
(*                                                                         *)
(* A Task holds its mutex while Execute runs.  A timer that has fired is a *)
(* goroutine: it looks at running, lets go of the mutex, takes it again    *)
(* and only then executes, so Close and Start of other goroutines fit      *)
(* between the look and the execution.  Each step below is one critical    *)
(* section of the mutex or one call of Execute.                            *)
(*                                                                         *)
(* A timer and the goroutine it becomes are one "chain": the goroutine     *)
(* that re-arms itself stays the same chain.                               *)
(*                                                                         *)
(* Every Execute of the program logs its errors and returns nil, so the    *)
(* error exits of checkedExecute and Start are never taken.                *)
(***************************************************************************)
EXTENDS Naturals, Sequences, FiniteSets, SequencesExt

CONSTANTS
  TaskOrder,      \* the tasks of the controller in the order startTasks starts them
  FirstNow,       \* the tasks started with Start(true): renewCert
  Adjusted,       \* the tasks whose interval the panel may change
  MaxAdjusts,     \* bound: interval changes in a behaviour
  MaxChains       \* bound: chains of one task that exist at a time

Tasks == ToSet(TaskOrder)

ASSUME TaskOrderOK == TaskOrder \in Seq(Tasks) /\ Len(TaskOrder) > 0 /\ IsInjective(TaskOrder)
ASSUME TaskSetsOK ==
  /\ "monitor" \in Tasks /\ FirstNow \subseteq Tasks \ {"monitor"} /\ Adjusted \subseteq Tasks
\* A Start arms at most one new chain, and there is one Start per task plus
\* one per interval change: MaxAdjusts + 1 chains are never all busy.
ASSUME BoundsOK == MaxAdjusts \in Nat /\ MaxChains \in Nat /\ MaxChains > MaxAdjusts

Chains == 1 .. MaxChains
NoChain == 0

Owner == <<"owner", 0>>            \* the goroutine that starts and closes the controller
ChainThreads == Tasks \X Chains
Threads == {Owner} \cup ChainThreads
Free == <<"free", 0>>

LateCap == 2  \* bound of the history counter: it saturates at "more than once"

VARIABLES
  lock,     \* Task.access: the thread that holds it, or Free
  running,  \* Task.running
  timer,    \* Task.timer: the chain whose timer it is, or NoChain
  pc,       \* where each thread is: [at, on]
  adjusts,  \* interval changes so far
  late      \* history: executions begun after the owner closed the task

vars == <<lock, running, timer, pc, adjusts, late>>

At(th, label, t) == pc[th] = [at |-> label, on |-> t]
Goto(th, label, t) == pc' = [pc EXCEPT ![th] = [at |-> label, on |-> t]]

Index(t) == CHOOSE i \in 1 .. Len(TaskOrder) : TaskOrder[i] = t
HasNext(t) == Index(t) < Len(TaskOrder)
Following(t) == TaskOrder[Index(t) + 1]

\* Where a thread continues after Start(t) or Close(t) returned to it.  The
\* owner goes on to the next task; a goroutine adjusting intervals is back in
\* its own Execute.
AfterStart(th, t) ==
  CASE th # Owner -> [at |-> "adjusted", on |-> t]
    [] th = Owner /\ HasNext(t) -> [at |-> "start", on |-> Following(t)]
    [] OTHER -> [at |-> "started", on |-> t]

AfterClose(th, t) ==
  CASE th # Owner -> [at |-> "start", on |-> t]
    [] th = Owner /\ HasNext(t) -> [at |-> "close", on |-> Following(t)]
    [] OTHER -> [at |-> "closed", on |-> t]

ClosedByOwner(t) ==
  \/ pc[Owner].at = "closed"
  \/ pc[Owner].at = "close" /\ Index(t) < Index(pc[Owner].on)

\* The return of checkedExecute: a starter's call of Start returns, a timer's
\* goroutine ends.
Return(th, t) ==
  IF th = Owner \/ th[1] # t THEN AfterStart(th, t) ELSE [at |-> "idle", on |-> t]

-----------------------------------------------------------------------------
(* task.Task                                                               *)

\* Start: a task already running is left alone.
Start(th, t) ==
  /\ At(th, "start", t)
  /\ lock[t] = Free
  /\ running' = [running EXCEPT ![t] = TRUE]
  /\ pc' = [pc EXCEPT ![th] =
              IF running[t] THEN AfterStart(th, t) ELSE [at |-> "check", on |-> t]]
  /\ UNCHANGED <<lock, timer, adjusts, late>>

\* The timer's goroutine starts.
Fire(t, c) ==
  /\ At(<<t, c>>, "armed", t)
  /\ Goto(<<t, c>>, "check", t)
  /\ UNCHANGED <<lock, running, timer, adjusts, late>>

\* checkedExecute begins with hasClosed, a critical section of its own.
hasClosed(th, t) ==
  /\ At(th, "check", t)
  /\ lock[t] = Free
  /\ pc' = [pc EXCEPT ![th] =
              IF running[t] THEN [at |-> "wait", on |-> t] ELSE Return(th, t)]
  /\ UNCHANGED <<lock, running, timer, adjusts, late>>

\* A timer's goroutine passes first = TRUE, Start passes its own argument.
First(th, t) == th \in {t} \X Chains \/ (th = Owner /\ t \in FirstNow)

\* time.AfterFunc: the goroutine's own chain is re-armed, a starter gets one
\* that is idle; Task.timer points to the new timer whatever it held.
AfterFunc(th, t, next) ==
  \E c \in Chains :
    /\ IF th = <<t, c>> THEN TRUE
       ELSE th \notin {t} \X Chains /\ At(<<t, c>>, "idle", t)
    /\ timer' = [timer EXCEPT ![t] = c]
    /\ pc' = [pc EXCEPT ![th] = next, ![<<t, c>>] = [at |-> "armed", on |-> t]]

\* Faulty variant: the next timer is armed before Execute as well as after it.
LockArmsFirst(th, t) ==
  /\ At(th, "wait", t)
  /\ lock[t] = Free
  /\ First(th, t)
  /\ \E c \in Chains :
       /\ At(<<t, c>>, "idle", t)
       /\ timer' = [timer EXCEPT ![t] = c]
       /\ pc' = [pc EXCEPT ![th] = [at |-> "exec", on |-> t],
                           ![<<t, c>>] = [at |-> "armed", on |-> t]]
  /\ lock' = [lock EXCEPT ![t] = th]
  /\ UNCHANGED <<running, adjusts, late>>

\* The second critical section: Execute runs under the lock, and running is
\* not looked at again before it.
Lock(th, t) ==
  /\ At(th, "wait", t)
  /\ lock[t] = Free
  /\ First(th, t)
  /\ lock' = [lock EXCEPT ![t] = th]
  /\ Goto(th, "exec", t)
  /\ late' = [late EXCEPT ![t] = IF ClosedByOwner(t) /\ @ < LateCap THEN @ + 1 ELSE @]
  /\ UNCHANGED <<running, timer, adjusts>>

\* With first = FALSE the section only arms the timer.
Arm(th, t) ==
  /\ At(th, "wait", t)
  /\ lock[t] = Free
  /\ ~First(th, t)
  /\ IF running[t] THEN AfterFunc(th, t, Return(th, t))
     ELSE pc' = [pc EXCEPT ![th] = Return(th, t)] /\ UNCHANGED timer
  /\ UNCHANGED <<lock, running, adjusts, late>>

\* th is inside t's Execute, in the monitor's case perhaps with an interval
\* already adjusted.
InExecute(th, t) == lock[t] = th /\ pc[th].at \in {"exec", "adjusted"}

\* Faulty variants of Executed, for the mutation runs only: the unlock is
\* forgotten, running is not looked at, no timer is armed.
ExecutedKeepsLock(th, t) ==
  /\ InExecute(th, t)
  /\ IF running[t] THEN AfterFunc(th, t, Return(th, t))
     ELSE pc' = [pc EXCEPT ![th] = Return(th, t)] /\ UNCHANGED timer
  /\ UNCHANGED <<lock, running, adjusts, late>>

ExecutedRearmsAlways(th, t) ==
  /\ InExecute(th, t)
  /\ AfterFunc(th, t, Return(th, t))
  /\ lock' = [lock EXCEPT ![t] = Free]
  /\ UNCHANGED <<running, adjusts, late>>

ExecutedNeverRearms(th, t) ==
  /\ InExecute(th, t)
  /\ pc' = [pc EXCEPT ![th] = Return(th, t)]
  /\ lock' = [lock EXCEPT ![t] = Free]
  /\ UNCHANGED <<timer, running, adjusts, late>>

\* Execute returned: the next timer, unless somebody cleared running.
Executed(th, t) ==
  /\ InExecute(th, t)
  /\ IF running[t] THEN AfterFunc(th, t, Return(th, t))
     ELSE pc' = [pc EXCEPT ![th] = Return(th, t)] /\ UNCHANGED timer
  /\ lock' = [lock EXCEPT ![t] = Free]
  /\ UNCHANGED <<running, adjusts, late>>

\* Faulty variant: the timer is stopped but running stays set.
CloseKeepsRunning(th, t) ==
  /\ At(th, "close", t)
  /\ lock[t] = Free
  /\ timer' = [timer EXCEPT ![t] = NoChain]
  /\ pc' = [x \in Threads |->
              IF x = th THEN AfterClose(th, t)
              ELSE IF x = <<t, timer[t]>> /\ pc[x].at = "armed" THEN [at |-> "idle", on |-> t]
              ELSE pc[x]]
  /\ UNCHANGED <<running, lock, adjusts, late>>

\* Close: a timer that has already fired is not stopped by timer.Stop.
Close(th, t) ==
  /\ At(th, "close", t)
  /\ lock[t] = Free
  /\ running' = [running EXCEPT ![t] = FALSE]
  /\ timer' = [timer EXCEPT ![t] = NoChain]
  /\ pc' = [x \in Threads |->
              IF x = th THEN AfterClose(th, t)
              ELSE IF x = <<t, timer[t]>> /\ pc[x].at = "armed" THEN [at |-> "idle", on |-> t]
              ELSE pc[x]]
  /\ UNCHANGED <<lock, adjusts, late>>

-----------------------------------------------------------------------------
(* The controller.                                                         *)

\* adjustPeriodicIntervals, from inside the monitor's Execute: the interval
\* changed, so Close and then Start(false) the task, the monitor before the
\* report.
adjustPeriodicIntervals(th, t) ==
  /\ t \in Adjusted
  /\ lock["monitor"] = th
  /\ At(th, "exec", "monitor") \/ (t = "report" /\ At(th, "adjusted", "monitor"))
  /\ adjusts < MaxAdjusts
  /\ adjusts' = adjusts + 1
  /\ Goto(th, "close", t)
  /\ UNCHANGED <<lock, running, timer, late>>

\* startTasks returns nil when it has started the last task ...
Started ==
  /\ pc[Owner].at = "started"
  /\ Goto(Owner, "up", pc[Owner].on)
  /\ UNCHANGED <<lock, running, timer, adjusts, late>>

\* ... or, where the speed checker would come next but has no
\* DynamicSpeedLimitConfig, an error, with the tasks before it started.
Misconfigured ==
  /\ pc[Owner].at = "started" /\ "dynamic" \notin Tasks
  /\ Goto(Owner, "failed", pc[Owner].on)
  /\ UNCHANGED <<lock, running, timer, adjusts, late>>

\* Controller.Close, called once on a controller that started.
CloseController ==
  /\ pc[Owner].at = "up"
  /\ Goto(Owner, "close", Head(TaskOrder))
  /\ UNCHANGED <<lock, running, timer, adjusts, late>>

Init ==
  /\ lock = [t \in Tasks |-> Free]
  /\ running = [t \in Tasks |-> FALSE]
  /\ timer = [t \in Tasks |-> NoChain]
  /\ pc = [th \in Threads |-> IF th = Owner THEN [at |-> "start", on |-> Head(TaskOrder)]
                              ELSE [at |-> "idle", on |-> th[1]]]
  /\ adjusts = 0
  /\ late = [t \in Tasks |-> 0]

Step(th, t) ==
  \/ Start(th, t) \/ hasClosed(th, t) \/ Lock(th, t) \/ Arm(th, t)
  \/ Executed(th, t) \/ Close(th, t)
  \/ \E c \in Chains : th = <<t, c>> /\ Fire(t, c)

Next ==
  \/ \E th \in Threads, t \in Tasks : Step(th, t) \/ adjustPeriodicIntervals(th, t)
  \/ Started \/ Misconfigured \/ CloseController

Spec == Init /\ [][Next]_vars

\* Timers fire, goroutines run, and Execute returns (its HTTP calls time out).
\* A goroutine queued on a sync.Mutex gets it in the end, for the mutex hands
\* over to the longest waiter once that starves: hence SF for those who wait
\* for a mutex that others take again and again, the owner and a goroutine
\* adjusting the intervals of other tasks.  Nothing obliges anyone to close
\* the controller or to change an interval.
Adjusters == {Owner} \cup (IF Adjusted = {} THEN {} ELSE {"monitor"} \X Chains)
Fairness ==
  /\ \A th \in Adjusters : SF_vars(\E t \in Tasks : Step(th, t))
  /\ \A th \in Threads \ Adjusters : WF_vars(\E t \in Tasks : Step(th, t))

FairSpec == Spec /\ Fairness

-----------------------------------------------------------------------------
(* Properties.                                                             *)

Labels == {"idle", "armed", "start", "check", "wait", "exec", "adjusted",
           "close", "started", "up", "closed", "failed"}

\* The types of the Task fields and of the threads' positions; the mutex is
\* held across steps only by the thread that is inside Execute.
TypeOK ==
  /\ lock \in [Tasks -> Threads \cup {Free}]
  /\ running \in [Tasks -> BOOLEAN]
  /\ timer \in [Tasks -> Chains \cup {NoChain}]
  /\ pc \in [Threads -> [at : Labels, on : Tasks]]
  /\ \A t \in Tasks : lock[t] # Free => pc[lock[t]].at \notin {"idle", "armed", "started", "up", "closed", "failed"}
  /\ adjusts \in 0 .. MaxAdjusts
  /\ late \in [Tasks -> 0 .. LateCap]

Busy(t) == { c \in Chains : pc[<<t, c>>].at # "idle" }

\* "Interval of the task being run" (task.go:10): while a task runs, one
\* chain of timers drives it.  With two, Execute runs twice per interval and
\* Close can stop only the timer the Task still points to.  (A task whose
\* interval changes may have two: Close and Start fit between a fired timer
\* and its look at running.)
SingleChain ==
  \A t \in Tasks \ Adjusted : running[t] => Cardinality(Busy(t)) <= 1

\* When Controller.Close has closed a task, the task is stopped for good: no
\* timer is armed, and a goroutine that is still on its way finds running
\* cleared, so it cannot arm one.  (A straggling monitor may start a task
\* with a changed interval again.)
StoppedAfterClose ==
  \A t \in Tasks \ Adjusted : ClosedByOwner(t) =>
    ~running[t] /\ \A c \in Chains : ~At(<<t, c>>, "armed", t)

\* A goroutine that looked at running before Close and takes the lock after
\* it still executes, once; no task executes twice after it was closed.  (One
\* per chain, so the adjusted ones may execute twice.)
OneStragglerAtMost == \A t \in Tasks \ Adjusted : late[t] <= 1

\* Controller.Close comes back: no cycle of goroutines waiting for each
\* other's tasks ever holds it up.
CloseReturns == pc[Owner].at = "close" ~> pc[Owner].at = "closed"

\* As long as the controller is up, every task is executed again and again.
Ticks ==
  \A t \in Tasks :
    []<>(pc[Owner].at # "up" \/ lock[t] \in {t} \X Chains)

\* The monitor's "post-reload bookkeeping" (reload.go:210) of the pull and
\* push cadence is done in the end and the monitor's Execute returns.
AdjustReturns ==
  \A th \in ChainThreads :
    pc[th].at \in {"close", "start"} ~> pc[th].at \in {"idle", "armed"}

=============================================================================

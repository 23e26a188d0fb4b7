# Verification of yunzes-node

yunzes-node is a Go daemon that runs proxy inbounds, through an embedded
xray-core or sing-box, on behalf of a panel.  For every panel node it runs a
*controller*, which polls the panel for the node's configuration and its users,
keeps the core's inbound and user table in step with them, limits the users'
devices, connections and speed, and reports their traffic.

This directory holds TLA+ models of the parts of the program that decide
something, TLC configurations that check them on small instances, and proofs
for every value of the constants.  Paths are relative to `src/`.

## 1. Inventory

### The parts and how they interact

```
 files --watch--> process reload --> Node: Start / Close of all controllers
                                       |
        panel <--HTTP-- controller ----+---- port registry (shared)
                         |  tasks: monitor, report, renewCert, speed checker
             +-----------+-----------+
             v                       v
        core (Selector)          limiter (registry, one per tag)
        inbounds, users,         limits, devices, buckets, ConnLimiter
        counters                     ^
             ^                       |
             +---- data path: dispatcher / hook, one goroutine per connection
```

| part | state | operations | what is hard | what makes it correct |
| --- | --- | --- | --- | --- |
| port registry (`node/port_registry.go`) | listeners, logical tags, runtime keys, one mutex | `reserve`, `release` | a request of several listeners that fails halfway, wildcard addresses, ports cut to 16 bits | exclusive listeners, nothing orphaned, nobody else's reservation touched |
| tasks (`common/task/task.go`, `node/task.go` 16-70, `node/reload.go` 197-235, `node/controller.go` 290-) | per task: mutex, `Running`, timer | `Start`, `Close`, firing, `Execute` | the mutex is held during `Execute` and given up between the look at `Running` and the execution; a task is closed and restarted by another one | one chain of timers, nothing after `Close`, `Close` and adjustments return, tasks go on |
| monitor and reload (`node/task.go` 72-, `node/reload.go`) | `info`, `userList`; client's hash and ETags; core; limiter | pull, incremental update, reload, rollback | any of about a dozen calls fails, 304 answers, `Close` between two calls | after each execution the core serves a consistent pair or nothing; the last answer of the panel is installed in the end |
| connection limiter (`limiter/conn.go`) | two `sync.Map`s | `AddConnCount`, `DelConnCount`, `ClearOnlineIP` | no lock; load and store in two steps; inner maps dropped while in use | counts equal open connections, the cap is exceeded only by overlap |
| limiter (`limiter/limiter.go`, `alive.go`, `old_online.go`, `dynamic.go`, `clear.go`) | limits, online and old devices, alive list, speed buckets | `CheckLimit`, `UpdateUser`, `GetOnlineDevice`, `UpdateDynamicSpeedLimit`, sweeps | several goroutines of a user run beside each other, the monitor, the report task and the sweep, on maps a refusal empties | buckets no faster than the limits, removed users forgotten, devices remembered |
| traffic report (`node/user.go`, `core/xray/user.go`, `common/counter`) | counters, drained slice, failures in a row | connections add; drain, split, report, roll back | load and clear in two steps; failed or lost answers; removals in between; a rollback by UID over all nodes of the core | each byte accounted for once, rollback bounded, small users reported in the end |
| node start and stop (`node/node.go`, `node/controller.go`) | controllers, registry, limiters, core | `Start`, `Close`, rollback | any of nine steps fails or panics, after other controllers have started | what did not start holds nothing |
| process reload, watch (`cmd/reload.go`, `cmd/server.go`, `conf/watch.go`) | live runtime, time of the last event | reload, rebuild, debounce | the old runtime is closed before the new one is known to start; saves and reloads overlap; a save may take the watched file away | one configuration is served as a whole or none, the last saved file is the one tried |
| inbounds and users of the cores (`core/xray/inbound.go`, `core/sing/node.go`, `*/user.go`) | none of their own | build options, add users | combinations of protocol, security, transport, cipher and options; missing pointers | a refusal is an error and no panic, no inbound is less secure than asked |
| certificates (`node/cert_manager.go`, `node/cert.go`, `node/lego.go`) | lifecycle table, claims, files | ensure, renew, atomic write | several controllers and one file; a crash between two renames; fallback to a new order; nodes that come to TLS by a reload | one flight per file, certificate and key match, renewal before the end |
| dispatcher, sing hook (`core/xray/app/dispatcher`, `core/sing/hook.go`) | link managers, links, hooks | dispatch, close, cut off a user | `Load`/`Store` instead of `LoadOrStore`; a map walked without its mutex; both sides close | every link of a removed user is closed, every count given back once |
| panel client (`api/panel`) | body hash, ETags | pulls and pushes | the hash is kept before the body is looked at | a failure never makes the next answer "unchanged" |
| configuration files, JSON5, commands, install scripts | none of their own | decoding, I/O | - | - |

`PROJECT.json` lists the same parts as components with their status, and every
hazard of the code at the line where it bites.

## 2. Modules

| module | models | actions |
| --- | --- | --- |
| `PortRegistry` | `node/port_registry.go` | `Reserve` and `Release`, each one critical section; the listener specs, the 16-bit port and the address normalisation are operators |
| `PortRegistryProofs` | proofs | |
| `ControllerTasks` | `common/task/task.go` with `startTasks`, `adjustPeriodicIntervals` and the task part of `Controller.Close` | one per critical section of a task's mutex: `Start`, `Fire`, `hasClosed`, `Lock`, `Arm`, `Executed`, `Close`; a timer and the goroutine it becomes are one *chain* |
| `ControllerTasksProofs` | proofs | |
| `NodeController` | `nodeInfoMonitor`, `reloadNodeConfig` with its rollback, the rest of `Close`, the panel client's hash and ETags, the controller's view of core and limiter | one per call the monitor makes outside its package, and the panel's changes |
| `NodeService` | the abstract specification of a controller: one configuration is served to the users of one list, with their limits | the requests of a pull, `AdoptUsers`, `AdoptConfig`, `Abandon`, `Break`, `Stop`, `End` |
| `NodeControllerProofs` | proofs, of the refinement too | |
| `ConnLimiter` | `limiter/conn.go` | one per operation on a `sync.Map` |
| `Limiter` | the rest of `limiter/` | `CheckLimit` with one step per operation on a shared map, `UpdateUser` in four, `GetOnlineDevice` and the sweep in two each |
| `LimiterUsers` | the users, addresses and goroutines both halves of a Limiter work on | |
| `LimiterProofs` | proofs about `ConnLimiter` and `Limiter` | |
| `TrafficReport` | `reportUserTrafficTask`, the counters of the core, the connections and the monitor beside them | transfer, also into storage that is detached, load, clear, report, refill, removals, reload, a first connection that overwrites the counters |
| `TrafficReportProofs` | proofs | |
| `InboundConfig` | the decisions without state: `protocolSecurity`, `getInboundOptions`, the builders of `core/xray/inbound.go`, cipher validation, `Options.UnmarshalJSON`, `resolveCertConfig`, `buildServerController` | operators; each builder answers ok, error or panic, and the layer (clear, tls, reality) it would serve |
| `Process` | boot, `reloadProcess`, `Conf.Watch`, `Node.Start`, `Controller.Start` and their rollbacks, `Close`; extends `InboundConfig`, instantiates `PortRegistry` for the registry of the runtime being built | one per phase of a boot or reload and one per controller started, closed or undone; saves, events and reads of the file; panics, the signal, the leaked monitor |
| `ProcessProofs` | proofs, of the refinement too | |
| `ReloadContract` | the abstract specification: one configuration is served or none | `Offer`, `Try`, `KeepOld`, `Commit`, `Leak`, `GoLive`, `Restore`, `GoOffline`, `Exit`, `Panic` |
| `Certificate` | `cert_manager.go`, `cert.go`, the orders and writes of `lego.go`, and their callers: the starts in `Node.Start`'s order, `reloadNodeConfig` and the daily task | `EnsureCertificate` to `Finish`, one per call between which others run; `Reload` of a node; days, crashes, damaged files, restarts |
| `CertificateProofs` | proofs | |
| `Dispatcher` | `getLink`, `DispatchLink`, the ends of `routedDispatch`, `LinkManager`, the hooks of both cores, beside `DelUsers`, `AddUsers` and `UpdateUser` | one per operation on `LinkManagers` or on a manager's links; the walk of `CloseAll` link by link |
| `DispatcherProofs` | proofs | |
| `MC*` | constants, model values and symmetry for TLC | |

Each module stands for one component whose neighbours appear as what they may
do to it: in `NodeController` the tasks are one monitor and its closer, in
`TrafficReport` the monitor is a removal, an addition or a reload at any moment
no lock forbids.  `Process` is the composition of the parts a start goes
through: configuration, cores, port registry, limiter registry and controllers.
`Controller.Start` is one step there, because nobody else touches the
registries while it runs; which of its steps fails is chosen by the builders of
`InboundConfig`, by the registry, or by a bounded number of faults.  Formatting, logging, wire formats and the inbounds' contents
are abstracted to model values.  In `NodeController` a configuration is one value
with two possible defects (cannot be decoded, refused by pre-validation) and a
user list is a function from uuids to limits; in `Process` a configuration is a
record of the fields a start looks at.

### The refinements

`ReloadContract` is what the comments of `reloadOutcome` and `reloadProcess`
(`cmd/reload.go:67-104`), `serverHandle` (`cmd/server.go:133-140`) and
`Conf.Watch` (`conf/watch.go:11-25`) tell an operator.  The process serves one
whole configuration or nothing, and tries only what the file has had.  A reload
has two phases: while it is *building* new cores the old runtime is untouched,
and a failure leaves it so (`KeepOld`); once it is *swapping* (`Commit`) the new
configuration goes live, the old one is restored, or the process is offline, and
then it is alive and tries again at the next event.  It ends by a signal or by a
boot that fails.  The code breaks this by panics, and the contract says where:
core files that panic in the core's constructor, a reload that begins offline,
and a task left behind by a start that failed (`Leak`).  A panic anywhere else
violates `KeepsContract`.

`Process` implements it under three mappings.  `Phase` is the place of the job.
`Serving` is what the live runtime serves outside a swap, taken from the
inbounds, the Selector's entries and the limiter registry rather than from the
name of the configuration, and during a swap the configuration that would be
restored; a runtime of which a node is missing maps to a value that the
contract does not allow.  `leaked` is `hist.leaked`.

`NodeService` is what `nodeInfoMonitor` (`node/task.go:72-74`) and
`reloadNodeConfig` (`node/reload.go:24-53`) promise of a running node: it asks
the panel for a configuration and then for the users, and takes on both
together, as answered in one pull, or keeps what it served.  `NodeController`
implements it (`KeepsPromise`) under three mappings: `Asked`, the answers the
monitor holds; `Served`, the core's inbound and users between two executions,
read from the core and not from the books, and the controller's pair during one,
so that the calls of a reload and of its rollback are stutters; and `Enforced`,
the limiter's table until a reload has changed the users without telling it
(`hist.stale`).  After a failure no rollback undoes, or when a goroutine has
slipped past `Close`, the service is `Broken` and stays so until it is closed.

Definitions whose comment begins with "Faulty variant" model no code.  They are
what the mutation runs put in the place of the definition they stand before, to
show that the property they name can fail.

## 3. What is checked

Constants that bound a behaviour begin with `Max`.  No module uses a recursive
operator.  `CHECK_DEADLOCK FALSE` stands where a bound uses up every action, or
where the controller is closed for good.

| run | instance | shows |
| --- | --- | --- |
| `port_registry` | 2 cores x 3 tags, 7 protocols, 3 port numbers of which two are the same after the cut to 16 bits, a specific, an unset and a wildcard address; every sequence of calls | `Exclusive`, `NoOrphan`, `OthersUntouched` |
| `tasks_lifecycle` | monitor, report and renewCert (the one with `Start(true)`), a `startTasks` that may give up after them; one change of report's interval; two chains per task | `SingleChain`, `StoppedAfterClose`, `OneStragglerAtMost`; `CloseReturns`, `Ticks` under fairness |
| `node_faults` | 2 usable configurations and an invalid one, 2 users x 2 limits, empty lists and ETags, 2 failures of any call, rollback and `Close` included | `InStep`, `InfoOrDown`, `ClosedIsDown`, and the refinement `KeepsPromise` |
| `node_converge` | as above with an unparsable configuration, one failing `GetNodeInfo`, and fairness | `ConfigConverges`, `UsersConverge` |
| `conn_limiter` | 2 goroutines, 3 addresses, 4 connections, limits 2 and 1, the sweep | `Ledger`, `IPCap` |
| `limiter` | 2 users, 2 addresses, 2 goroutines, 3 checks, 3 events of the panel, the speed checker, the report and the sweep, limits with and without a value | `NeverFaster`, `RemovedForgotten`, `DevicesRemembered` |
| `traffic` | 2 users, the UID of one of whom another node has too, threshold 1, cap 1, 3 bytes each, 2 failures, one removal or reload, and fairness | `Conserved`, `NoOverReport`, `GuardHolds`, `EventuallyReported` |
| `process` | 9 configurations (two cores, one core, a port clash, a panel-driven list, an unknown security, a dynamic limit that is not configured, a `SendIP` that leaks an inbound, core files that panic, an unknown core), 3 saves at any time, each in place or by another file, 1 failure of any call, panics and the signal | `BooksMatch`, `LastSaveTried`, `KeepsContract` |
| `certificates` | two ACME accounts for one certificate with renewal windows of 1 and 2 days, another certificate with the same key file, a self-signed one of another domain on the same files, a controller that reads them; four configuration files of one or two nodes, where reloads may take two of the configurations off TLS and on again; certificates of 2 days, 1 failure, 1 crash or damaged file, any number of days and restarts | `OwnDomain`, `Paired`, `InTime` |
| `dispatcher` | a user of each core, 3 connections by any entry, limit 2, users removed, returning and removed again, the limiter going | `CutOff`, `SlotsExact` |

Every passing run also checks its module's type invariant, which carries the
facts that are not about types but belong to the shape of the state (a user
without an outer entry has no slots, nobody is served without an inbound).

### Where the code does not do what it says

| run | property | |
| --- | --- | --- |
| `tasks_pull_change` | `AdjustReturns` | a changed pull interval makes the monitor close its own task inside its `Execute`, on a mutex it already holds: the monitor stops for ever, and `Controller.Close` hangs after it (`node/reload.go:218`) |
| `node_reload_loses_users` | `NobodyLost` | a configuration change while the user list answers 304 reloads the node with no users (`node/reload.go:174`) |

The other runs state their properties around the rest of what the code does not
keep: by an instance in which the case does not arise (`Adjusted`, `Failures`,
`EmptyLists`, `UserETags`), or by a history variable that excuses just what it
affects.  Each exception is named in the comment of its property, and below:

| variable | property | excuses |
| --- | --- | --- |
| `raced` | `Ledger`, `CutOff` | users whose calls overlapped; connections inside `getLink` during a removal or another first connection |
| `mixed` | the three of `Limiter` | users who were updated or reported while in `CheckLimit` |
| `safe` | `DevicesRemembered` | devices not in it: let in while a refusal of the same user was open |
| `excused`, `twice` | `Conserved`; `twice` also `NoOverReport` | bytes that went astray, were detached, raced with a drain or met a removal or a reload; lost answers |
| `torn` | `Paired` | files last written one without the other, or damaged |
| `tasked` | `InTime` | controllers without a renewal task |
| `hist.missed`, `hist.overtaken` | `LastSaveTried` | saves in the deaf window or after one that replaced the file; callbacks out of order |
| `leaked`, `Fatal` | `KeepsContract` | the named panics |
| `hist.broken`, `hist.stale`, `hist.straggler`, `hist.lost` | of `NodeController` and `Dispatcher` | failures no rollback undoes; lists a reload kept from the limiter; executions past `Close`; connections counted and refused |

Before `process` starts, `MCProcess` evaluates five assumptions over every
combination of protocol, security, transport, cipher and options: the builders
of xray never read through a missing `SecurityConfig` (`XrayNeverPanics`), an
inbound with TLS has had its certificate ensured, but for Trojan on sing
(`TlsHasCertificate`), `tls` and `reality` are never answered with a clear
inbound unless the certificate mode turns TLS off (`NoSilentDowngrade`; the
space has the securities none, `tls` and `reality`, and nothing is claimed of
values nobody knows),
what `AddNode` took does not panic in `AddUsers` (`UsersNeverPanic`), and a
panel-driven node of the sing core never starts (`PanelSingNeverStarts`).

Seen while modelling, without a run of their own:

* `limiter/conn.go:78`: two overlapping closes leave a count above the open
  connections for ever, though the doc promises "never under-allocation"
  (`ConnLimiter!NeverUnder` states it and does not hold).
* `limiter/limiter.go:195`: an expired dynamic limit deletes the limits of a user
  without a static one, who is rejected from then on (`Limiter!ListedKnown`).
* `limiter/limiter.go:209-228`: a refused connection undoes more than it did.  The
  one that stored the user's entry deletes all of it, with the devices of those
  let in through it meanwhile; one refused with an IP deletes that IP, by which
  another connection may have been let in.  Such a device is not reported and is
  counted anew.  `DevicesRemembered` speaks of the others (`safe`).
* `limiter/limiter.go:222`, `old_online.go:103-105`: an old device is deleted after
  it was looked at, also when the report has stored it again in between, so that
  its next connection is taken for a new device.
* `core/xray/user.go:73`: bytes added between the load and the clearing of a
  counter are lost (`excused` in `Conserved`).
* `core/xray/user.go:108-121`: drained bytes are put back by UID, through a reverse of
  the `uidMap` of the whole core.  When two nodes of a core have the same UID, the
  e-mail found may be the other node's, whose counter is not under this tag, and
  the bytes are dropped in silence, at every report below the threshold, against
  "the strict no-loss invariant" of `node/user.go:78-80`.  (The sing core has a
  like fault, which is not modelled: its `uidMap` is keyed by uuid alone, so that
  removing a user from one node takes the UID from the others,
  `core/sing/user.go:165-175`.)
* `default.go:229-246`: connections that outlive `DelUsers`, and those whose counter
  another first connection has overwritten, count into storage nobody drains.
* `limiter/limiter.go:201`, `216`, `228`: a connection counted by `AddConnCount`
  and then refused by `CheckLimit` stays counted, since `getLink` installs the
  hook that takes it back only after that; so a user over the device limit runs
  into the connection limit for good, which is what the comment at `default.go:209`
  wants to prevent.  `SlotsExact` counts these in `hist.lost`.  Without realtime
  mode nobody calls `DelConnCount` at all (`default.go:216`).
* `core/xray/app/dispatcher/default.go:197`: of two first connections of a user
  one is in a link manager nobody finds; a connection inside `getLink` while its
  user is removed outlives the removal likewise (`raced` in `CutOff`).  The node's
  counter is looked up the same way.
* `default.go:424`: `DispatchLink` never adds its link to the manager, and the
  sing core cuts nobody (`ClearConn` has no caller): such connections of removed
  users go on until they end by themselves.
* `linkmanager.go:50`: `CloseAll` walks the map without the mutex; the runtime may
  end the process ("concurrent map iteration and map write": `Fatal`).
* `core/sing/user.go:205`: removing users of a "hysteria" inbound asserts the type
  of a hysteria2 one; `AddUsers` has no case for it and adds nobody.
* `cmd/server.go:140`: after a reload that ended offline, `nodes` is a typed nil
  pointer in an interface, so the next reload panics, where lines 137-138 promise a
  fresh boot.  (The signal does not: its `Close` was bound to the first value.)
* `core/xray/xray.go`: `getCore` panics on core files it cannot use; in a reload
  that ends the process, though phase 1 promises to keep the old runtime.
* A node `buildServerController` makes for the sing core has no `SingOptions`, and
  `AddNode` reads through the nil pointer; 2022-chacha20 users are refused by
  sing's `AddUsers`.
* `conf/watch.go:40`: a save in the ten seconds after an event, if it comes after
  the read, is never read; callbacks may begin in another order than their reads.
* `conf/watch.go:36-61`: the file itself is watched, and added to the watcher once.
  An editor that saves by renaming a new file over the old one takes the watch
  along, so that after this save, which is read, no other is heard, although line
  19 speaks of editors that save so.
* `node/cert_manager.go`: the decision is made before `certIssuanceMu` is taken and
  not made again under it, so two configurations of one certificate order it twice;
  the self-signed branch runs outside the mutex; claims of files are never given
  up, so a reload that changes a node's domain on the same files is refused until
  the process exits; `RenewBeforeDays` is not part of the task key, so who joins a
  flight gets the other's window.
* `node/cert.go:45`, `node/lego.go:141`: a crash or a failed write between the two
  renames leaves a new certificate with the old key, which is reused so until the
  next renewal, since the key file is never looked at.  "writeCert persists cert +
  key atomically ... a crash mid-write leaves the previous good cert intact"
  (`lego.go:138-140`) and the like words of `cert.go:14-17` promise otherwise
  (`torn` in `Paired`).
* `node/cert_manager.go:262-268`: two certificates may name one key file, and who is
  issued last has the key.  Two self-signed configurations of one certificate that
  differ in `Email` or `Provider` are two tasks and may write at the same time
  (`OneWriter`).
* `node/reload.go:87-94`: a node that a reload brings to TLS orders its certificate and
  uses it, but only `startTasks` makes the renewal task (`task.go:41-53`), so nobody
  renews it until the process or the configuration is reloaded (`tasked` in
  `InTime`).
* `node/cert_manager.go:114`: "file" mode accepts an expired certificate, and the
  table's "mismatched -> reissue" is an error for self-signed ones.

* `node/reload.go:105`: after a rollback whose `AddNode` failed the Selector has
  no entry, so every later reload aborts at `DelNode` and the node stays
  offline, although lines 44-46 and 146 leave it to the next pull.  `InStep`
  excuses it through `hist.broken`, and `node_converge` lets only `GetNodeInfo` fail.
* `node/task.go:87`: a configuration change is consumed by `GetNodeInfo` when
  `GetUserList` fails after it; the next answer is "no change".
* `node/task.go:114`: an empty list is taken for no answer, so the last user the
  panel removes stays.  Hence `EmptyLists = FALSE` in `node_converge`.
* An incremental update that failed halfway is not repaired while the user list
  answers 304.  Hence `UserETags = FALSE` there.
* `node/reload.go:119-122`: a reload gives the new user list to the core and not
  to the limiter (`hist.stale`).
* `common/task/task.go:34`: `Running` is not looked at again under the lock, so
  one execution may begin after `Close`; a monitor among them may reload across
  `Close`'s `DelNode` and leave an inbound, or restart the report task.  Line 28:
  a task whose interval changes may have two chains.
* `node/task.go:57`: `startTasks` that fails leaves the tasks before it running; the
  monitor among them finds a nil limiter and panics (`LeakedMonitor`).
* `limiter/limiter.go`: the old online devices are consulted only for a user's
  first device since the last report.
* `core/sing/hook.go:74`: the hook releases the address as it came, while
  `CheckLimit` strips `::ffff:`.
* `common/counter/conn.go:37`: `Read` and `Write` store the length of the last
  chunk instead of adding it.
* A report whose answer is lost is rolled back though it was booked (`twice`).

### Bounds

* *Registry*: no bound on the number of calls; six controllers suffice for a
  holder, a rival on another core and a third tag, which is all that `reserve`
  compares, and the theorems cover the rest.
* *Tasks*: `MaxChains = MaxAdjusts + 1` is enough for all chains that can exist,
  which an assumption of the module says.  `LateCap` saturates a history counter.
* *Controller*: two failures reach a failed call and a failed rollback of it;
  two panel changes reach a change and one that is overtaken by the next.
* *Limiters*: two goroutines are the smallest overlap, and a third address shows
  the cap is exceeded by one and not by more.  In `limiter` two goroutines reach a
  refusal that overlaps an admission, and a third check comes after both; three
  events are a count of alive devices that makes a refusal, a report that makes old
  devices, and a sweep, a change of the limits or a second report.  `MaxEvents`
  bounds them together, so that any kind may happen three times or each of three once.
* *Process*: three saves reach a reload, a save during it and one after; one fault
  on top of the configurations' own defects reaches a failure during the rebuild
  after a failed start.  Two of the nine configurations start, the others
  fail at different steps.
* *Certificates*: two days of validity are the fewest in which one renewal window
  has opened and the other has not.  One failure reaches a failed renewal with its
  fallback, a failed key write after a certificate, and a failed check; a second one
  in the same behaviour could only fail the fallback too, which ends in the same
  state as the failure of a first order.  `Sites` are the pairs of configurations
  that can meet: two accounts, two domains, two certificates with one key, and a
  reader alone; each order of starts that differs is one of them, and a restart may
  choose another.  `Changing` has an ACME configuration and the reader, so that both
  branches of `Reload` are taken.  Only the one certificate file is damaged from
  outside, since nothing reads the key file and the second certificate is like the
  first.
* *Dispatcher*: two connections race for a manager, a third finds the one that won;
  three changes give a removed user a second life.
* *Traffic*: with a threshold of 1, a cap of 1 and 3 bytes a user is below, at
  and above the threshold, and two failures in a row exceed the cap.  One user
  shares its UID and one does not, so that both fates of a rollback are in one run.

### Fairness

* `ControllerTasks`: timers fire, goroutines run, and `Execute` returns, since
  its requests have time limits: weak fairness of every goroutine's steps.
  Those that wait for a mutex others take again and again (the owner, and a
  monitor that adjusts another task) have strong fairness: a `sync.Mutex` hands
  over to its longest waiter once that one starves.  Nobody is obliged to close
  a controller or to change an interval.
* `NodeController`: the monitor's timer and its calls, weakly.  Neither the
  panel nor `Close` is obliged to do anything.
* `TrafficReport`: the report task, weakly, and the second half of a reload,
  which brings the node up again.  That requests succeed in the end is the bound
  `MaxFailures`, not fairness: while the panel is down nothing can be reported.
* `Process`, `Certificate` and `Dispatcher` state safety only.

## 4. What is proved

All proofs are by an inductive invariant, which TLC has checked on the instances
of section 3 (and on larger ones where the proof is long) before it was proved;
each step of the specification keeps it by a lemma of its own.  The constants are
arbitrary up to the named assumptions of each module, which TLC evaluates on every
run: sets need not be small, and are not finite but where something is counted
(the connections of `Dispatcher`; the users, IPs and goroutines of `ConnLimiter`;
the configs and files of `Certificate`).

`PortRegistryProofs`, from `PortsAreNaturals`, `WildcardsDiffer` and
`NoKeyIsNoKey`:

* `TypeCorrect`, `ListenersExclusive`, `NothingOrphaned`, `OtherControllersUntouched`.
* `Exclusive` and `NoOrphan` are not inductive alone: `RegistryInv` adds
  `OneTagPerKey`.  That a release leaves no tag behind needs that its key has one
  tag only, since the loop of the code stops at the first; that granted listeners
  do not overlap needs that the addresses on the books are normalised
  (`TypeOK`), which makes the code's case analysis symmetric
  (`ConflictIsOverlap`).  The lemmas about `reserve` and `release` are stated for
  any specs and used once per action.

`TrafficReportProofs`, from `NumbersOK` (a natural threshold, an integer cap):

* `BytesConserved`, `NeverOverReported`, `GuardAlwaysHolds`, `TrafficTypeCorrect`.
* The invariant `ReportInv` adds to the properties: `ReadsOne` (a value read is
  of the one user being drained, which makes clearing take away what was read),
  the half of `TypeOK` that says a value read is still there (the core's mapLock
  keeps removals out of a drain), `Backed` (what is in the core, on its way,
  booked and given up together does not exceed what was sent, excused users
  included, which gives `NoOverReport`), and `WornByFailures` (bytes came back at
  most once per failure of the current row, which gives the guard).
* `BalanceKept` reduces each step to what it does to `Missing(u)`, the bytes
  sent that are nowhere: a step may raise it only for users it excuses.  `Refill`
  excuses a user exactly when it puts back less than was drained, whatever the
  reason, and `TransferDetached` always, so the theorem says that nothing but the
  cases listed at `Conserved` loses a byte, not that these are rare.

`DispatcherProofs`, from `ConnsOK` (finitely many connections, none of them the
name of no manager, and a Boolean mode):

* `RemovedAreCutOff`, `DispatcherTypes`, and `SlotsAreExact` for a node in
  realtime mode; without it the code installs no hook and never gives a slot back.
* `CutOff` speaks of the moment after `DelUsers`; what makes it true is set up
  long before.  `CutInv` says for each connection (`Accounted`) that past the
  lookup it is among the links of the manager its user has (`Reached`), during
  the walk among those still to be met (`Walking`), runs without its user in the
  inbound only while that user is being removed (`Gone`), and if it is still on its
  way into a manager then, has raced (`LateHasRaced`).  `RemovalAccounted` is its
  invariance.  `OthersStay`, `StepKeepsCut` and `ClosingKeepsCut` reduce each
  step to what it does to the one connection that takes it.
* `SlotInv` adds to `SlotsExact` that a counted connection has a user and that its
  hook has run just when its writer has been cut (`Slotted`): a second close
  gives nothing back, and the first finds the count above zero, so that
  `DelConnCount` never has to stop there.

`ControllerTasksProofs`, from `TaskOrderOK` (no task twice in the order of
`startTasks`), `TaskSetsOK` (there is a monitor, and it is not a task that starts
with an execution) and `BoundsOK` (more chains than changes of an interval):

* `TasksStaySound`, `TasksTypes`, `OneChainPerTask`, `ClosedTaskIsStopped`,
  `OneLateExecution`, for any tasks in any order.
* The owner takes each task through four stages, which its own place gives
  (`Stage`): not started, starting, up, closed.  `TaskInv` says for a task whose
  interval is fixed that all chains are idle before its start, that the only busy
  one is the timer's while it is up, and that after its close no chain is armed, at
  most one is still on its way and none once the late execution has been counted.
  `ThreadInv` says where a goroutine may be and which mutex it holds there: it is
  what keeps a chain of the monitor, which alone may work on another task, away from
  a task that is not `Adjusted`.

`NodeControllerProofs`, from `ConfigsOK`, `BoundsOK` and `FlagsOK` of its module:

* `ControllerStaysInStep`, `ControllerTypes`, `CoreInStep`, `OwnInboundOrNone`,
  `LimiterInStep`, `CloseTearsDown` and `ControllerKeepsPromise`, for any configurations, users and limits, any
  calls that fail and any number of failures and changes.
* The properties speak of the moments between two executions of the monitor;
  `ControllerInv` says what the core holds at each place within one.  `Place` (which
  inbound) holds whatever has failed, `Serving` (which users) unless `hist.broken`.
  Both end when a goroutine of the monitor has slipped past `Close` (`Mine`), and
  `Closing` says that this is the only way.  That an incremental update arrives at the
  new list is `DifferenceOfLists` (old without deleted, and added, is new) in the
  core and `UpdatedList` in the limiter.
* `ControllerKeepsPromise` is the refinement of `NodeService`, all its steps.  Under the
  invariant the service is what the books say (`ServedIsBooks`), so a step matters
  only if it writes them: the others are `Quiet`, a stutter, an abandoned pull or
  a broken service.  `Holding` says which answers the monitor has at its places:
  an update holds a list that is not empty and no configuration, and an idle
  monitor holds nothing, which is why a closed controller has no pull under way.
  `LimiterInStep`, which no run states any more, is the part about the limiter.

`LimiterProofs`, about `ConnLimiter` from `LimitsOK`, `SetsOK` and `NoneOK`:

* `CountersStaySound`, `CountersTypes`, `IPLimitNearlyKept`, `BooksBalance`, for any
  users, addresses, goroutines and calls.
* The cap is not inductive, since goroutines that have passed the check have not
  stored their IP yet.  `ClaimsInv` counts these with the IPs online: a goroutine
  that passes saw fewer than the limit, and each of the others adds one at most.
* For the ledger, `UserLedger` says what a user's only goroutine still owes the books
  at each of its steps (`Owes`: one connection, or the slot of one IP) and that what
  it has read still holds (`Knows`).  That it is the only one is what `raced`
  records when calls of a user overlap.  The open connections are a set of
  numbered pairs, so that `FiniteSetTheorems` can count them.

and about `Limiter` from `NumbersOK` and `NoneOK`:

* `LimiterStaysSound`, `LimiterTypes`, `BucketsNeverFaster`, `RemovedAreForgotten`,
  `DevicesAreRemembered`, for any limits, devices and calls.
* The properties speak of users whose calls are complete.  `Entry` says what the
  limits of a user may be within an update, whatever overlaps it; `Undisturbed`
  that a check that has overlapped neither an update nor a report has taken the
  limits of the list; `Kept` that a bucket is no faster than the limits its user has,
  that an update has emptied bucket and devices before it gives new limits, and
  that a report has remembered the safe devices it is about to drop.  `Firm` says
  why a safe device stays: no goroutine of its user that is about to delete the
  entry, or that IP, is left in the user's current map, since one that was at it
  when the device came in kept it from being safe (`Open`), and one that comes to it
  later has found the entry, or the IP, already there; goroutines whose map was
  taken out are at places that touch nothing (`Detached`).  `SlowerStill` is
  why the dynamic limit, which comes and goes below a bucket that stays, does no
  harm: the bucket may be slower than the limits, and never faster.

`ProcessProofs`, from `ConfsOK`, `PortsOK` and `NilOK` (configurations are records of
the fields a start looks at, and ports are naturals):

* `ProcessStaysSound`, `ProcessTypes`, `NothingLeftBehind`, `SavesAreTried`, for any
  configurations, any number of saves and any calls that fail; and the refinement.
* The properties speak of the process at rest.  `LiveInv` and `NextInv` say what a
  reload in progress has registered with each of its two runtimes: the registered
  keys are those of the controllers started (`Registered`), no two of them share a
  key (`Distinct`, which makes a close take away what its own start registered and
  nothing else), and they are the nodes in order (`Tagged`).  `JobInv` says what the
  job remembers, `WatchInv` that of the configurations that wait for a reload the
  one read last is what the file holds, unless a save was missed or overtaken.
* `ReloadsKeepTheContract` is the refinement: the initial state maps to one of
  `ReloadContract`, and under the invariant every step maps to a step of it or a
  stutter.  It is stated of `Phase` and `Serving`, the mappings of section 2; the proof
  replaces the second by the name of the bound configuration (`Bound`), which
  `ServingIsBound` derives from the registries.  That no step of a rebuild panics
  needs `CoresBuilt`: what is restored was built before.

`CertificateProofs`, from `ConfigsOK`, `DisksOK`, `NilOK` and `BoundsOK`:

* `CertificatesStaySound`, `CertificateTypes`, `OwnCertificates`, `RenewedInTime` and
  `CertAndKeyPaired`, for any configs, sites and files, failures, reloads, crashes and
  damaged files.
* `OwnDomain` needs that whoever writes a file or has started with it has claimed it
  (`Owned`): a claim may be repeated but not pass to another domain, so what is
  written is for the domain of everybody who uses the file.
* `InTime` needs the margin a successful check leaves (`Margin`): from then on the
  days a certificate has left and the days without a check add up to it (`Fresh`).
  The window is that of a config with the same task key, whose flight the check
  may have joined.  `missed` is a counter with the cap `Life`, hence the second
  disjunct of `InTime`.  The invariant speaks of every controller with a task
  (`TimeInv` over `tasked`), so a node that a reload takes off TLS and on again is
  in it, and one that was started without TLS is not.
* `CertAndKeyPaired` has no hypothesis beyond the module's assumptions.  `PairInv`
  follows the serial from the certificate to the key: a call about to write its key
  finds its own certificate on disk.  `WriterAlone` is why: two calls that may write
  one certificate have claimed it for one domain and, where `OneWriter` holds, are
  one flight or are parted by `certIssuanceMu`.  `torn` is a set of configs: those
  that use a file are in it from the write of one file until a call of a config
  with the same pair has written both, and the second certificate of a key file
  stays in it.
* The proof corrected the model: a self-signed renewal that fails is not tried
  again, which it was in `OrderFailed` (`node/cert_manager.go:177-179` return).

Only model-checked: the tables of `InboundConfig`, which TLC evaluates for every
combination of their finite inputs; and the liveness properties `CloseReturns`,
`Ticks`, `ConfigConverges`, `UsersConverge` and `EventuallyReported`, whose fairness is
out of the prover's reach.

## 5. Not modelled, and the plan

Left out for good: wire formats and decoding, the library configurations the
builders fill in (only whether they can and with which layer), JSON5, what
sniffing finds and which outbound the router picks, the libraries' own
protocols, commands and scripts.  The error exits of `checkedExecute` and
`Start` are left out of `ControllerTasks`: every `Execute` of the program
returns nil.

Simplifications inside the models: upload and download of a user are one
number; all of `CheckLimit` is one step in `Dispatcher` (in `Limiter` it has a
step for each operation on a shared map); the test of one address and the count
of the others in an inner map are one step; a uuid occurs once in a user list;
in `Process` a controller's start and its close are one step each; in
`Certificate` time passes in whole days, and the templates `{domain}` and
`{email}` in paths, which only `writeCert` expands, are not used; in `Dispatcher`
updates of a node being closed are left out.  In `NodeController` a failed
`AddNode` leaves nothing in the core, whereas xray's (`core/xray/node.go:19-37`)
leaves the inbound handler when a step after `addInbound` fails, and may then
refuse the tag to the rollback's `AddNode`: a failure of that call is among the
model's, and the handler that stays is in `Process`, not here.

What is left to do:

1. Liveness of `Process` (a reload ends) and of `Certificate` (a flight ends): both
   hold by the order of their steps, on instances smaller than those above.
2. `compareUserList` and the resolution of intervals against reference
   definitions over bounded inputs.

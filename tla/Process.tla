------------------------------- MODULE Process -------------------------------
(***************************************************************************)
(* The process: boot (cmd/server.go), the watch on the configuration file  *)
(* (conf/watch.go), the reload of the runtime (cmd/reload.go), the start   *)
(* and stop of its controllers (node/node.go, node/controller.go) over the *)
(* cores (core/core.go, core/selector.go), the port registry of each node, *)
(* and the limiter registry, which is global to the process.               *)
(*                                                                         *)
(* A runtime is a core with the controllers started on it.  At most two    *)
(* exist: live, the one serverHandle has bound, and next, the one a boot   *)
(* or a reload is building.  Controller.Start and Controller.Close are one *)
(* step each: between them run only the watch and other goroutines that    *)
(* touch neither registry.  What a running controller does of its own is   *)
(* NodeController.                                                         *)
(*                                                                         *)
(* A configuration is [name, cores, nodes, viaPanel]: cores is a sequence  *)
(* of [type, name, file], file saying whether the core's own configuration *)
(* files can be used; a node is [tag, type, opt, proto, info, users] with  *)
(* the panel's answer to its client in info.  With viaPanel the nodes are  *)
(* the protocols of GetServerNodeConfigs and the options made from them.   *)
(***************************************************************************)
EXTENDS InboundConfig, Sequences, FiniteSets

CONSTANTS
  Confs,             \* configurations
  BootConf,          \* the one in the file at the start
  Unloadable,        \* a content of the file that LoadFromPath refuses
  LogicalTags,       \* tags of nodes
  ListenIPs, Ports,  \* addresses and port numbers of nodes
  MaxSaves,          \* bound: saves of the file
  MaxFaults          \* bound: failures of calls

VARIABLES
  file,      \* what the configuration file holds
  window,    \* the debounce: "shut" before Watch, "open", "settle", "deaf"
  watching,  \* is the file that the watch was put on the one in its place?
  loaded,    \* [conf, nth]: configurations whose callback has not begun
  live,      \* the runtime (vc, nodes, *c) of serverHandle, or Nil
  next,      \* the runtime being built, or Nil
  job,       \* [kind, at, conf, old]: the boot or the reload in progress
  limiters,  \* keys of the limiter registry
  proc,      \* "boot", "running", "exited", "crashed"
  hist       \* [faults, reads, saves, offered, tried, missed, overtaken, leaked]

vars == <<file, window, watching, loaded, live, next, job, limiters, proc, hist>>

Reg == INSTANCE PortRegistry WITH
  Cores <- {"xray", "sing"}, PanelPorts <- Ports,
  Unset <- Unset, Wild4 <- "0.0.0.0", Wild6 <- "::", NoKey <- Nil,
  listeners <- next.listeners, logicalTags <- next.logicalTags, runtimeKeys <- next.runtimeKeys

-----------------------------------------------------------------------------
(* What the configuration file and the panel may hold.                     *)

ConfNames == { c.name : c \in Confs }
FileNodes == UNION { { c.nodes[i] : i \in DOMAIN c.nodes } : c \in Confs }
FileOptions == { n.opt : n \in FileNodes } \ {Nil}

\* The values of the fields are those the file names, but for the fields
\* that UnmarshalJSON itself sets.
Options ==
  [core : {Unset, "xray", "sing"}, coreName : { o.coreName : o \in FileOptions },
   listen : Reg!Addrs \cup {Unset}, send : { o.send : o \in FileOptions },
   xray : { o.xray : o \in FileOptions } \cup {NewXrayOptions},
   sing : { o.sing : o \in FileOptions } \cup {"options"},
   cert : { o.cert : o \in FileOptions }, dynamic : BOOLEAN]

\* A node with the answers of the panel to its client.
NodeConfigs ==
  [tag : LogicalTags, type : { n.type : n \in FileNodes }, opt : Options \cup {Nil},
   proto : { n.proto : n \in FileNodes }, info : { n.info : n \in FileNodes }, users : BOOLEAN]

\* Also those whose options AddNode has pinned to a core.
Configurations ==
  [name : ConfNames, cores : { c.cores : c \in Confs }, nodes : Seq(NodeConfigs), viaPanel : BOOLEAN]

Keys == {"xray", "sing"} \X LogicalTags

Runtimes ==
  [conf : Configurations, ctls : Seq([rk : Keys, tag : LogicalTags]),
   inbounds : SUBSET Keys, entries : SUBSET Keys, listeners : SUBSET Reg!Owner,
   logicalTags : [LogicalTags -> Keys \cup {Nil}], runtimeKeys : SUBSET Keys]

ASSUME ConfsOK == Confs \subseteq Configurations /\ BootConf \in Confs
ASSUME PortsOK == Ports \subseteq Nat /\ \A n \in FileNodes : n.info.port \in Ports
ASSUME NilOK == Nil \notin Configurations /\ Nil \notin Runtimes

-----------------------------------------------------------------------------
NoJob == [kind |-> "none", at |-> "rest", conf |-> Nil, old |-> Nil]

Goto(place) == job' = [job EXCEPT !.at = place]

Fault == hist.faults < MaxFaults /\ hist' = [hist EXCEPT !.faults = @ + 1]

\* A panic in a goroutine without recover, log.Panic included.
Die ==
  /\ proc' = "crashed"
  /\ live' = Nil /\ next' = Nil /\ job' = NoJob /\ loaded' = {} /\ limiters' = {}
  /\ window' = "shut" /\ watching' = FALSE
  /\ UNCHANGED <<file, hist>>

-----------------------------------------------------------------------------
(* Cores.                                                                  *)

Lower(type) == IF type = "Xray" THEN "xray" ELSE type
KnownCore(type) == type \in {"xray", "sing"}

\* xray.New panics on files it cannot use, sing.New returns an error.
getCore(c) == IF c.file = "ok" THEN "ok" ELSE "panic"
singNew(c) == IF c.file = "ok" THEN "ok" ELSE "error"

\* One core is looked up by its exact type, several by the type in lower
\* case, though only an exact type has had its section decoded.
CoreVerdict(several, c) ==
  CASE c.type = "xray" -> getCore(c)
    [] c.type = "sing" -> singNew(c)
    [] OTHER -> IF several /\ KnownCore(Lower(c.type)) THEN "panic" ELSE "error"

NewCoreVerdict(cores) ==
  LET verdicts == [i \in DOMAIN cores |-> CoreVerdict(Len(cores) > 1, cores[i])]
      bad == { i \in DOMAIN cores : verdicts[i] # "ok" }
  IN IF cores = <<>> THEN "error"
     ELSE IF bad = {} THEN "ok"
     ELSE verdicts[CHOOSE i \in bad : \A j \in bad : i <= j]

CoreName(c) == IF c.name = Unset THEN c.type ELSE c.name

\* NewSelector keeps the last core of a name.
SelectorCores(cores) ==
  { cores[i] : i \in { i \in DOMAIN cores :
                         \A j \in DOMAIN cores : j > i => CoreName(cores[j]) # CoreName(cores[i]) } }

ProtocolsOf(core) ==
  IF core = "xray" THEN TcpProtocols \cup {"shadowsocks"} ELSE Protocols \ {"hysteria"}

\* The types of the cores AddNode may hand a node to: a bare core takes
\* every node; the Selector goes through a map in no order, and the last
\* core that fits is it.
Selected(cores, opt, type) ==
  IF Len(cores) = 1 THEN { cores[1].type }
  ELSE { c.type : c \in { c \in SelectorCores(cores) :
           IF opt.coreName # Unset THEN opt.coreName = CoreName(c)
           ELSE IF opt.core = Unset THEN type \in ProtocolsOf(c.type) ELSE opt.core = c.type } }

\* The Selector decodes the options of a node without a core for the core it
\* picked, in place: the node keeps that core from then on.
Pinned(cores, opt, core) ==
  IF Len(cores) > 1 /\ opt.core = Unset THEN UnmarshalOptions([opt EXCEPT !.core = core]) ELSE opt

-----------------------------------------------------------------------------
(* Runtimes and their controllers.                                         *)

NewRuntime(conf) ==
  [conf |-> conf, ctls |-> <<>>, inbounds |-> {}, entries |-> {},
   listeners |-> {}, logicalTags |-> [t \in LogicalTags |-> Nil], runtimeKeys |-> {}]

ReservedIn(r, rk, tag, specs) ==
  [r EXCEPT !.runtimeKeys = @ \cup {rk}, !.logicalTags[tag] = rk,
            !.listeners = @ \cup { Reg!ListenerOwner(s, rk, tag) : s \in Reg!Normalized(specs) }]

ReleasedIn(r, rk) ==
  [r EXCEPT !.runtimeKeys = @ \ {rk},
            !.logicalTags = [t \in LogicalTags |-> IF @[t] = rk THEN Nil ELSE @[t]],
            !.listeners = { e \in @ : e.runtimeKey # rk }]

NodeUp(r, rk)   == [r EXCEPT !.inbounds = @ \cup {rk}, !.entries = @ \cup {rk}]
NodeDown(r, rk) == [r EXCEPT !.inbounds = @ \ {rk}, !.entries = @ \ {rk}]

\* Nil where StartNodes or Start refuses a node before its controller exists.
NodeOptions(conf, n) == IF conf.viaPanel THEN ServerOptions(n.proto) ELSE n.opt

CoreType(conf, n) ==
  LET opt == NodeOptions(conf, n) IN IF opt.core = Unset THEN defaultCoreFor(n.type) ELSE opt.core

\* EnsureCertificate, for a mode it does not have to contact anybody for.
CertRefused(opt, info) == needsCert(protocolSecurity(info)) /\ opt.cert \in {Nil, "missing"}

Steps == <<"fetch", "reserve", "cert", "addNode", "addUsers", "tasks">>
Before(s, t) == \E i, j \in DOMAIN Steps : i < j /\ Steps[i] = s /\ Steps[j] = t

\* The steps at which the start of node n on a core of type core must fail.
Dooms(n, opt, core) ==
  LET rk == Reg!RuntimeKey(CoreType(next.conf, n), n.tag)
      specs == Reg!listenerSpecsFor(n.info.protocol, n.info.port, opt.listen)
      refused == { s \in DOMAIN [fetch |-> 0, reserve |-> 0, cert |-> 0, addUsers |-> 0, tasks |-> 0] :
        CASE s = "fetch"    -> DecodeNode(n.info) # "ok"
          [] s = "reserve"  -> ~Reg!Reservable(rk, n.tag, specs)
          [] s = "cert"     -> CertRefused(opt, n.info)
          [] s = "addUsers" -> n.users /\ AddUsersVerdict(core, n.info) \notin {"ok", "nobody"}
          [] s = "tasks"    -> opt.dynamic }
  IN refused \cup (IF core = Nil \/ AddNodeVerdict(core, opt, n.info) # "ok" THEN {"addNode"} ELSE {})

\* Every call to the panel, the ACME server or a core may fail as well.
MayFail(n) == {"fetch", "addNode"} \cup (IF n.users THEN {"addUsers"} ELSE {})
              \cup (IF needsCert(protocolSecurity(n.info)) THEN {"cert"} ELSE {})

\* Faulty variant: the limiter stays when AddNode panics or fails.
RollbackKeepsLimiter(rk, tag, specs, stop, leak) ==
  /\ next' = [next EXCEPT !.inbounds = @ \cup leak]
  /\ limiters' = IF stop \in {"addNode", "addUsers", "tasks"} THEN limiters \cup {rk} ELSE limiters

\* The deferred closure of Controller.Start, for an error and for a panic
\* alike, undoes in reverse order the steps that were done when the step
\* stop failed.  leak is an inbound AddNode left behind when it failed.
Rollback(rk, tag, specs, stop, leak) ==
  LET reserved     == Before("reserve", stop)
      limiterAdded == Before("cert", stop)
      addedNode    == Before("addNode", stop)
      booked  == IF reserved THEN ReservedIn(next, rk, tag, specs) ELSE next
      upTo    == IF addedNode THEN NodeUp(booked, rk) ELSE [booked EXCEPT !.inbounds = @ \cup leak]
      deleted == IF addedNode THEN NodeDown(upTo, rk) ELSE upTo
  IN /\ next' = IF reserved THEN ReleasedIn(deleted, rk) ELSE deleted
     /\ limiters' = IF limiterAdded THEN (limiters \cup {rk}) \ {rk} ELSE limiters

\* Faulty variant: a node that does not start is skipped.
StartFailedSkips(rk, n, specs, stop, leak) ==
  /\ next' = [next EXCEPT !.ctls = Append(@, [rk |-> rk, tag |-> n.tag])]
  /\ UNCHANGED <<limiters, job>>

\* rollbackControllers follows.
StartFailed(rk, n, specs, stop, leak) ==
  /\ Rollback(rk, n.tag, specs, stop, leak)
  /\ Goto("undo")

\* Controller.Start of the next node in Node.Start or Node.StartNodes.  With
\* viaPanel a failure of the list of protocols counts as the first fetch.
StartController ==
  LET conf == next.conf
      i == Len(next.ctls) + 1
      n == conf.nodes[i]
      opt0 == NodeOptions(conf, n)
  IN /\ job.at = "nodes" /\ i <= Len(conf.nodes)
     /\ IF opt0 = Nil \/ CoreType(conf, n) = Unset
        THEN Goto("undo") /\ UNCHANGED <<next, limiters, hist>>
        ELSE
        LET rk == Reg!RuntimeKey(CoreType(conf, n), n.tag)
            specs == Reg!listenerSpecsFor(n.info.protocol, n.info.port, opt0.listen)
            picks == Selected(conf.cores, opt0, n.type)
        IN \E core \in IF picks = {} THEN {Nil} ELSE picks :
             LET opt == IF core = Nil THEN opt0 ELSE Pinned(conf.cores, opt0, core)
                 doomed == Dooms(n, opt, core)
                 first == { s \in doomed : ~\E t \in doomed : Before(t, s) }
                 pinned == IF conf.viaPanel THEN conf ELSE [conf EXCEPT !.nodes[i].opt = opt]
                 leak == IF core # Nil /\ AddNodeVerdict(core, opt, n.info) = "leak"
                         THEN {rk} ELSE {}
             IN \/ /\ doomed = {}
                   /\ next' = [NodeUp(ReservedIn(next, rk, n.tag, specs), rk) EXCEPT
                                 !.conf = pinned, !.ctls = Append(@, [rk |-> rk, tag |-> n.tag])]
                   /\ limiters' = limiters \cup {rk}
                   /\ UNCHANGED <<job, hist>>
                \/ \E stop \in first :
                     /\ StartFailed(rk, n, specs, stop, leak)
                     /\ hist' = [hist EXCEPT !.leaked = @ \/ stop = "tasks"]
                \/ \E stop \in MayFail(n) :
                     /\ ~\E s \in doomed : s = stop \/ Before(s, stop)
                     /\ Fault
                     /\ StartFailed(rk, n, specs, stop, {})
     /\ UNCHANGED <<file, window, watching, loaded, live, proc>>

\* Controller.Close of the last controller of r; DelNode's error keeps the
\* Selector's entry and nothing else.
Closed(r, delNodeFails) ==
  LET c == r.ctls[Len(r.ctls)]
      down == [NodeDown(r, c.rk) EXCEPT !.entries = IF delNodeFails THEN r.entries ELSE @]
  IN [ReleasedIn(down, c.rk) EXCEPT !.ctls = SubSeq(@, 1, Len(@) - 1)]

CloseLast(r) == limiters' = limiters \ { r.ctls[Len(r.ctls)].rk }

-----------------------------------------------------------------------------
(* reloadProcess and boot.                                                 *)

\* Phase 1.  A core that fails to start is closed by the factory.
BuildCore ==
  /\ job.at = "core"
  /\ \/ /\ NewCoreVerdict(job.conf.cores) = "ok"
        /\ next' = NewRuntime(job.conf)
        /\ Goto(IF job.kind = "new" THEN "closeOld" ELSE "nodes")
        /\ UNCHANGED <<live, proc, hist>>
     \/ /\ \/ NewCoreVerdict(job.conf.cores) = "error" /\ UNCHANGED hist
           \/ NewCoreVerdict(job.conf.cores) = "ok" /\ Fault
        /\ job' = NoJob
        /\ proc' = IF job.kind = "boot" THEN "exited" ELSE proc
        /\ UNCHANGED <<live, next>>
  /\ UNCHANGED <<file, window, watching, loaded, limiters>>

BuildCorePanics == job.at = "core" /\ NewCoreVerdict(job.conf.cores) = "panic" /\ Die

\* Phase 2: oldNodes.Close(), then oldCore.Close().
CloseOldController ==
  /\ job.at = "closeOld" /\ live # Nil /\ live.ctls # <<>>
  /\ \/ live' = Closed(live, FALSE) /\ UNCHANGED hist
     \/ Fault /\ live' = Closed(live, TRUE)
  /\ CloseLast(live)
  /\ UNCHANGED <<file, window, watching, loaded, next, job, proc>>

CloseOldCore ==
  /\ job.at = "closeOld" /\ live # Nil /\ live.ctls = <<>>
  /\ live' = Nil
  /\ Goto("nodes")
  /\ UNCHANGED <<file, window, watching, loaded, next, limiters, proc, hist>>

\* After an offline reload nodes is a nil *node.Node in a non-nil interface:
\* it is closed all the same.
CloseOffline == job.at = "closeOld" /\ live = Nil /\ Die

\* Faulty variant: the runtime is bound and stays the one being built.
SucceedKeepsNext ==
  /\ job.at = "nodes" /\ Len(next.ctls) = Len(next.conf.nodes)
  /\ live' = next
  /\ job' = NoJob
  /\ proc' = "running"
  /\ IF job.kind = "boot" THEN window' = "open" /\ watching' = TRUE ELSE UNCHANGED <<window, watching>>
  /\ UNCHANGED <<file, next, loaded, limiters, hist>>

\* Phase 3 has succeeded, or the restore, or the boot, after which Watch is
\* installed.
Succeed ==
  /\ job.at = "nodes" /\ Len(next.ctls) = Len(next.conf.nodes)
  /\ live' = next /\ next' = Nil
  /\ job' = NoJob
  /\ proc' = "running"
  /\ IF job.kind = "boot" THEN window' = "open" /\ watching' = TRUE ELSE UNCHANGED <<window, watching>>
  /\ UNCHANGED <<file, loaded, limiters, hist>>

\* The boot ends when the file cannot be watched.
WatchFails ==
  /\ job.at = "nodes" /\ Len(next.ctls) = Len(next.conf.nodes) /\ job.kind = "boot"
  /\ Fault
  /\ next' = Nil /\ job' = NoJob /\ limiters' = {}
  /\ proc' = "exited"
  /\ UNCHANGED <<file, window, watching, loaded, live>>

\* rollbackControllers(started).
UndoController ==
  /\ job.at = "undo" /\ next.ctls # <<>>
  /\ \/ next' = Closed(next, FALSE) /\ UNCHANGED hist
     \/ Fault /\ next' = Closed(next, TRUE)
  /\ CloseLast(next)
  /\ UNCHANGED <<file, window, watching, loaded, live, job, proc>>

\* The new core is closed; the old runtime is built again from its
\* configuration, unless this was the attempt to do so: reloadOffline.
UndoCore ==
  /\ job.at = "undo" /\ next.ctls = <<>>
  /\ next' = Nil
  /\ proc' = IF job.kind = "boot" THEN "exited" ELSE proc
  /\ job' = IF job.kind = "new" THEN [job EXCEPT !.kind = "restore", !.at = "core", !.conf = job.old]
            ELSE NoJob
  /\ UNCHANGED <<file, window, watching, loaded, live, limiters, hist>>

-----------------------------------------------------------------------------
(* The configuration file and its watch.                                   *)

\* An event opens a window of ten seconds, in the middle of which the file
\* is read; later events in the window are ignored.  Nobody watches the file
\* before the boot is done.  The watch is on the file, not on its name, and
\* is put there once: a save that puts another file in its place brings the
\* last event there is.
Save(f) ==
  /\ proc \in {"boot", "running"} /\ hist.saves < MaxSaves /\ f # file
  /\ file' = f
  /\ \E replaced \in BOOLEAN : watching' = (watching /\ ~replaced)
  /\ window' = IF window = "open" /\ watching THEN "settle" ELSE window
  /\ hist' = [hist EXCEPT !.saves = @ + 1,
                          !.offered = @ \cup (IF f = Unloadable THEN {} ELSE {f.name}),
                          !.missed = CASE window = "open" -> ~watching
                                       [] window = "settle" -> @
                                       [] OTHER -> TRUE]
  /\ UNCHANGED <<loaded, live, next, job, limiters, proc>>

\* Faulty variant: a configuration that comes while a reload runs is dropped.
ReadUnlessBusy ==
  /\ window = "settle"
  /\ window' = "deaf"
  /\ loaded' = IF file = Unloadable \/ job # NoJob THEN loaded
               ELSE loaded \cup {[conf |-> file, nth |-> hist.reads]}
  /\ hist' = [hist EXCEPT !.reads = @ + 1]
  /\ UNCHANGED <<file, watching, live, next, job, limiters, proc>>

\* LoadFromPath five seconds after the event.
Read ==
  /\ window = "settle"
  /\ window' = "deaf"
  /\ loaded' = IF file = Unloadable THEN loaded
               ELSE loaded \cup {[conf |-> file, nth |-> hist.reads]}
  /\ hist' = [hist EXCEPT !.reads = @ + 1]
  /\ UNCHANGED <<file, watching, live, next, job, limiters, proc>>

Listen ==
  /\ window = "deaf"
  /\ window' = "open"
  /\ UNCHANGED <<file, watching, loaded, live, next, job, limiters, proc, hist>>

\* A callback gets reloadMu; those that wait for it come in no order.
BeginReload ==
  /\ job = NoJob /\ proc = "running"
  /\ \E e \in loaded :
       /\ loaded' = loaded \ {e}
       /\ job' = [kind |-> "new", at |-> "core", conf |-> e.conf,
                  old |-> IF live = Nil THEN Nil ELSE live.conf]
       /\ hist' = [hist EXCEPT !.tried = e.conf.name,
                               !.overtaken = @ \/ \E o \in loaded : o.nth < e.nth]
  /\ UNCHANGED <<file, window, watching, live, next, limiters, proc>>

\* The monitor of a controller whose startTasks failed was not closed, and
\* finds that the rollback has set its limiter to nil.
LeakedMonitor == hist.leaked /\ proc = "running" /\ Die

\* SIGINT or SIGTERM.
Signal ==
  /\ proc = "running"
  /\ proc' = "exited"
  /\ live' = Nil /\ next' = Nil /\ job' = NoJob /\ loaded' = {} /\ limiters' = {}
  /\ window' = "shut" /\ watching' = FALSE
  /\ UNCHANGED <<file, hist>>

Init ==
  /\ file = BootConf
  /\ window = "shut" /\ watching = FALSE /\ loaded = {}
  /\ live = Nil /\ next = Nil
  /\ job = [kind |-> "boot", at |-> "core", conf |-> BootConf, old |-> Nil]
  /\ limiters = {}
  /\ proc = "boot"
  /\ hist = [faults |-> 0, reads |-> 0, saves |-> 0, offered |-> {BootConf.name},
             tried |-> BootConf.name, missed |-> FALSE, overtaken |-> FALSE, leaked |-> FALSE]

Next ==
  \/ BuildCore \/ BuildCorePanics
  \/ CloseOldController \/ CloseOldCore \/ CloseOffline
  \/ StartController \/ Succeed \/ WatchFails
  \/ UndoController \/ UndoCore
  \/ \E f \in Confs \cup {Unloadable} : Save(f)
  \/ Read \/ Listen \/ BeginReload
  \/ LeakedMonitor \/ Signal

Spec == Init /\ [][Next]_vars

-----------------------------------------------------------------------------
(* Properties.                                                             *)

KeysOf(r) == { r.ctls[i].rk : i \in DOMAIN r.ctls }

\* The types of the state; a runtime is built or undone only by a job, and
\* the watch is shut unless the process runs.
TypeOK ==
  /\ file \in Confs \cup {Unloadable}
  /\ window \in {"shut", "open", "settle", "deaf"} /\ watching \in BOOLEAN
  /\ loaded \subseteq [conf : Confs, nth : Nat]
  /\ proc \in {"boot", "running", "exited", "crashed"}
  /\ live \in Runtimes \cup {Nil} /\ next \in Runtimes \cup {Nil}
  /\ next # Nil => Len(next.ctls) <= Len(next.conf.nodes)
  /\ job \in [kind : {"none", "boot", "new", "restore"},
              at : {"rest", "core", "closeOld", "nodes", "undo"},
              conf : Configurations \cup {Nil}, old : Configurations \cup {Nil}]
  /\ job.kind = "none" <=> job.at = "rest"
  /\ next # Nil <=> job.at \in {"closeOld", "nodes", "undo"}
  /\ window # "shut" => proc = "running"
  /\ limiters \subseteq Keys
  /\ hist \in [faults : Nat, reads : Nat, saves : Nat, offered : SUBSET ConfNames, tried : ConfNames,
               missed : BOOLEAN, overtaken : BOOLEAN, leaked : BOOLEAN]
  /\ hist.tried \in hist.offered

AtRest == job = NoJob /\ proc = "running"

\* "undoes successful steps in reverse order" (controller.go:148) and
\* "rollback" (node.go:42): however the starts and stops went, also those
\* that failed in the middle or panicked, what the process has registered
\* when no reload runs is exactly what the bound controllers registered: no
\* limiter, inbound, Selector entry or port of a node that is not there.
BooksMatch ==
  AtRest =>
    /\ limiters = IF live = Nil THEN {} ELSE KeysOf(live)
    /\ live # Nil =>
         /\ live.inbounds = KeysOf(live)
         /\ live.entries = KeysOf(live)
         /\ live.runtimeKeys = KeysOf(live)
         /\ { e.runtimeKey : e \in live.listeners } = KeysOf(live)

\* "invokes reload with a freshly-loaded *Conf each time the file changes"
\* (watch.go:11): when nothing is pending, the configuration last tried is
\* what the file holds, if that can be loaded.  Against that promise a save
\* is lost that falls between the read and the end of its window (or before
\* Watch), and every save after one that replaced the file, which is how the
\* editors of watch.go:19 save (both are missed); and callbacks may get the
\* mutex out of order (overtaken).  Nothing else loses a save.
LastSaveTried ==
  AtRest /\ loaded = {} /\ window # "settle" /\ file # Unloadable =>
    hist.missed \/ hist.overtaken \/ hist.tried = file.name

-----------------------------------------------------------------------------
(* Refinement.                                                             *)

\* What is served, taken from the core and the limiter registry: a
\* configuration is served when each of its nodes is.
Served ==
  IF live = Nil THEN Nil
  ELSE IF \A i \in DOMAIN live.conf.nodes :
            \E rk \in live.inbounds \cap live.entries \cap limiters : rk[2] = live.conf.nodes[i].tag
  THEN live.conf.name ELSE "partial"

\* The old runtime is there until the new cores are.
Phase ==
  CASE job.at = "rest" -> "rest"
    [] job.at = "core" /\ job.kind # "restore" -> "building"
    [] OTHER -> "swapping"

Serving ==
  IF Phase # "swapping" THEN Served
  ELSE IF job.old = Nil THEN Nil ELSE job.old.name

FatalNames == { c.name : c \in { c \in Confs : NewCoreVerdict(c.cores) = "panic" } }

Contract == INSTANCE ReloadContract WITH
  Names <- ConfNames, Fatal <- FatalNames, Offline <- Nil,
  phase <- Phase, serving <- Serving, leaked <- hist.leaked,
  offered <- hist.offered, tried <- hist.tried

\* "(newCore, newNodes) ARE the original old, untouched", "the process is
\* still alive but has no inbound until the next reload event" (reload.go
\* 76-104, server.go:137): every step of the process is one that
\* ReloadContract allows, and it panics at no point but those named there.
KeepsContract == Contract!Spec

=============================================================================

---------------------------- MODULE ProcessProofs ----------------------------
(***************************************************************************)
(* Proofs about the process, for any configurations, any number of saves   *)
(* and any calls that fail: that its registries match the controllers that *)
(* are bound, that a save of the file is tried, and that every step is one *)
(* ReloadContract allows.                                                  *)
(*                                                                         *)
(* The properties speak of the process at rest.  LiveInv and NextInv say   *)
(* what a reload in progress has registered with each of its two runtimes, *)
(* JobInv what it knows of the configurations it goes between, WatchInv    *)
(* what has become of the last save.  That a restore builds cores that     *)
(* have been built before, and so does not panic, is CoresBuilt.           *)
(***************************************************************************)
EXTENDS Process, TLAPS

\* The keys that hold listeners.
Owners(r) == { e.runtimeKey : e \in r.listeners }

\* What the core and the port registry of a runtime have is what its
\* controllers registered.
Registered(r) ==
  /\ r.inbounds = KeysOf(r) /\ r.entries = KeysOf(r) /\ r.runtimeKeys = KeysOf(r)
  /\ Owners(r) = KeysOf(r)

\* No two controllers have a key in common: to close one leaves the others.
Distinct(r) == \A i, j \in DOMAIN r.ctls : r.ctls[i].rk = r.ctls[j].rk => i = j

\* Controllers are started in the order of the nodes.
Tagged(r) == \A i \in DOMAIN r.ctls : r.ctls[i].rk[2] = r.conf.nodes[i].tag

\* Every node is up.
Whole(r) == Registered(r) /\ Distinct(r) /\ Tagged(r) /\ Len(r.ctls) = Len(r.conf.nodes)

\* The runtime that is bound, and whose controllers the limiters are of.
LiveInv ==
  /\ limiters = IF job.at \in {"nodes", "undo"} THEN KeysOf(next)
                ELSE IF live = Nil THEN {} ELSE KeysOf(live)
  /\ live # Nil => Distinct(live) /\ job.at \notin {"nodes", "undo"} /\ proc = "running"
  /\ live # Nil /\ job.at # "closeOld" => Whole(live)

\* The runtime that is being built.
NextInv ==
  /\ next # Nil => Distinct(next)
  /\ job.at = "closeOld" => next.ctls = <<>>
  /\ job.at \in {"closeOld", "nodes"} =>
       Registered(next) /\ Tagged(next) /\ next.conf.name = job.conf.name

\* A reload remembers what was live until it has brought that or its own
\* configuration up.
JobInv ==
  /\ job.kind # "none" => job.conf # Nil
  /\ job.kind = "none" => job = NoJob
  /\ job.kind = "boot" <=> proc = "boot"
  /\ job.kind = "boot" => job.at # "closeOld"
  /\ job.kind \in {"new", "restore"} => proc = "running"
  /\ job.kind = "new" /\ job.at = "core" /\ live # Nil => job.old = live.conf
  /\ job.kind = "new" /\ job.at \in {"core", "closeOld"} => (job.old = Nil <=> live = Nil)
  /\ job.kind = "new" /\ job.at \in {"nodes", "undo"} => job.old # Nil
  /\ job.kind = "restore" => live = Nil /\ job.old # Nil /\ job.conf = job.old /\ job.at # "closeOld"
  /\ job.kind \in {"boot", "new"} => hist.tried = job.conf.name

\* Of the configurations that wait for a reload, the one read last is what
\* the file holds; when none waits, that one was tried.
WatchInv ==
  /\ proc # "running" => live = Nil /\ loaded = {}
  /\ file # Unloadable => file.name \in hist.offered
  /\ \A e \in loaded : e.conf.name \in hist.offered /\ e.nth < hist.reads
  /\ /\ proc \in {"boot", "running"} /\ window # "settle" /\ file # Unloadable
     /\ ~hist.missed /\ ~hist.overtaken
     => /\ loaded = {} => hist.tried = file.name
        /\ \A e \in loaded : (\A o \in loaded : o.nth <= e.nth) => e.conf = file

\* The inductive invariant of the process.
ProcessInv == TypeOK /\ LiveInv /\ NextInv /\ JobInv /\ WatchInv

-----------------------------------------------------------------------------
(* Controllers of a runtime.                                               *)

Ctl == [rk : Keys, tag : LogicalTags]

(* KeysOf after one more controller.                                       *)
LEMMA KeysOfAppended ==
  ASSUME NEW r, NEW s, NEW c, r.ctls \in Seq(Ctl), c \in Ctl, s.ctls = Append(r.ctls, c)
  PROVE  /\ KeysOf(s) = KeysOf(r) \cup {c.rk}
         /\ Len(s.ctls) = Len(r.ctls) + 1 /\ s.ctls[Len(s.ctls)] = c
         /\ \A i \in DOMAIN r.ctls : i \in DOMAIN s.ctls /\ s.ctls[i] = r.ctls[i]
         /\ \A i \in DOMAIN s.ctls : i \in DOMAIN r.ctls \/ i = Len(s.ctls)
         /\ Distinct(r) /\ c.rk \notin KeysOf(r) => Distinct(s)
<1>1. /\ Len(s.ctls) = Len(r.ctls) + 1 /\ s.ctls[Len(s.ctls)] = c
      /\ \A i \in DOMAIN r.ctls : i \in DOMAIN s.ctls /\ s.ctls[i] = r.ctls[i]
      /\ \A i \in DOMAIN s.ctls : i \in DOMAIN r.ctls \/ i = Len(s.ctls)
      /\ Len(s.ctls) \in DOMAIN s.ctls
  OBVIOUS
<1>2. KeysOf(s) = KeysOf(r) \cup {c.rk}
  BY <1>1 DEF KeysOf
<1>3. ASSUME Distinct(r), c.rk \notin KeysOf(r) PROVE Distinct(s)
  BY <1>1, <1>3 DEF Distinct, KeysOf
<1> QED BY <1>1, <1>2, <1>3

(* KeysOf without the last controller.                                     *)
LEMMA KeysOfFront ==
  ASSUME NEW r, NEW s, r.ctls \in Seq(Ctl), r.ctls # <<>>, Distinct(r),
         s.ctls = SubSeq(r.ctls, 1, Len(r.ctls) - 1)
  PROVE  /\ KeysOf(s) = KeysOf(r) \ {r.ctls[Len(r.ctls)].rk} /\ Distinct(s)
         /\ s.ctls \in Seq(Ctl) /\ Len(s.ctls) < Len(r.ctls) /\ Len(r.ctls) \in DOMAIN r.ctls
<1>1. /\ Len(r.ctls) \in Nat \ {0} /\ DOMAIN r.ctls = 1 .. Len(r.ctls)
      /\ DOMAIN s.ctls = 1 .. Len(r.ctls) - 1 /\ s.ctls \in Seq(Ctl) /\ Len(s.ctls) < Len(r.ctls)
      /\ \A i \in DOMAIN s.ctls : s.ctls[i] = r.ctls[i]
  OBVIOUS
<1>0. \A i \in DOMAIN s.ctls : i \in DOMAIN r.ctls /\ i # Len(r.ctls) /\ s.ctls[i].rk = r.ctls[i].rk
  BY <1>1
<1>2. Distinct(s)
  BY <1>0 DEF Distinct
<1>3. KeysOf(s) = KeysOf(r) \ {r.ctls[Len(r.ctls)].rk}
  <2>0. Len(r.ctls) \in DOMAIN r.ctls
    BY <1>1
  <2>1. ASSUME NEW i \in DOMAIN s.ctls
        PROVE  i \in DOMAIN r.ctls /\ s.ctls[i].rk = r.ctls[i].rk /\ r.ctls[i].rk # r.ctls[Len(r.ctls)].rk
    BY <1>0, <2>0, <2>1 DEF Distinct
  <2>2. ASSUME NEW i \in DOMAIN r.ctls, i # Len(r.ctls)
        PROVE  i \in DOMAIN s.ctls /\ s.ctls[i].rk = r.ctls[i].rk
    BY <1>1, <2>2
  <2> QED BY <2>1, <2>2 DEF KeysOf
<1> QED BY <1>1, <1>2, <1>3

(* KeysOf of a runtime without controllers.                                *)
LEMMA KeysOfNone == \A r : r.ctls = <<>> => KeysOf(r) = {} /\ Distinct(r) /\ Tagged(r)
BY DEF KeysOf, Distinct, Tagged

(* The keys of controllers are runtime keys.                               *)
LEMMA KeysOfTyped == \A r \in Runtimes : r.ctls \in Seq(Ctl) /\ KeysOf(r) \subseteq Keys
<1> SUFFICES ASSUME NEW r \in Runtimes PROVE r.ctls \in Seq(Ctl) /\ KeysOf(r) \subseteq Keys
  OBVIOUS
<1>1. r.ctls \in Seq(Ctl)
  BY DEF Runtimes, Ctl
<1>2. \A i \in DOMAIN r.ctls : r.ctls[i] \in Ctl
  BY <1>1
<1> QED BY <1>1, <1>2 DEF KeysOf, Ctl

-----------------------------------------------------------------------------
(* The books of a runtime.                                                 *)

\* The specs of a node's listeners: at least one, each of a legal address
\* and port.
SpecsOK(specs) ==
  /\ Reg!Normalized(specs) # {}
  /\ \A s \in Reg!Normalized(specs), rk \in Keys, tag \in LogicalTags :
       Reg!ListenerOwner(s, rk, tag) \in Reg!Owner

(* listenerSpecsFor, normalised.                                           *)
LEMMA SpecsOfPort ==
  ASSUME NEW protocol, NEW port \in Nat, NEW listen \in Reg!Addrs \cup {Unset}
  PROVE  SpecsOK(Reg!listenerSpecsFor(protocol, port, listen))
<1> DEFINE specs == Reg!listenerSpecsFor(protocol, port, listen)
           ts == Reg!protocolTransports(protocol)
           cut == port % Reg!PortSpace
           addr == Reg!normalizeListenAddr(listen)
<1>1. cut \in 0 .. Reg!PortSpace - 1
  BY DEF Reg!PortSpace
<1>2. ts \subseteq Reg!Transports /\ ts # {}
  BY DEF Reg!protocolTransports, Reg!Transports
<1>3. addr \in Reg!Addrs
  BY DEF Reg!normalizeListenAddr, Reg!Addrs
<1> HIDE DEF cut, ts, addr
<1>4. specs = { [addr |-> listen, port |-> cut, transport |-> t] : t \in ts }
  BY DEF Reg!listenerSpecsFor, Reg!protocolPort, cut, ts
<1> HIDE DEF specs
<1>5. Reg!Normalized(specs) # {}
  <2>1. PICK sp : sp \in specs
    BY <1>2, <1>4
  <2>2. [sp EXCEPT !.addr = Reg!normalizeListenAddr(sp.addr)] \in Reg!Normalized(specs)
    BY <2>1 DEF Reg!Normalized
  <2> QED BY <2>2
<1>6. ASSUME NEW s \in Reg!Normalized(specs), NEW rk \in Keys, NEW tag \in LogicalTags
      PROVE  Reg!ListenerOwner(s, rk, tag) \in Reg!Owner
  <2>1. PICK s1 \in specs : s = [s1 EXCEPT !.addr = Reg!normalizeListenAddr(s1.addr)]
    BY DEF Reg!Normalized
  <2>2. PICK t \in ts : s1 = [addr |-> listen, port |-> cut, transport |-> t]
    BY <1>4
  <2>3. s.addr = addr /\ s.port = cut /\ s.transport = t
    BY <2>1, <2>2 DEF addr
  <2>4. [addr |-> addr, port |-> cut, transport |-> t, runtimeKey |-> rk, logicalTag |-> tag] \in Reg!Owner
    BY <1>1, <1>2, <1>3 DEF Reg!Owner, Reg!RuntimeKeys, Keys
  <2> QED BY <2>3, <2>4 DEF Reg!ListenerOwner
<1> QED BY <1>5, <1>6 DEF SpecsOK, specs

(* The listeners of a node that the file or the panel may hold.            *)
LEMMA NodeSpecs ==
  ASSUME NEW n \in NodeConfigs, NEW listen \in Reg!Addrs \cup {Unset}
  PROVE  SpecsOK(Reg!listenerSpecsFor(n.info.protocol, n.info.port, listen))
<1>1. PICK m \in FileNodes : n.info = m.info
  BY DEF NodeConfigs
<1>2. n.info.port \in Nat
  BY <1>1, PortsOK
<1> QED BY <1>2, SpecsOfPort

(* reserve adds the key and its listeners and nothing else.                *)
LEMMA ReservedBooks ==
  ASSUME NEW r \in Runtimes, NEW rk \in Keys, NEW tag \in LogicalTags, NEW specs, SpecsOK(specs),
         NEW s, s = ReservedIn(r, rk, tag, specs)
  PROVE  /\ s \in Runtimes
         /\ s.conf = r.conf /\ s.ctls = r.ctls /\ s.inbounds = r.inbounds /\ s.entries = r.entries
         /\ s.runtimeKeys = r.runtimeKeys \cup {rk}
         /\ Owners(s) = Owners(r) \cup {rk}
<1> DEFINE new == { Reg!ListenerOwner(sp, rk, tag) : sp \in Reg!Normalized(specs) }
           tags == [r.logicalTags EXCEPT ![tag] = rk]
<1>1. new \subseteq Reg!Owner /\ new # {} /\ \A e \in new : e.runtimeKey = rk
  <2>1. new \subseteq Reg!Owner /\ new # {}
    BY DEF SpecsOK
  <2>2. \A sp : Reg!ListenerOwner(sp, rk, tag).runtimeKey = rk
    BY DEF Reg!ListenerOwner
  <2> QED BY <2>1, <2>2
<1>2. tags \in [LogicalTags -> Keys \cup {Nil}]
  BY DEF Runtimes
<1>3. s = [r EXCEPT !.runtimeKeys = @ \cup {rk}, !.logicalTags = tags, !.listeners = @ \cup new]
  BY DEF ReservedIn, Runtimes
<1> HIDE DEF new, tags
<1>4. r.runtimeKeys \cup {rk} \in SUBSET Keys /\ r.listeners \cup new \in SUBSET Reg!Owner
  BY <1>1 DEF Runtimes
<1>5. /\ s.conf = r.conf /\ s.ctls = r.ctls /\ s.inbounds = r.inbounds /\ s.entries = r.entries
      /\ s.runtimeKeys = r.runtimeKeys \cup {rk}
      /\ s.listeners = r.listeners \cup new
  BY <1>3 DEF Runtimes
<1>6. s \in Runtimes
  BY <1>2, <1>3, <1>4 DEF Runtimes
<1> QED BY <1>1, <1>5, <1>6 DEF Owners

(* release takes away the key and its listeners and nothing else.          *)
LEMMA ReleasedBooks ==
  ASSUME NEW r \in Runtimes, NEW rk, NEW s, s = ReleasedIn(r, rk)
  PROVE  /\ s \in Runtimes
         /\ s.conf = r.conf /\ s.ctls = r.ctls /\ s.inbounds = r.inbounds /\ s.entries = r.entries
         /\ s.runtimeKeys = r.runtimeKeys \ {rk}
         /\ Owners(s) = Owners(r) \ {rk}
<1> DEFINE kept == { e \in r.listeners : e.runtimeKey # rk }
           tags == [t \in LogicalTags |-> IF r.logicalTags[t] = rk THEN Nil ELSE r.logicalTags[t]]
<1>1. kept \subseteq r.listeners /\ { e.runtimeKey : e \in kept } = Owners(r) \ {rk}
  BY DEF Owners
<1>2. tags \in [LogicalTags -> Keys \cup {Nil}]
  BY DEF Runtimes
<1>3. s = [r EXCEPT !.runtimeKeys = @ \ {rk}, !.logicalTags = tags, !.listeners = kept]
  BY DEF ReleasedIn, Runtimes
<1> HIDE DEF kept, tags
<1>4. /\ s \in Runtimes
      /\ s.conf = r.conf /\ s.ctls = r.ctls /\ s.inbounds = r.inbounds /\ s.entries = r.entries
      /\ s.runtimeKeys = r.runtimeKeys \ {rk}
      /\ s.listeners = kept
  BY <1>1, <1>2, <1>3 DEF Runtimes
<1> QED BY <1>1, <1>4 DEF Owners

-----------------------------------------------------------------------------
(* Options and configurations.                                             *)

(* The core a panel-driven node is for, and the address it listens on.     *)
LEMMA ServerOptionsTyped ==
  ASSUME NEW p, ServerOptions(p) # Nil
  PROVE  ServerOptions(p).core \in {"xray", "sing"} /\ ServerOptions(p).listen \in Reg!Addrs
<1>1. defaultCoreFor(p.type) \in {Unset, "xray", "sing"}
  BY DEF defaultCoreFor
<1>2. defaultCoreFor(p.type) # Unset
  BY DEF ServerOptions
<1> DEFINE c == defaultCoreFor(p.type)
           l == IF c = "sing" THEN "::" ELSE "0.0.0.0"
<1>3. PICK x, y, z : ServerOptions(p) =
        [core |-> c, coreName |-> Unset, send |-> Unset, dynamic |-> FALSE, sing |-> Nil,
         listen |-> l, xray |-> x, cert |-> y]
  BY DEF ServerOptions
<1> HIDE DEF c, l
<1>4. ServerOptions(p).core = c /\ ServerOptions(p).listen = l
  BY <1>3
<1>5. l \in Reg!Addrs
  BY DEF l, Reg!Addrs
<1> QED BY <1>1, <1>2, <1>4, <1>5 DEF c

(* The options a node is started with, and the core its key is made of.    *)
LEMMA NodeOptionsTyped ==
  ASSUME NEW conf \in Configurations, NEW n \in NodeConfigs, NodeOptions(conf, n) # Nil
  PROVE  /\ NodeOptions(conf, n).listen \in Reg!Addrs \cup {Unset}
         /\ CoreType(conf, n) \in {Unset, "xray", "sing"}
         /\ ~conf.viaPanel => NodeOptions(conf, n) \in Options
<1> DEFINE opt == NodeOptions(conf, n)
<1>1. defaultCoreFor(n.type) \in {Unset, "xray", "sing"}
  BY DEF defaultCoreFor
<1>2. CoreType(conf, n) = IF opt.core = Unset THEN defaultCoreFor(n.type) ELSE opt.core
  BY DEF CoreType
<1>3. CASE conf.viaPanel
  <2>1. opt = ServerOptions(n.proto)
    BY <1>3 DEF NodeOptions
  <2> HIDE DEF opt
  <2> QED BY <1>1, <1>2, <1>3, <2>1, ServerOptionsTyped DEF opt
<1>4. CASE ~conf.viaPanel
  <2>1. opt \in Options
    BY <1>4 DEF NodeOptions, NodeConfigs
  <2>2. opt.listen \in Reg!Addrs \cup {Unset} /\ opt.core \in {Unset, "xray", "sing"}
    BY <2>1 DEF Options
  <2> HIDE DEF opt
  <2> QED BY <1>1, <1>2, <2>1, <2>2 DEF opt
<1> QED BY <1>3, <1>4

(* The Selector's decoding of options for the core it has picked.          *)
LEMMA PinnedTyped ==
  ASSUME NEW opt \in Options, NEW cores, NEW core
  PROVE  Pinned(cores, opt, core) \in Options
<1> DEFINE c == IF core \in {"xray", "sing"} THEN core ELSE Unset
           x == IF core = "xray" THEN NewXrayOptions ELSE opt.xray
           g == IF core = "sing" THEN "options" ELSE opt.sing
<1>1. UnmarshalOptions([opt EXCEPT !.core = core]) = [opt EXCEPT !.core = c, !.xray = x, !.sing = g]
  BY DEF UnmarshalOptions, Options
<1>2. /\ c \in {Unset, "xray", "sing"}
      /\ x \in { o.xray : o \in FileOptions } \cup {NewXrayOptions}
      /\ g \in { o.sing : o \in FileOptions } \cup {"options"}
  BY DEF Options
<1> HIDE DEF c, x, g
<1>3. UnmarshalOptions([opt EXCEPT !.core = core]) \in Options
  BY <1>1, <1>2 DEF Options
<1> QED BY <1>3 DEF Pinned

(* A configuration with the options of a node replaced.                    *)
LEMMA RepinnedConf ==
  ASSUME NEW conf \in Configurations, NEW i \in DOMAIN conf.nodes, NEW o \in Options \cup {Nil},
         NEW c, c = [conf EXCEPT !.nodes[i].opt = o]
  PROVE  /\ c \in Configurations /\ c.name = conf.name /\ Len(c.nodes) = Len(conf.nodes)
         /\ c.cores = conf.cores
         /\ \A j \in DOMAIN conf.nodes : c.nodes[j].tag = conf.nodes[j].tag
<1> DEFINE n == [conf.nodes[i] EXCEPT !.opt = o]
           ns == [conf.nodes EXCEPT ![i] = n]
<1>1. conf.nodes \in Seq(NodeConfigs) /\ conf.nodes[i] \in NodeConfigs
  BY DEF Configurations
<1>2. n \in NodeConfigs /\ n.tag = conf.nodes[i].tag
  BY <1>1 DEF NodeConfigs
<1>3. c = [conf EXCEPT !.nodes = ns]
  BY DEF Configurations
<1> HIDE DEF n
<1>4. /\ ns \in Seq(NodeConfigs) /\ Len(ns) = Len(conf.nodes)
      /\ \A j \in DOMAIN conf.nodes : ns[j] = IF j = i THEN n ELSE conf.nodes[j]
  BY <1>1, <1>2
<1> HIDE DEF ns
<1>5. c \in Configurations /\ c.name = conf.name /\ c.cores = conf.cores /\ c.nodes = ns
  BY <1>3, <1>4 DEF Configurations
<1> QED BY <1>2, <1>4, <1>5

-----------------------------------------------------------------------------
(* The start and the stop of a controller.                                 *)

\* A step that has to do with no save and no attempt of a reload.
HistKept ==
  /\ hist' \in [faults : Nat, reads : Nat, saves : Nat, offered : SUBSET ConfNames, tried : ConfNames,
                missed : BOOLEAN, overtaken : BOOLEAN, leaked : BOOLEAN]
  /\ hist'.offered = hist.offered /\ hist'.tried = hist.tried /\ hist'.reads = hist.reads
  /\ hist'.missed = hist.missed /\ hist'.overtaken = hist.overtaken
  /\ hist.leaked => hist'.leaked

(* A failure is no save and no attempt.                                    *)
LEMMA FaultKept == TypeOK /\ (Fault \/ UNCHANGED hist) => HistKept
BY DEF TypeOK, Fault, HistKept

(* Nor does it leave a task behind.                                        *)
LEMMA FaultLeaksNot == TypeOK /\ (Fault \/ UNCHANGED hist) => hist'.leaked = hist.leaked
BY DEF TypeOK, Fault

(* AddNode and DelNode of a core, as the runtime has them.                 *)
LEMMA NodeUpDown ==
  ASSUME NEW r \in Runtimes, NEW rk \in Keys
  PROVE  /\ NodeUp(r, rk) \in Runtimes /\ NodeDown(r, rk) \in Runtimes
         /\ NodeUp(r, rk).inbounds = r.inbounds \cup {rk} /\ NodeUp(r, rk).entries = r.entries \cup {rk}
         /\ NodeUp(r, rk).conf = r.conf /\ NodeDown(r, rk).conf = r.conf
         /\ NodeUp(r, rk).ctls = r.ctls /\ NodeDown(r, rk).ctls = r.ctls
         /\ NodeUp(r, rk).runtimeKeys = r.runtimeKeys /\ NodeUp(r, rk).listeners = r.listeners
<1>1. /\ r.inbounds \cup {rk} \in SUBSET Keys /\ r.inbounds \ {rk} \in SUBSET Keys
      /\ r.entries \cup {rk} \in SUBSET Keys /\ r.entries \ {rk} \in SUBSET Keys
  BY DEF Runtimes
<1>2. NodeUp(r, rk) \in Runtimes /\ NodeDown(r, rk) \in Runtimes
  BY <1>1 DEF Runtimes, NodeUp, NodeDown
<1> QED BY <1>1, <1>2 DEF Runtimes, NodeUp, NodeDown

(* The limiter is added after the reservation is made.                     *)
LEMMA ReserveFirst == \A stop : Before("cert", stop) => Before("reserve", stop)
<1> SUFFICES ASSUME NEW stop, Before("cert", stop) PROVE Before("reserve", stop)
  OBVIOUS
<1>1. PICK i, j \in DOMAIN Steps : i < j /\ Steps[i] = "cert" /\ Steps[j] = stop
  BY DEF Before
<1>2. DOMAIN Steps = 1 .. 6 /\ Steps[2] = "reserve" /\ i = 3
  BY <1>1 DEF Steps
<1>3. 2 \in DOMAIN Steps /\ 2 < j
  BY <1>1, <1>2
<1> QED BY <1>1, <1>2, <1>3 DEF Before

(* A node whose key is on the books cannot reserve.                        *)
LEMMA TakenIsRefused ==
  ASSUME NEW n, NEW opt, NEW core, "reserve" \notin Dooms(n, opt, core)
  PROVE  Reg!RuntimeKey(CoreType(next.conf, n), n.tag) \notin next.runtimeKeys
BY DEF Dooms, Reg!Reservable

(* The deferred closure of Controller.Start leaves the books but for an    *)
(* inbound that AddNode leaked, and the limiters of other controllers.     *)
LEMMA RollbackUndoes ==
  ASSUME next \in Runtimes, NEW rk \in Keys, NEW tag \in LogicalTags, NEW specs, SpecsOK(specs),
         NEW stop, NEW leak \in SUBSET {rk}, Before("cert", stop) => rk \notin limiters,
         Rollback(rk, tag, specs, stop, leak)
  PROVE  /\ next' \in Runtimes /\ next'.conf = next.conf /\ next'.ctls = next.ctls
         /\ UNCHANGED limiters
<1> DEFINE booked == IF Before("reserve", stop) THEN ReservedIn(next, rk, tag, specs) ELSE next
           upTo == IF Before("addNode", stop) THEN NodeUp(booked, rk)
                   ELSE [booked EXCEPT !.inbounds = @ \cup leak]
           deleted == IF Before("addNode", stop) THEN NodeDown(upTo, rk) ELSE upTo
<1>1. booked \in Runtimes /\ booked.conf = next.conf /\ booked.ctls = next.ctls
  BY ReservedBooks
<1> HIDE DEF booked
<1>2. upTo \in Runtimes /\ upTo.conf = next.conf /\ upTo.ctls = next.ctls
  <2>1. booked.inbounds \cup leak \in SUBSET Keys
    BY <1>1 DEF Runtimes
  <2>2. /\ [booked EXCEPT !.inbounds = @ \cup leak] \in Runtimes
        /\ [booked EXCEPT !.inbounds = @ \cup leak].conf = booked.conf
        /\ [booked EXCEPT !.inbounds = @ \cup leak].ctls = booked.ctls
    BY <1>1, <2>1 DEF Runtimes
  <2> QED BY <1>1, <2>2, NodeUpDown
<1> HIDE DEF upTo
<1>3. deleted \in Runtimes /\ deleted.conf = next.conf /\ deleted.ctls = next.ctls
  BY <1>2, NodeUpDown
<1>4. /\ next' = IF Before("reserve", stop) THEN ReleasedIn(deleted, rk) ELSE deleted
      /\ limiters' = IF Before("cert", stop) THEN (limiters \cup {rk}) \ {rk} ELSE limiters
  BY DEF Rollback, deleted, upTo, booked
<1> HIDE DEF deleted
<1> QED BY <1>3, <1>4, ReleasedBooks

\* The next node is up.
Started(rk, conf) ==
  LET n == next.conf.nodes[Len(next.ctls) + 1] IN
  /\ rk \in Keys /\ rk \notin next.runtimeKeys /\ rk[2] = n.tag
  /\ conf.name = next.conf.name /\ Len(conf.nodes) = Len(next.conf.nodes)
  /\ conf.cores = next.conf.cores
  /\ \A j \in DOMAIN next.conf.nodes : conf.nodes[j].tag = next.conf.nodes[j].tag
  /\ next' \in Runtimes
  /\ next'.conf = conf
  /\ next'.ctls = Append(next.ctls, [rk |-> rk, tag |-> n.tag]) /\ n.tag \in LogicalTags
  /\ next'.inbounds = next.inbounds \cup {rk} /\ next'.entries = next.entries \cup {rk}
  /\ next'.runtimeKeys = next.runtimeKeys \cup {rk}
  /\ Owners(next') = Owners(next) \cup {rk}
  /\ limiters' = limiters \cup {rk}
  /\ UNCHANGED job

\* Nothing of it is left that UndoController would not take away.
NotStarted ==
  /\ next' \in Runtimes /\ next'.conf = next.conf /\ next'.ctls = next.ctls
  /\ UNCHANGED limiters
  /\ Goto("undo")

(* Controller.Start has brought the next node up or has undone its steps.  *)
LEMMA StartOutcome ==
  ASSUME TypeOK, LiveInv, NextInv, StartController
  PROVE  /\ job.at = "nodes" /\ Len(next.ctls) + 1 \in DOMAIN next.conf.nodes
         /\ UNCHANGED <<file, window, watching, loaded, live, proc>> /\ HistKept
         /\ NotStarted \/ \E rk, conf : Started(rk, conf)
<1> DEFINE conf == next.conf
           i == Len(next.ctls) + 1
           n == conf.nodes[i]
           opt0 == NodeOptions(conf, n)
           rk == Reg!RuntimeKey(CoreType(conf, n), n.tag)
           specs == Reg!listenerSpecsFor(n.info.protocol, n.info.port, opt0.listen)
<1>1. /\ job.at = "nodes" /\ i <= Len(conf.nodes)
      /\ UNCHANGED <<file, window, watching, loaded, live, proc>>
  BY DEF StartController
<1>2. next \in Runtimes /\ next # Nil
  BY <1>1 DEF TypeOK
<1>3. conf \in Configurations /\ next.ctls \in Seq(Ctl)
  BY <1>2, KeysOfTyped DEF Runtimes
<1>4. i \in DOMAIN conf.nodes /\ n \in NodeConfigs /\ n.tag \in LogicalTags
  <2>1. conf.nodes \in Seq(NodeConfigs)
    BY <1>3 DEF Configurations
  <2>2. i \in DOMAIN conf.nodes /\ n \in NodeConfigs
    BY <1>1, <1>3, <2>1
  <2> QED BY <2>2 DEF NodeConfigs
<1>5. limiters = next.runtimeKeys
  BY <1>1 DEF LiveInv, NextInv, Registered
<1>6. CASE opt0 = Nil \/ CoreType(conf, n) = Unset
  <2>1. Goto("undo") /\ UNCHANGED <<next, limiters, hist>>
    BY <1>6 DEF StartController
  <2> QED BY <1>1, <1>2, <1>4, <2>1, FaultKept DEF NotStarted
<1>7. CASE ~(opt0 = Nil \/ CoreType(conf, n) = Unset)
  <2>1. /\ opt0.listen \in Reg!Addrs \cup {Unset}
        /\ CoreType(conf, n) \in {"xray", "sing"}
        /\ ~conf.viaPanel => opt0 \in Options
    BY <1>3, <1>4, <1>7, NodeOptionsTyped
  <2>2. rk \in Keys /\ rk[2] = n.tag /\ SpecsOK(specs)
    BY <1>4, <2>1, NodeSpecs DEF Reg!RuntimeKey, Keys
  <2>3. PICK core :
          LET opt == IF core = Nil THEN opt0 ELSE Pinned(conf.cores, opt0, core)
              doomed == Dooms(n, opt, core)
              pinned == IF conf.viaPanel THEN conf ELSE [conf EXCEPT !.nodes[i].opt = opt]
          IN \/ /\ doomed = {}
                /\ next' = [NodeUp(ReservedIn(next, rk, n.tag, specs), rk) EXCEPT
                              !.conf = pinned, !.ctls = Append(@, [rk |-> rk, tag |-> n.tag])]
                /\ limiters' = limiters \cup {rk}
                /\ UNCHANGED <<job, hist>>
             \/ \E stop, leak :
                  /\ leak \in SUBSET {rk}
                  /\ Before("reserve", stop) => "reserve" \notin doomed
                  /\ StartFailed(rk, n, specs, stop, leak)
                  /\ Fault \/ hist' = [hist EXCEPT !.leaked = @ \/ stop = "tasks"]
    <3>1. PICK core \in IF Selected(conf.cores, opt0, n.type) = {} THEN {Nil} ELSE Selected(conf.cores, opt0, n.type) :
            LET opt == IF core = Nil THEN opt0 ELSE Pinned(conf.cores, opt0, core)
                doomed == Dooms(n, opt, core)
                first == { s \in doomed : ~\E t \in doomed : Before(t, s) }
                pinned == IF conf.viaPanel THEN conf ELSE [conf EXCEPT !.nodes[i].opt = opt]
                leak == IF core # Nil /\ AddNodeVerdict(core, opt, n.info) = "leak" THEN {rk} ELSE {}
            IN \/ /\ doomed = {}
                  /\ next' = [NodeUp(ReservedIn(next, rk, n.tag, specs), rk) EXCEPT
                                !.conf = pinned, !.ctls = Append(@, [rk |-> rk, tag |-> n.tag])]
                  /\ limiters' = limiters \cup {rk}
                  /\ UNCHANGED <<job, hist>>
               \/ \E stop \in first :
                    /\ StartFailed(rk, n, specs, stop, leak)
                    /\ hist' = [hist EXCEPT !.leaked = @ \/ stop = "tasks"]
               \/ \E stop \in MayFail(n) :
                    /\ ~\E s \in doomed : s = stop \/ Before(s, stop)
                    /\ Fault
                    /\ StartFailed(rk, n, specs, stop, {})
      BY <1>7 DEF StartController
    <3> DEFINE opt == IF core = Nil THEN opt0 ELSE Pinned(conf.cores, opt0, core)
               doomed == Dooms(n, opt, core)
               leaked == IF core # Nil /\ AddNodeVerdict(core, opt, n.info) = "leak" THEN {rk} ELSE {}
    <3>2. leaked \in SUBSET {rk} /\ {} \in SUBSET {rk}
      OBVIOUS
    <3> HIDE DEF leaked, doomed
    <3>3. ASSUME NEW stop \in { s \in doomed : ~\E t \in doomed : Before(t, s) }
          PROVE  Before("reserve", stop) => "reserve" \notin doomed
      OBVIOUS
    <3>4. ASSUME NEW stop, ~\E s \in doomed : s = stop \/ Before(s, stop)
          PROVE  Before("reserve", stop) => "reserve" \notin doomed
      BY <3>4
    <3> HIDE DEF opt, rk, specs, conf, n
    <3> QED BY <3>1, <3>2, <3>3, <3>4 DEF leaked, doomed, opt
  <2> DEFINE opt == IF core = Nil THEN opt0 ELSE Pinned(conf.cores, opt0, core)
             doomed == Dooms(n, opt, core)
             pinned == IF conf.viaPanel THEN conf ELSE [conf EXCEPT !.nodes[i].opt = opt]
  <2>4. "reserve" \notin doomed => rk \notin next.runtimeKeys
    BY TakenIsRefused
  <2>5. CASE /\ doomed = {}
             /\ next' = [NodeUp(ReservedIn(next, rk, n.tag, specs), rk) EXCEPT
                           !.conf = pinned, !.ctls = Append(@, [rk |-> rk, tag |-> n.tag])]
             /\ limiters' = limiters \cup {rk}
             /\ UNCHANGED <<job, hist>>
    <3>1. /\ pinned \in Configurations /\ pinned.name = conf.name /\ Len(pinned.nodes) = Len(conf.nodes)
          /\ pinned.cores = conf.cores
          /\ \A j \in DOMAIN conf.nodes : pinned.nodes[j].tag = conf.nodes[j].tag
      BY <1>3, <1>4, <2>1, PinnedTyped, RepinnedConf
    <3> HIDE DEF rk, specs, n
    <3> DEFINE booked == ReservedIn(next, rk, n.tag, specs)
               up == NodeUp(booked, rk)
               ctls == Append(next.ctls, [rk |-> rk, tag |-> n.tag])
    <3>2. /\ booked \in Runtimes
          /\ booked.conf = next.conf /\ booked.ctls = next.ctls
          /\ booked.inbounds = next.inbounds /\ booked.entries = next.entries
          /\ booked.runtimeKeys = next.runtimeKeys \cup {rk}
          /\ Owners(booked) = Owners(next) \cup {rk}
      <4>1. booked = ReservedIn(next, rk, n.tag, specs)
        OBVIOUS
      <4> HIDE DEF booked
      <4>2. next \in Runtimes /\ rk \in Keys /\ n.tag \in LogicalTags /\ SpecsOK(specs)
        BY <1>2, <1>4, <2>2
      <4> DEFINE tag == n.tag
      <4>3. booked = ReservedIn(next, rk, tag, specs) /\ tag \in LogicalTags
        BY <4>1, <4>2
      <4> HIDE DEF tag
      <4> QED BY <4>2, <4>3, ReservedBooks
    <3> HIDE DEF booked
    <3>3. /\ up \in Runtimes /\ up.ctls = next.ctls
          /\ up.inbounds = next.inbounds \cup {rk} /\ up.entries = next.entries \cup {rk}
          /\ up.runtimeKeys = next.runtimeKeys \cup {rk} /\ up.listeners = booked.listeners
      <4>1. booked \in Runtimes /\ rk \in Keys
        BY <2>2, <3>2
      <4> QED BY <3>2, <4>1, NodeUpDown
    <3>4. ctls \in Seq(Ctl)
      BY <1>3, <1>4, <2>2 DEF Ctl
    <3> HIDE DEF ctls, pinned
    <3>5. next' = [up EXCEPT !.conf = pinned, !.ctls = ctls]
      BY <2>5, <3>3 DEF ctls, booked
    <3> HIDE DEF up
    <3>6. /\ next' \in Runtimes /\ next'.conf = pinned /\ next'.ctls = ctls
          /\ next'.inbounds = up.inbounds /\ next'.entries = up.entries
          /\ next'.runtimeKeys = up.runtimeKeys /\ next'.listeners = up.listeners
      BY <3>1, <3>3, <3>4, <3>5 DEF Runtimes, Ctl
    <3>7. Owners(next') = Owners(next) \cup {rk}
      BY <3>2, <3>3, <3>6 DEF Owners
    <3>8. rk \notin next.runtimeKeys
      BY <2>4, <2>5
    <3>9. Started(rk, pinned)
      BY <1>4, <2>2, <2>5, <3>1, <3>2, <3>3, <3>6, <3>7, <3>8 DEF Started, ctls, n
    <3> QED BY <1>1, <1>4, <2>5, <3>9, FaultKept
  <2>6. ASSUME NEW stop, NEW leak \in SUBSET {rk}, Before("reserve", stop) => "reserve" \notin doomed,
               StartFailed(rk, n, specs, stop, leak),
               Fault \/ hist' = [hist EXCEPT !.leaked = @ \/ stop = "tasks"]
        PROVE  NotStarted /\ HistKept
    <3>1. Before("cert", stop) => rk \notin limiters
      BY <1>5, <2>4, <2>6, ReserveFirst
    <3>2. Rollback(rk, n.tag, specs, stop, leak) /\ Goto("undo")
      BY <2>6 DEF StartFailed
    <3>3. NotStarted
      <4> HIDE DEF rk, specs
      <4> QED BY <1>2, <1>4, <2>2, <3>1, <3>2, RollbackUndoes DEF NotStarted
    <3>4. HistKept
      <4> DEFINE l == hist.leaked \/ stop = "tasks"
      <4>1. l \in BOOLEAN /\ (hist.leaked => l)
        OBVIOUS
      <4>2. Fault \/ hist' = [hist EXCEPT !.leaked = l]
        BY <2>6
      <4> HIDE DEF l
      <4> QED BY <4>1, <4>2, FaultKept DEF HistKept, TypeOK
    <3> QED BY <3>3, <3>4
  <2> HIDE DEF opt, doomed, pinned
  <2> QED BY <1>1, <1>4, <2>3, <2>5, <2>6 DEF opt, doomed, pinned
<1> QED BY <1>6, <1>7

(* Controller.Close of the last controller: its key is off the books, also *)
(* when DelNode fails, and so is its limiter.                              *)
LEMMA ClosedBooks ==
  ASSUME NEW r \in Runtimes, r.ctls # <<>>, Distinct(r), NEW b \in BOOLEAN, NEW s, s = Closed(r, b)
  PROVE  /\ s \in Runtimes /\ s.conf = r.conf
         /\ KeysOf(s) = KeysOf(r) \ {r.ctls[Len(r.ctls)].rk} /\ Distinct(s)
         /\ Len(s.ctls) <= Len(r.ctls)
<1> DEFINE rk == r.ctls[Len(r.ctls)].rk
           down == [NodeDown(r, rk) EXCEPT !.entries = IF b THEN r.entries ELSE @]
           freed == ReleasedIn(down, rk)
           front == SubSeq(r.ctls, 1, Len(r.ctls) - 1)
<1>1. r.ctls \in Seq(Ctl)
  BY KeysOfTyped
<1>2. rk \in Keys /\ front \in Seq(Ctl)
  <2>1. Len(r.ctls) \in DOMAIN r.ctls /\ front \in Seq(Ctl)
    BY <1>1
  <2>2. r.ctls[Len(r.ctls)] \in Ctl
    BY <1>1, <2>1
  <2> QED BY <2>1, <2>2 DEF Ctl
<1> HIDE DEF rk, front
<1>3. down \in Runtimes /\ down.conf = r.conf /\ down.ctls = r.ctls
  <2> DEFINE nd == NodeDown(r, rk)
             es == IF b THEN r.entries ELSE nd.entries
  <2>1. nd \in Runtimes /\ nd.conf = r.conf /\ nd.ctls = r.ctls
    BY <1>2, NodeUpDown
  <2>2. es \in SUBSET Keys
    BY <2>1 DEF Runtimes
  <2>3. down = [nd EXCEPT !.entries = es]
    BY <2>1 DEF Runtimes
  <2> HIDE DEF nd, es, down
  <2> QED BY <2>1, <2>2, <2>3 DEF Runtimes
<1> HIDE DEF down
<1>4. freed \in Runtimes /\ freed.conf = r.conf /\ freed.ctls = r.ctls
  BY <1>3, ReleasedBooks
<1> HIDE DEF freed
<1>5. s = [freed EXCEPT !.ctls = front]
  BY <1>4 DEF Closed, freed, down, front, rk
<1>6. s \in Runtimes /\ s.conf = r.conf /\ s.ctls = front
  BY <1>2, <1>4, <1>5 DEF Runtimes, Ctl
<1>7. KeysOf(s) = KeysOf(r) \ {rk} /\ Distinct(s) /\ Len(s.ctls) < Len(r.ctls)
  BY <1>1, <1>6, KeysOfFront DEF front, rk
<1>8. Len(s.ctls) \in Nat /\ Len(r.ctls) \in Nat
  BY <1>1, <1>2, <1>6
<1> QED BY <1>6, <1>7, <1>8 DEF rk

-----------------------------------------------------------------------------
(* The steps of a boot or a reload.                                        *)

(* The boot begins with nothing registered.                                *)
LEMMA InitProcess == Init => ProcessInv
<1> SUFFICES ASSUME Init PROVE ProcessInv
  OBVIOUS
<1>1. BootConf \in Confs /\ BootConf \in Configurations /\ BootConf # Nil /\ BootConf.name \in ConfNames
  BY ConfsOK, NilOK DEF ConfNames
<1>2. TypeOK
  BY <1>1 DEF Init, TypeOK
<1>3. LiveInv /\ NextInv /\ JobInv /\ WatchInv
  BY <1>1, <1>2 DEF Init, TypeOK, LiveInv, NextInv, JobInv, WatchInv
<1> QED BY <1>2, <1>3 DEF ProcessInv

(* The end of the process: nothing is left of it but the file.             *)
LEMMA EndKeeps ==
  ASSUME ProcessInv, proc' \in {"exited", "crashed"},
         live' = Nil, next' = Nil, job' = NoJob, loaded' = {}, limiters' = {}, window' = "shut",
         watching' \in BOOLEAN, HistKept, UNCHANGED file
  PROVE  ProcessInv'
<1>1. TypeOK'
  BY DEF ProcessInv, TypeOK, HistKept, NoJob
<1>2. LiveInv' /\ NextInv' /\ JobInv' /\ WatchInv'
  BY <1>1 DEF ProcessInv, TypeOK, LiveInv, NextInv, JobInv, WatchInv, HistKept, NoJob
<1> QED BY <1>1, <1>2 DEF ProcessInv

(* A panic or a signal.                                                    *)
LEMMA DieKeeps ==
  ASSUME ProcessInv, Die \/ Signal
  PROVE  ProcessInv'
<1>1. HistKept
  BY FaultKept DEF Die, Signal, ProcessInv
<1> QED BY <1>1, EndKeeps DEF Die, Signal

(* What the watch and its callbacks see is not touched by a boot or a      *)
(* reload in progress, nor by the end of a boot.                           *)
LEMMA WatchKept ==
  ASSUME ProcessInv, HistKept, UNCHANGED <<file, loaded>>,
         window' = window \/ (window = "shut" /\ window' = "open"),
         proc' = proc \/ proc = "boot", proc' = "running" \/ live' = Nil
  PROVE  WatchInv'
BY DEF ProcessInv, TypeOK, WatchInv, HistKept

(* Phase 1: the new core is there beside the old runtime, or the old one   *)
(* stays bound.                                                            *)
LEMMA BuildCoreKeeps ==
  ASSUME ProcessInv, BuildCore
  PROVE  ProcessInv'
<1>0. TypeOK /\ LiveInv /\ NextInv /\ JobInv /\ WatchInv
  BY DEF ProcessInv
<1>1. job.at = "core" /\ job.conf \in Configurations /\ UNCHANGED <<file, window, watching, loaded, limiters>>
  BY <1>0 DEF BuildCore, TypeOK, JobInv
<1>2. CASE /\ next' = NewRuntime(job.conf)
           /\ Goto(IF job.kind = "new" THEN "closeOld" ELSE "nodes")
           /\ UNCHANGED <<live, proc, hist>>
  <2> DEFINE to == IF job.kind = "new" THEN "closeOld" ELSE "nodes"
  <2>1. job' = [job EXCEPT !.at = to] /\ to \in {"closeOld", "nodes"}
    BY <1>2 DEF Goto
  <2>2. to = "closeOld" <=> job.kind = "new"
    OBVIOUS
  <2> HIDE DEF to
  <2>3. /\ next' \in Runtimes /\ next'.conf = job.conf /\ next'.ctls = <<>>
        /\ next'.inbounds = {} /\ next'.entries = {} /\ next'.runtimeKeys = {} /\ next'.listeners = {}
    BY <1>1, <1>2 DEF NewRuntime, Runtimes
  <2>4. next' # Nil /\ Owners(next') = {} /\ Len(next'.ctls) = 0 /\ Len(job.conf.nodes) \in Nat
    BY <1>1, <2>3, NilOK DEF Owners, Configurations
  <2>5. KeysOf(next') = {} /\ Distinct(next') /\ Tagged(next')
    BY <2>3, KeysOfNone
  <2>6. TypeOK'
    BY <1>0, <1>1, <1>2, <2>1, <2>3, <2>4 DEF TypeOK
  <2>7. LiveInv'
    BY <1>0, <1>1, <1>2, <2>1, <2>2, <2>5 DEF TypeOK, LiveInv, JobInv
  <2>8. NextInv'
    BY <1>0, <1>1, <2>1, <2>3, <2>4, <2>5 DEF TypeOK, NextInv, Registered
  <2>9. JobInv'
    BY <1>0, <1>1, <1>2, <2>1, <2>2 DEF TypeOK, JobInv, NoJob
  <2>10. WatchInv'
    BY <1>0, <1>1, <1>2, FaultKept, WatchKept DEF WatchInv, ProcessInv
  <2> QED BY <2>6, <2>7, <2>8, <2>9, <2>10 DEF ProcessInv
<1>3. CASE /\ UNCHANGED hist \/ Fault
           /\ job' = NoJob
           /\ proc' = IF job.kind = "boot" THEN "exited" ELSE proc
           /\ UNCHANGED <<live, next>>
  <2>1. HistKept
    BY <1>0, <1>3, FaultKept
  <2>2. TypeOK'
    BY <1>0, <1>1, <1>3, <2>1 DEF TypeOK, HistKept, NoJob, JobInv
  <2>3. LiveInv' /\ NextInv' /\ JobInv'
    BY <1>0, <1>1, <1>3, <2>1 DEF TypeOK, LiveInv, NextInv, JobInv, NoJob
  <2>4. WatchInv'
    BY <1>0, <1>1, <1>3, <2>1, WatchKept DEF WatchInv, JobInv, ProcessInv
  <2> QED BY <2>2, <2>3, <2>4 DEF ProcessInv
<1> QED BY <1>2, <1>3 DEF BuildCore

(* Phase 2: the old controllers go, with their limiters.                   *)
LEMMA CloseOldKeeps ==
  ASSUME ProcessInv, CloseOldController \/ CloseOldCore
  PROVE  ProcessInv'
<1>0. TypeOK /\ LiveInv /\ NextInv /\ JobInv /\ WatchInv
  BY DEF ProcessInv
<1>1. job.at = "closeOld" /\ live # Nil /\ live \in Runtimes /\ proc = "running"
      /\ job.kind = "new" /\ UNCHANGED <<file, window, watching, loaded, next, proc>>
  BY <1>0 DEF CloseOldController, CloseOldCore, TypeOK, LiveInv, JobInv
<1>2. CASE CloseOldController
  <2>1. HistKept /\ UNCHANGED job /\ live.ctls # <<>>
    BY <1>0, <1>2, FaultKept DEF CloseOldController
  <2>2. PICK b \in BOOLEAN : live' = Closed(live, b)
    BY <1>2 DEF CloseOldController
  <2>3. limiters' = limiters \ {live.ctls[Len(live.ctls)].rk}
    BY <1>2 DEF CloseOldController, CloseLast
  <2>4. live' \in Runtimes /\ KeysOf(live') = limiters' /\ Distinct(live')
    BY <1>0, <1>1, <2>1, <2>2, <2>3, ClosedBooks DEF LiveInv
  <2>5. live' # Nil /\ limiters' \subseteq Keys
    BY <2>4, NilOK, KeysOfTyped
  <2>6. TypeOK'
    BY <1>0, <1>1, <2>1, <2>4, <2>5 DEF TypeOK, HistKept
  <2>7. LiveInv' /\ NextInv' /\ JobInv'
    BY <1>0, <1>1, <2>1, <2>4, <2>5 DEF LiveInv, NextInv, JobInv, HistKept, NoJob
  <2>8. WatchInv'
    BY <1>0, <1>1, <2>1, WatchKept DEF ProcessInv
  <2> QED BY <2>6, <2>7, <2>8 DEF ProcessInv
<1>3. CASE CloseOldCore
  <2>1. /\ live.ctls = <<>> /\ live' = Nil /\ job' = [job EXCEPT !.at = "nodes"]
        /\ UNCHANGED <<limiters, hist>>
    BY <1>3 DEF CloseOldCore, Goto
  <2>2. limiters = {} /\ KeysOf(next) = {}
    BY <1>0, <1>1, <2>1, KeysOfNone DEF LiveInv, NextInv
  <2>3. TypeOK'
    BY <1>0, <1>1, <2>1 DEF TypeOK
  <2>4. LiveInv' /\ NextInv' /\ JobInv'
    BY <1>0, <1>1, <2>1, <2>2 DEF TypeOK, LiveInv, NextInv, JobInv, NoJob
  <2>5. WatchInv'
    BY <1>0, <1>1, <2>1, FaultKept, WatchKept DEF ProcessInv
  <2> QED BY <2>3, <2>4, <2>5 DEF ProcessInv
<1> QED BY <1>2, <1>3

(* The starts of controllers.                                              *)
LEMMA StartKeeps ==
  ASSUME ProcessInv, StartController
  PROVE  ProcessInv'
<1>0. TypeOK /\ LiveInv /\ NextInv /\ JobInv /\ WatchInv
  BY DEF ProcessInv
<1>1. /\ job.at = "nodes" /\ Len(next.ctls) + 1 \in DOMAIN next.conf.nodes
      /\ UNCHANGED <<file, window, watching, loaded, live, proc>> /\ HistKept
      /\ NotStarted \/ \E rk, conf : Started(rk, conf)
  BY <1>0, StartOutcome
<1>2. /\ next \in Runtimes /\ next # Nil /\ next.ctls \in Seq(Ctl) /\ limiters = KeysOf(next) /\ live = Nil
      /\ Registered(next) /\ Tagged(next) /\ Distinct(next) /\ next.conf.name = job.conf.name
  BY <1>0, <1>1, KeysOfTyped DEF TypeOK, LiveInv, NextInv
<1>3. WatchInv'
  BY <1>0, <1>1, <1>2, WatchKept DEF ProcessInv
<1>4. CASE NotStarted
  <2>1. /\ next' \in Runtimes /\ next'.conf = next.conf /\ next'.ctls = next.ctls
        /\ UNCHANGED limiters /\ job' = [job EXCEPT !.at = "undo"]
    BY <1>4 DEF NotStarted, Goto
  <2>2. next' # Nil /\ KeysOf(next') = KeysOf(next) /\ Distinct(next')
    BY <1>2, <2>1, NilOK DEF KeysOf, Distinct
  <2>3. TypeOK'
    BY <1>0, <1>1, <2>1, <2>2 DEF TypeOK, HistKept
  <2>4. LiveInv' /\ NextInv' /\ JobInv'
    BY <1>0, <1>1, <1>2, <2>1, <2>2 DEF TypeOK, LiveInv, NextInv, JobInv, NoJob, HistKept
  <2> QED BY <1>3, <2>3, <2>4 DEF ProcessInv
<1>5. ASSUME NEW rk, NEW conf, Started(rk, conf)
      PROVE  ProcessInv'
  <2> DEFINE n == next.conf.nodes[Len(next.ctls) + 1]
             c == [rk |-> rk, tag |-> n.tag]
  <2>1. /\ rk \in Keys /\ rk \notin KeysOf(next) /\ rk[2] = n.tag /\ c \in Ctl
        /\ next' \in Runtimes /\ next'.ctls = Append(next.ctls, c)
        /\ next'.conf.name = next.conf.name /\ Len(next'.conf.nodes) = Len(next.conf.nodes)
        /\ limiters' = limiters \cup {rk} /\ UNCHANGED job
    BY <1>2, <1>5 DEF Started, Registered, Ctl
  <2>2. next' # Nil
    BY <2>1, NilOK
  <2>3. /\ KeysOf(next') = KeysOf(next) \cup {rk} /\ Distinct(next')
        /\ Len(next'.ctls) = Len(next.ctls) + 1 /\ next'.ctls[Len(next'.ctls)] = c
        /\ \A i \in DOMAIN next.ctls : i \in DOMAIN next'.ctls /\ next'.ctls[i] = next.ctls[i]
        /\ \A i \in DOMAIN next'.ctls : i \in DOMAIN next.ctls \/ i = Len(next'.ctls)
    <3>1. c.rk = rk
      OBVIOUS
    <3> HIDE DEF c, n
    <3>2. /\ next.ctls \in Seq(Ctl) /\ c \in Ctl /\ next'.ctls = Append(next.ctls, c)
          /\ Distinct(next) /\ c.rk \notin KeysOf(next)
      BY <1>2, <2>1, <3>1
    <3>3. /\ KeysOf(next') = KeysOf(next) \cup {c.rk} /\ Distinct(next')
      BY <3>2, KeysOfAppended
    <3>4. /\ Len(next'.ctls) = Len(next.ctls) + 1 /\ next'.ctls[Len(next'.ctls)] = c
          /\ \A i \in DOMAIN next.ctls : i \in DOMAIN next'.ctls /\ next'.ctls[i] = next.ctls[i]
          /\ \A i \in DOMAIN next'.ctls : i \in DOMAIN next.ctls \/ i = Len(next'.ctls)
      BY <3>2, KeysOfAppended
    <3> QED BY <3>1, <3>3, <3>4
  <2>4. Registered(next')
    BY <1>2, <1>5, <2>3 DEF Started, Registered
  <2>5. Tagged(next')
    <3>1. \A j \in DOMAIN next.conf.nodes : next'.conf.nodes[j].tag = next.conf.nodes[j].tag
      BY <1>5 DEF Started
    <3>2. \A i \in DOMAIN next.ctls : i \in DOMAIN next.conf.nodes
      <4>1. next.conf.nodes \in Seq(NodeConfigs) /\ Len(next.ctls) <= Len(next.conf.nodes)
        BY <1>0, <1>2 DEF TypeOK, Runtimes, Configurations
      <4> QED BY <1>2, <4>1
    <3>3. ASSUME NEW i \in DOMAIN next'.ctls
          PROVE  next'.ctls[i].rk[2] = next'.conf.nodes[i].tag
      <4>1. CASE i \in DOMAIN next.ctls
        BY <1>2, <2>3, <3>1, <3>2, <4>1 DEF Tagged
      <4>2. CASE i = Len(next'.ctls)
        BY <1>1, <2>1, <2>3, <3>1, <4>2
      <4> QED BY <2>3, <4>1, <4>2
    <3> QED BY <3>3 DEF Tagged
  <2>6. Len(next'.ctls) <= Len(next'.conf.nodes)
    <3>1. next.conf.nodes \in Seq(NodeConfigs)
      BY <1>2 DEF Runtimes, Configurations
    <3> QED BY <1>1, <2>1, <2>3, <3>1
  <2> HIDE DEF n, c
  <2>7. limiters' \subseteq Keys /\ limiters' = KeysOf(next')
    BY <1>0, <1>2, <2>1, <2>3 DEF TypeOK
  <2>8. TypeOK'
    BY <1>0, <1>1, <2>1, <2>2, <2>6, <2>7 DEF TypeOK, HistKept
  <2>9. LiveInv' /\ NextInv' /\ JobInv'
    BY <1>0, <1>1, <1>2, <2>1, <2>2, <2>3, <2>4, <2>5, <2>7 DEF LiveInv, NextInv, JobInv, NoJob, HistKept
  <2> QED BY <1>3, <2>8, <2>9 DEF ProcessInv
<1> QED BY <1>1, <1>4, <1>5

(* Phase 3, the restore and the boot bind a runtime with every node up.    *)
LEMMA SucceedKeeps ==
  ASSUME ProcessInv, Succeed
  PROVE  ProcessInv'
<1>0. TypeOK /\ LiveInv /\ NextInv /\ JobInv /\ WatchInv
  BY DEF ProcessInv
<1>1. /\ job.at = "nodes" /\ live' = next /\ next' = Nil /\ job' = NoJob /\ proc' = "running"
      /\ Len(next.ctls) = Len(next.conf.nodes)
      /\ UNCHANGED <<file, loaded, limiters, hist>>
      /\ window' = IF job.kind = "boot" THEN "open" ELSE window
      /\ watching' = TRUE \/ watching' = watching
  BY DEF Succeed
<1>2. /\ next \in Runtimes /\ next # Nil /\ Whole(next) /\ limiters = KeysOf(next)
  BY <1>0, <1>1 DEF TypeOK, LiveInv, NextInv, Whole
<1>3. TypeOK'
  BY <1>0, <1>1, <1>2 DEF TypeOK, NoJob
<1>4. LiveInv' /\ NextInv' /\ JobInv'
  BY <1>1, <1>2 DEF LiveInv, NextInv, JobInv, NoJob, Whole
<1>5. window' = window \/ (window = "shut" /\ window' = "open")
  BY <1>0, <1>1 DEF TypeOK, JobInv
<1>6. proc' = proc \/ proc = "boot"
  BY <1>0, <1>1 DEF TypeOK, JobInv
<1>7. WatchInv'
  BY <1>0, <1>1, <1>5, <1>6, FaultKept, WatchKept
<1> QED BY <1>3, <1>4, <1>7 DEF ProcessInv

(* rollbackControllers and the end of the new core.                        *)
LEMMA UndoKeeps ==
  ASSUME ProcessInv, UndoController \/ UndoCore
  PROVE  ProcessInv'
<1>0. TypeOK /\ LiveInv /\ NextInv /\ JobInv /\ WatchInv
  BY DEF ProcessInv
<1>1. /\ job.at = "undo" /\ next \in Runtimes /\ next # Nil /\ Distinct(next)
      /\ limiters = KeysOf(next) /\ live = Nil /\ UNCHANGED <<file, window, watching, loaded, live>>
  BY <1>0 DEF UndoController, UndoCore, TypeOK, LiveInv, NextInv
<1>2. CASE UndoController
  <2>1. HistKept /\ UNCHANGED <<job, proc>> /\ next.ctls # <<>>
    BY <1>0, <1>2, FaultKept DEF UndoController
  <2>2. PICK b \in BOOLEAN : next' = Closed(next, b)
    BY <1>2 DEF UndoController
  <2>3. limiters' = limiters \ {next.ctls[Len(next.ctls)].rk}
    BY <1>2 DEF UndoController, CloseLast
  <2>4. /\ next' \in Runtimes /\ KeysOf(next') = limiters' /\ Distinct(next')
        /\ next'.conf = next.conf /\ Len(next'.ctls) <= Len(next.ctls)
    BY <1>1, <2>1, <2>2, <2>3, ClosedBooks
  <2>5. next' # Nil /\ limiters' \subseteq Keys
    BY <2>4, NilOK, KeysOfTyped
  <2>6. Len(next'.ctls) <= Len(next'.conf.nodes)
    <3>1. /\ next.ctls \in Seq(Ctl) /\ next'.ctls \in Seq(Ctl) /\ next.conf.nodes \in Seq(NodeConfigs)
      BY <1>1, <2>4, KeysOfTyped DEF Runtimes, Configurations
    <3>2. Len(next.ctls) <= Len(next.conf.nodes)
      BY <1>0, <1>1 DEF TypeOK
    <3>3. Len(next.ctls) \in Nat /\ Len(next'.ctls) \in Nat /\ Len(next.conf.nodes) \in Nat
      BY <3>1
    <3> QED BY <2>4, <3>2, <3>3
  <2>7. TypeOK'
    BY <1>0, <1>1, <2>1, <2>4, <2>5, <2>6 DEF TypeOK, HistKept
  <2>8. LiveInv' /\ NextInv' /\ JobInv'
    BY <1>0, <1>1, <2>1, <2>4, <2>5 DEF LiveInv, NextInv, JobInv, HistKept, NoJob
  <2>9. WatchInv'
    BY <1>0, <1>1, <2>1, WatchKept DEF ProcessInv, WatchInv
  <2> QED BY <2>7, <2>8, <2>9 DEF ProcessInv
<1>3. CASE UndoCore
  <2>1. /\ next.ctls = <<>> /\ next' = Nil /\ UNCHANGED <<limiters, hist>>
        /\ proc' = IF job.kind = "boot" THEN "exited" ELSE proc
        /\ job' = IF job.kind = "new" THEN [job EXCEPT !.kind = "restore", !.at = "core", !.conf = job.old]
                  ELSE NoJob
    BY <1>3 DEF UndoCore
  <2>2. limiters = {}
    BY <1>1, <2>1, KeysOfNone
  <2>3. TypeOK'
    BY <1>0, <1>1, <2>1 DEF TypeOK, NoJob, JobInv
  <2>4. LiveInv' /\ NextInv' /\ JobInv'
    BY <1>0, <1>1, <2>1, <2>2 DEF TypeOK, LiveInv, NextInv, JobInv, NoJob
  <2>5. proc' = proc \/ proc = "boot"
    BY <1>0, <2>1 DEF JobInv
  <2>6. WatchInv'
    BY <1>0, <1>1, <2>1, <2>5, FaultKept, WatchKept
  <2> QED BY <2>3, <2>4, <2>6 DEF ProcessInv
<1> QED BY <1>2, <1>3

(* A boot that cannot watch the file ends the process.                     *)
LEMMA WatchFailsKeeps ==
  ASSUME ProcessInv, WatchFails
  PROVE  ProcessInv'
<1>1. /\ job.at = "nodes" /\ job.kind = "boot" /\ next' = Nil /\ job' = NoJob /\ limiters' = {}
      /\ proc' = "exited" /\ UNCHANGED <<file, window, watching, loaded, live>>
  BY DEF WatchFails
<1>2. live = Nil /\ loaded = {} /\ window = "shut"
  BY <1>1 DEF ProcessInv, TypeOK, LiveInv, JobInv, WatchInv
<1>3. HistKept /\ watching' \in BOOLEAN
  BY <1>1, FaultKept DEF WatchFails, ProcessInv, TypeOK
<1> QED BY <1>1, <1>2, <1>3, EndKeeps

-----------------------------------------------------------------------------
(* The watch.                                                              *)

(* LiveInv, NextInv and JobInv are about the boot and the reloads.         *)
LEMMA JobsKept ==
  ASSUME ProcessInv, UNCHANGED <<live, next, job, limiters, proc>>, hist'.tried = hist.tried
  PROVE  LiveInv' /\ NextInv' /\ JobInv'
BY DEF ProcessInv, LiveInv, NextInv, JobInv

(* A save in a window that is open will be read; one that the watch does   *)
(* not see is missed.                                                      *)
LEMMA SaveKeeps ==
  ASSUME ProcessInv, NEW f \in Confs \cup {Unloadable}, Save(f)
  PROVE  ProcessInv'
<1> DEFINE names == hist.offered \cup (IF f = Unloadable THEN {} ELSE {f.name})
           missed == CASE window = "open" -> ~watching [] window = "settle" -> hist.missed [] OTHER -> TRUE
           saves == hist.saves + 1
<1>1. TypeOK /\ WatchInv
  BY DEF ProcessInv
<1>2. names \in SUBSET ConfNames /\ hist.offered \subseteq names /\ (f # Unloadable => f.name \in names)
  BY <1>1 DEF TypeOK, ConfNames
<1>3. missed \in BOOLEAN /\ saves \in Nat
  <2>1. hist.missed \in BOOLEAN /\ saves \in Nat
    BY <1>1 DEF TypeOK
  <2>2. CASE window = "open"
    BY <1>1, <2>1, <2>2 DEF TypeOK
  <2>3. CASE window = "settle"
    BY <2>1, <2>3
  <2>4. CASE window # "open" /\ window # "settle"
    <3>1. missed = TRUE
      BY <2>4, Zenon
    <3> HIDE DEF missed, saves
    <3> QED BY <2>1, <3>1
  <2> QED BY <2>2, <2>3, <2>4
<1>4. /\ file' = f /\ proc \in {"boot", "running"}
      /\ window' = IF window = "open" /\ watching THEN "settle" ELSE window
      /\ watching' \in BOOLEAN
      /\ UNCHANGED <<loaded, live, next, job, limiters, proc>>
      /\ hist' = [hist EXCEPT !.saves = saves, !.offered = names, !.missed = missed]
  BY DEF Save
<1>5. missed \/ window' = "settle"
  BY <1>1, <1>4 DEF TypeOK
<1> HIDE DEF names, missed, saves
<1>6. /\ hist' \in [faults : Nat, reads : Nat, saves : Nat, offered : SUBSET ConfNames, tried : ConfNames,
                    missed : BOOLEAN, overtaken : BOOLEAN, leaked : BOOLEAN]
      /\ hist'.offered = names /\ hist'.missed = missed /\ hist'.tried = hist.tried /\ hist'.reads = hist.reads
  BY <1>1, <1>2, <1>3, <1>4 DEF TypeOK
<1>7. TypeOK'
  BY <1>1, <1>2, <1>4, <1>6 DEF TypeOK
<1>8. WatchInv'
  BY <1>1, <1>2, <1>4, <1>5, <1>6 DEF WatchInv
<1>9. LiveInv' /\ NextInv' /\ JobInv'
  BY <1>4, <1>6, JobsKept
<1> QED BY <1>7, <1>8, <1>9 DEF ProcessInv

(* The configuration that is read last is the one the file holds.          *)
LEMMA ReadKeeps ==
  ASSUME ProcessInv, Read
  PROVE  ProcessInv'
<1> DEFINE e == [conf |-> file, nth |-> hist.reads]
           reads == hist.reads + 1
<1>1. TypeOK /\ WatchInv
  BY DEF ProcessInv
<1>2. /\ window = "settle" /\ window' = "deaf"
      /\ loaded' = IF file = Unloadable THEN loaded ELSE loaded \cup {e}
      /\ hist' = [hist EXCEPT !.reads = reads]
      /\ UNCHANGED <<file, watching, live, next, job, limiters, proc>>
  BY DEF Read
<1>3. reads \in Nat /\ e.nth = hist.reads /\ hist.reads \in Nat /\ e.nth < reads /\ e.conf = file
      /\ \A o \in loaded : o.nth < hist.reads /\ o.nth < reads /\ o.nth \in Nat
  BY <1>1 DEF TypeOK, WatchInv
<1>4. file # Unloadable => e \in [conf : Confs, nth : Nat]
  BY <1>1 DEF TypeOK
<1> HIDE DEF e, reads
<1>5. /\ hist' \in [faults : Nat, reads : Nat, saves : Nat, offered : SUBSET ConfNames, tried : ConfNames,
                    missed : BOOLEAN, overtaken : BOOLEAN, leaked : BOOLEAN]
      /\ hist'.offered = hist.offered /\ hist'.missed = hist.missed /\ hist'.overtaken = hist.overtaken
      /\ hist'.tried = hist.tried /\ hist'.reads = reads
  BY <1>1, <1>2, <1>3 DEF TypeOK
<1>6. TypeOK'
  BY <1>1, <1>2, <1>4, <1>5 DEF TypeOK
<1>7. WatchInv'
  <2>1. CASE file = Unloadable
    BY <1>1, <1>2, <1>3, <1>5, <2>1 DEF WatchInv, TypeOK
  <2>2. CASE file # Unloadable
    <3>1. \A o \in loaded' : o.conf.name \in hist'.offered /\ o.nth < hist'.reads
      BY <1>1, <1>2, <1>3, <1>5, <2>2 DEF WatchInv
    <3>2. ASSUME NEW o \in loaded', \A q \in loaded' : q.nth <= o.nth
          PROVE  o.conf = file
      <4>1. e \in loaded' /\ e.nth <= o.nth
        BY <1>2, <2>2, <3>2
      <4>2. o \notin loaded
        BY <1>3, <4>1
      <4> QED BY <1>2, <1>3, <2>2, <4>2
    <3>3. loaded' # {} /\ proc' = "running"
      BY <1>1, <1>2, <2>2 DEF TypeOK
    <3> QED BY <1>1, <1>2, <1>5, <3>1, <3>2, <3>3 DEF WatchInv
  <2> QED BY <2>1, <2>2
<1>8. LiveInv' /\ NextInv' /\ JobInv'
  BY <1>2, <1>5, JobsKept
<1> QED BY <1>6, <1>7, <1>8 DEF ProcessInv

(* The end of the window changes nothing else.                             *)
LEMMA ListenKeeps ==
  ASSUME ProcessInv, Listen
  PROVE  ProcessInv'
<1>1. /\ window = "deaf" /\ window' = "open"
      /\ UNCHANGED <<file, watching, loaded, live, next, job, limiters, proc, hist>>
  BY DEF Listen
<1>2. TypeOK' /\ WatchInv'
  BY <1>1 DEF ProcessInv, TypeOK, WatchInv
<1>3. LiveInv' /\ NextInv' /\ JobInv'
  BY <1>1, JobsKept
<1> QED BY <1>2, <1>3 DEF ProcessInv

(* A callback that does not overtake another leaves the last one read to   *)
(* come last.                                                              *)
LEMMA BeginReloadKeeps ==
  ASSUME ProcessInv, BeginReload
  PROVE  ProcessInv'
<1>0. TypeOK /\ LiveInv /\ NextInv /\ JobInv /\ WatchInv
  BY DEF ProcessInv
<1>1. PICK e \in loaded :
        /\ loaded' = loaded \ {e}
        /\ job' = [kind |-> "new", at |-> "core", conf |-> e.conf,
                   old |-> IF live = Nil THEN Nil ELSE live.conf]
        /\ hist' = [hist EXCEPT !.tried = e.conf.name,
                                !.overtaken = @ \/ \E o \in loaded : o.nth < e.nth]
  BY DEF BeginReload
<1>2. job = NoJob /\ proc = "running" /\ UNCHANGED <<file, window, watching, live, next, limiters, proc>>
  BY DEF BeginReload
<1> DEFINE over == hist.overtaken \/ \E o \in loaded : o.nth < e.nth
           old == IF live = Nil THEN Nil ELSE live.conf
<1>3. /\ e.conf \in Confs /\ e.conf \in Configurations /\ e.conf # Nil /\ e.conf.name \in ConfNames
      /\ e.conf.name \in hist.offered
  BY <1>0, ConfsOK, NilOK DEF TypeOK, WatchInv, ConfNames
<1>4. /\ old \in Configurations \cup {Nil} /\ (old = Nil <=> live = Nil) /\ (live # Nil => old = live.conf)
  BY <1>0, NilOK DEF TypeOK, Runtimes
<1>5. /\ hist' = [hist EXCEPT !.tried = e.conf.name, !.overtaken = over] /\ over \in BOOLEAN
      /\ over <=> hist.overtaken \/ \E o \in loaded : o.nth < e.nth
  BY <1>0, <1>1 DEF TypeOK
<1> HIDE DEF over, old
<1>6. /\ hist' \in [faults : Nat, reads : Nat, saves : Nat, offered : SUBSET ConfNames, tried : ConfNames,
                    missed : BOOLEAN, overtaken : BOOLEAN, leaked : BOOLEAN]
      /\ hist'.offered = hist.offered /\ hist'.missed = hist.missed /\ hist'.overtaken = over
      /\ hist'.tried = e.conf.name /\ hist'.reads = hist.reads
  BY <1>0, <1>3, <1>5 DEF TypeOK
<1>7. job' = [kind |-> "new", at |-> "core", conf |-> e.conf, old |-> old]
  BY <1>1 DEF old
<1>8. TypeOK'
  <2>1. job' \in [kind : {"none", "boot", "new", "restore"},
                  at : {"rest", "core", "closeOld", "nodes", "undo"},
                  conf : Configurations \cup {Nil}, old : Configurations \cup {Nil}]
    BY <1>3, <1>4, <1>7
  <2>2. job'.kind = "new" /\ job'.at = "core"
    BY <1>7
  <2>3. next = Nil
    BY <1>0, <1>2 DEF TypeOK, NoJob
  <2>4. loaded' \subseteq [conf : Confs, nth : Nat]
    BY <1>0, <1>1 DEF TypeOK
  <2>5. hist'.tried \in hist'.offered
    BY <1>3, <1>6
  <2> QED BY <1>0, <1>2, <1>6, <2>1, <2>2, <2>3, <2>4, <2>5 DEF TypeOK
<1>9. LiveInv' /\ NextInv' /\ JobInv'
  BY <1>0, <1>2, <1>3, <1>4, <1>6, <1>7 DEF TypeOK, LiveInv, NextInv, JobInv, NoJob
<1>10. WatchInv'
  <2>1. ~over => \A o \in loaded : e.nth <= o.nth
    BY <1>0, <1>5 DEF TypeOK
  <2>2. ASSUME ~over, \A o \in loaded : (\A q \in loaded : q.nth <= o.nth) => o.conf = file
        PROVE  /\ loaded' = {} => e.conf = file
               /\ \A o \in loaded' : (\A q \in loaded' : q.nth <= o.nth) => o.conf = file
    <3>1. CASE loaded' = {}
      <4>1. loaded = {e} /\ e.nth \in Nat
        BY <1>0, <1>1, <3>1 DEF TypeOK
      <4> QED BY <2>2, <3>1, <4>1
    <3>2. ASSUME NEW o \in loaded', \A q \in loaded' : q.nth <= o.nth
          PROVE  o.conf = file
      <4>1. o \in loaded /\ \A q \in loaded : q.nth <= o.nth
        BY <1>1, <2>1, <2>2, <3>2
      <4> QED BY <2>2, <4>1
    <3> QED BY <3>1, <3>2
  <2>3. ~over => ~hist.overtaken
    BY <1>5
  <2> QED BY <1>0, <1>1, <1>2, <1>6, <2>2, <2>3 DEF WatchInv
<1> QED BY <1>8, <1>9, <1>10 DEF ProcessInv

-----------------------------------------------------------------------------
(* The end of the process, and the theorems.                               *)

(* Every step of the process keeps the invariant.                          *)
LEMMA StepKeeps ==
  ASSUME ProcessInv, [Next]_vars
  PROVE  ProcessInv'
<1>1. CASE BuildCore
  BY <1>1, BuildCoreKeeps
<1>2. CASE BuildCorePanics \/ CloseOffline \/ LeakedMonitor
  BY <1>2, DieKeeps DEF BuildCorePanics, CloseOffline, LeakedMonitor
<1>3. CASE CloseOldController \/ CloseOldCore
  BY <1>3, CloseOldKeeps
<1>4. CASE StartController
  BY <1>4, StartKeeps
<1>5. CASE Succeed
  BY <1>5, SucceedKeeps
<1>6. CASE WatchFails
  BY <1>6, WatchFailsKeeps
<1>7. CASE UndoController \/ UndoCore
  BY <1>7, UndoKeeps
<1>8. CASE \E f \in Confs \cup {Unloadable} : Save(f)
  BY <1>8, SaveKeeps
<1>9. CASE Read
  BY <1>9, ReadKeeps
<1>10. CASE Listen
  BY <1>10, ListenKeeps
<1>11. CASE BeginReload
  BY <1>11, BeginReloadKeeps
<1>12. CASE Signal
  <2>1. /\ proc' = "exited" /\ live' = Nil /\ next' = Nil /\ job' = NoJob /\ loaded' = {}
        /\ limiters' = {} /\ window' = "shut" /\ watching' = FALSE /\ UNCHANGED file
    BY <1>12 DEF Signal
  <2>2. HistKept
    BY <1>12, FaultKept DEF Signal, ProcessInv
  <2> QED BY <2>1, <2>2, EndKeeps
<1>13. CASE UNCHANGED vars
  BY <1>13 DEF vars, ProcessInv, TypeOK, LiveInv, NextInv, JobInv, WatchInv
<1> QED BY <1>1, <1>2, <1>3, <1>4, <1>5, <1>6, <1>7, <1>8, <1>9, <1>10, <1>11, <1>12, <1>13 DEF Next

(* The boot, the reloads and the watch never leave the invariant, whatever *)
(* is saved and whatever fails.                                            *)
THEOREM ProcessStaysSound == Spec => []ProcessInv
<1>1. Init => ProcessInv
  BY InitProcess
<1>2. ProcessInv /\ [Next]_vars => ProcessInv'
  BY StepKeeps
<1> QED BY <1>1, <1>2, PTL DEF Spec

(* The state of the process is as typed; in particular a runtime is built  *)
(* or undone only by a boot or a reload (cmd/reload.go:107-165).           *)
THEOREM ProcessTypes == Spec => []TypeOK
<1>1. ProcessInv => TypeOK
  BY DEF ProcessInv
<1> QED BY <1>1, ProcessStaysSound, PTL

(* When no reload runs, what the limiters, the core, the Selector and the  *)
(* port registry hold is what the bound controllers registered, after any  *)
(* sequence of starts, rollbacks and closes (controller.go:148, node.go:42).*)
THEOREM NothingLeftBehind == Spec => []BooksMatch
<1>1. ProcessInv => BooksMatch
  <2> SUFFICES ASSUME ProcessInv, AtRest PROVE BooksMatch
    BY DEF BooksMatch
  <2>1. job.at = "rest" /\ LiveInv
    BY DEF AtRest, NoJob, ProcessInv
  <2>2. limiters = IF live = Nil THEN {} ELSE KeysOf(live)
    BY <2>1 DEF LiveInv
  <2>3. live # Nil => Registered(live)
    BY <2>1 DEF LiveInv, Whole
  <2> QED BY <2>2, <2>3 DEF BooksMatch, Registered, Owners
<1> QED BY <1>1, ProcessStaysSound, PTL

(* A save of the file is tried, unless it falls where the watch is deaf or *)
(* comes after one that put another file in the place of the one watched,  *)
(* or a later read overtakes an earlier one (conf/watch.go:26-67).         *)
THEOREM SavesAreTried == Spec => []LastSaveTried
<1>1. ProcessInv => LastSaveTried
  <2> SUFFICES ASSUME ProcessInv, AtRest, loaded = {}, window # "settle", file # Unloadable,
                      ~hist.missed, ~hist.overtaken
               PROVE  hist.tried = file.name
    BY DEF LastSaveTried
  <2> QED BY DEF ProcessInv, WatchInv, AtRest
<1> QED BY <1>1, ProcessStaysSound, PTL

-----------------------------------------------------------------------------
(* Refinement.                                                             *)

\* The name of what is bound, or of what a reload goes back to.
Bound ==
  IF Phase # "swapping" THEN IF live = Nil THEN Nil ELSE live.conf.name
  ELSE IF job.old = Nil THEN Nil ELSE job.old.name

ServesBound == Serving = Bound

(* A runtime that is bound serves each node of its configuration.          *)
LEMMA ServingIsBound == ProcessInv => ServesBound
<1> SUFFICES ASSUME ProcessInv PROVE Serving = Bound
  BY DEF ServesBound
<1>1. ASSUME Phase # "swapping", live # Nil PROVE Served = live.conf.name
  <2>1. live \in Runtimes /\ Whole(live) /\ limiters = KeysOf(live)
    BY <1>1 DEF ProcessInv, TypeOK, LiveInv, Phase
  <2>2. live.ctls \in Seq(Ctl) /\ live.conf.nodes \in Seq(NodeConfigs)
    BY <2>1, KeysOfTyped DEF Runtimes, Configurations
  <2>3. ASSUME NEW i \in DOMAIN live.conf.nodes
        PROVE  \E rk \in live.inbounds \cap live.entries \cap limiters : rk[2] = live.conf.nodes[i].tag
    <3>1. i \in DOMAIN live.ctls
      BY <2>1, <2>2 DEF Whole
    <3>2. live.ctls[i].rk \in KeysOf(live) /\ live.ctls[i].rk[2] = live.conf.nodes[i].tag
      BY <2>1, <3>1 DEF KeysOf, Whole, Tagged
    <3> QED BY <2>1, <3>2 DEF Whole, Registered
  <2> QED BY <1>1, <2>3 DEF Served
<1>2. live = Nil => Served = Nil
  BY DEF Served
<1> QED BY <1>1, <1>2 DEF Serving, Bound

\* The cores of every runtime, and of the one a restore goes back to, have
\* been built once; a reload tries what the file held.
CoresBuilt ==
  /\ live # Nil => NewCoreVerdict(live.conf.cores) = "ok"
  /\ next # Nil => NewCoreVerdict(next.conf.cores) = "ok"
  /\ job.old # Nil => NewCoreVerdict(job.old.cores) = "ok"
  /\ job.kind \in {"boot", "new"} => job.conf \in Confs
  /\ job.kind = "boot" => job.old = Nil

(* Runtimes come from cores that were built, and keep them.                *)
LEMMA CoresStayBuilt ==
  ASSUME ProcessInv, CoresBuilt, [Next]_vars
  PROVE  CoresBuilt'
<1>0. TypeOK /\ LiveInv /\ NextInv /\ JobInv /\ WatchInv
  BY DEF ProcessInv
<1>1. CASE BuildCore
  <2>1. job.at = "core" /\ UNCHANGED live /\ job.conf \in Configurations
    BY <1>0, <1>1 DEF BuildCore, TypeOK, JobInv
  <2>2. next = Nil
    BY <1>0, <2>1 DEF TypeOK
  <2>3. CASE job' = NoJob /\ UNCHANGED next
    BY <2>1, <2>2, <2>3 DEF CoresBuilt, NoJob
  <2>4. CASE /\ NewCoreVerdict(job.conf.cores) = "ok" /\ next' = NewRuntime(job.conf)
             /\ Goto(IF job.kind = "new" THEN "closeOld" ELSE "nodes")
    <3>1. next'.conf = job.conf
      BY <2>4 DEF NewRuntime
    <3>2. job'.old = job.old /\ job'.kind = job.kind /\ job'.conf = job.conf
      BY <1>0, <2>4 DEF Goto, TypeOK
    <3> QED BY <2>1, <2>4, <3>1, <3>2 DEF CoresBuilt
  <2> QED BY <1>1, <2>3, <2>4 DEF BuildCore
<1>2. CASE BuildCorePanics \/ CloseOffline \/ LeakedMonitor \/ Signal
  BY <1>2 DEF BuildCorePanics, CloseOffline, LeakedMonitor, Signal, Die, CoresBuilt, NoJob
<1>3. CASE CloseOldController
  <2>1. PICK c \in BOOLEAN : live' = Closed(live, c)
    BY <1>3 DEF CloseOldController
  <2>2. UNCHANGED <<next, job>> /\ live # Nil /\ live.ctls # <<>> /\ live \in Runtimes /\ Distinct(live)
    BY <1>0, <1>3 DEF CloseOldController, TypeOK, LiveInv
  <2>3. live'.conf = live.conf
    BY <2>1, <2>2, ClosedBooks
  <2> QED BY <2>2, <2>3 DEF CoresBuilt
<1>4. CASE CloseOldCore
  <2>1. live' = Nil /\ UNCHANGED next /\ job' = [job EXCEPT !.at = "nodes"]
    BY <1>4 DEF CloseOldCore, Goto
  <2>2. job'.old = job.old /\ job'.kind = job.kind /\ job'.conf = job.conf
    BY <1>0, <2>1 DEF TypeOK
  <2> QED BY <2>1, <2>2 DEF CoresBuilt
<1>5. CASE StartController
  <2>1. /\ job.at = "nodes" /\ UNCHANGED live
        /\ NotStarted \/ \E rk, conf : Started(rk, conf)
    BY <1>0, <1>5, StartOutcome
  <2>2. next # Nil /\ NewCoreVerdict(next.conf.cores) = "ok"
    BY <1>0, <2>1 DEF TypeOK, CoresBuilt
  <2>3. next'.conf.cores = next.conf.cores
    BY <2>1 DEF NotStarted, Started
  <2>4. job'.old = job.old /\ job'.kind = job.kind /\ job'.conf = job.conf
    BY <1>0, <2>1 DEF NotStarted, Started, Goto, TypeOK
  <2> QED BY <2>1, <2>2, <2>3, <2>4 DEF CoresBuilt
<1>6. CASE Succeed \/ WatchFails
  <2>1. next # Nil
    BY <1>0, <1>6 DEF Succeed, WatchFails, TypeOK
  <2> QED BY <1>6, <2>1 DEF Succeed, WatchFails, CoresBuilt, NoJob
<1>7. CASE UndoController
  <2>1. PICK c \in BOOLEAN : next' = Closed(next, c)
    BY <1>7 DEF UndoController
  <2>2. UNCHANGED <<live, job>> /\ next # Nil /\ next.ctls # <<>> /\ next \in Runtimes /\ Distinct(next)
    BY <1>0, <1>7 DEF UndoController, TypeOK, NextInv
  <2>3. next'.conf = next.conf
    BY <2>1, <2>2, ClosedBooks
  <2> QED BY <2>2, <2>3 DEF CoresBuilt
<1>8. CASE UndoCore
  <2>1. /\ next' = Nil /\ UNCHANGED live
        /\ job' = IF job.kind = "new" THEN [job EXCEPT !.kind = "restore", !.at = "core", !.conf = job.old]
                  ELSE NoJob
    BY <1>8 DEF UndoCore
  <2>2. (job'.old = job.old /\ job'.kind = "restore") \/ job' = NoJob
    BY <1>0, <2>1 DEF TypeOK
  <2> QED BY <2>1, <2>2 DEF CoresBuilt, NoJob
<1>9. CASE \/ \E f \in Confs \cup {Unloadable} : Save(f)
           \/ Read \/ Listen \/ UNCHANGED vars
  BY <1>9 DEF Save, Read, Listen, vars, CoresBuilt
<1>10. CASE BeginReload
  <2>1. PICK e \in loaded :
          job' = [kind |-> "new", at |-> "core", conf |-> e.conf,
                  old |-> IF live = Nil THEN Nil ELSE live.conf]
    BY <1>10 DEF BeginReload
  <2>2. e.conf \in Confs /\ UNCHANGED <<live, next>>
    BY <1>0, <1>10 DEF TypeOK, BeginReload
  <2> QED BY <2>1, <2>2 DEF CoresBuilt
<1> QED BY <1>1, <1>2, <1>3, <1>4, <1>5, <1>6, <1>7, <1>8, <1>9, <1>10 DEF Next

\* What the contract sees is as it was, but for a task left behind.
Unseen ==
  /\ proc' = proc /\ Phase' = Phase /\ Bound' = Bound
  /\ hist'.offered = hist.offered /\ hist'.tried = hist.tried

(* Every step of the process is one the contract allows, or changes        *)
(* nothing it speaks of.                                                   *)
LEMMA StepRefines ==
  ASSUME ProcessInv, ProcessInv', CoresBuilt, [Next]_vars, ServesBound, ServesBound'
  PROVE  [Contract!Next]_Contract!vars
<1>0. TypeOK /\ LiveInv /\ NextInv /\ JobInv /\ WatchInv
  BY DEF ProcessInv
<1>s. Serving = Bound /\ Serving' = Bound'
  BY DEF ServesBound
<1>1. SUFFICES \/ Contract!Next
               \/ Unseen /\ hist'.leaked = hist.leaked
               \/ Unseen /\ Phase = "swapping" /\ HistKept
  <2>1. ASSUME Unseen, hist'.leaked = hist.leaked PROVE UNCHANGED Contract!vars
    BY <1>s, <2>1 DEF Unseen, Contract!vars
  <2>2. ASSUME Unseen, Phase = "swapping", HistKept
        PROVE  Contract!Leak \/ UNCHANGED Contract!vars
    <3>1. hist'.leaked = hist.leaked \/ hist'.leaked = TRUE
      BY <1>0, <2>2 DEF HistKept, TypeOK
    <3> QED BY <1>s, <2>2, <3>1 DEF Unseen, Contract!vars, Contract!Leak
  <2> QED BY <2>1, <2>2 DEF Contract!Next
<1>2. CASE BuildCore
  <2>1. /\ hist'.offered = hist.offered /\ hist'.tried = hist.tried /\ hist'.leaked = hist.leaked
    BY <1>0, <1>2, FaultKept, FaultLeaksNot DEF BuildCore, HistKept
  <2>2. /\ job.at = "core" /\ job.kind \in {"boot", "new", "restore"} /\ UNCHANGED live
        /\ proc = IF job.kind = "boot" THEN "boot" ELSE "running"
    BY <1>0, <1>2 DEF BuildCore, TypeOK, JobInv
  <2>3. CASE Goto(IF job.kind = "new" THEN "closeOld" ELSE "nodes") /\ UNCHANGED proc
    <3>1. job'.at \in {"closeOld", "nodes"} /\ job'.kind = job.kind /\ job'.old = job.old
      BY <1>0, <2>3 DEF Goto, TypeOK
    <3>2. Phase' = "swapping" /\ Phase = IF job.kind = "restore" THEN "swapping" ELSE "building"
      BY <2>2, <3>1 DEF Phase
    <3>3. CASE job.kind = "restore"
      BY <2>1, <2>3, <3>1, <3>2, <3>3 DEF Unseen, Bound
    <3>4. CASE job.kind = "boot"
      <4>1. live = Nil /\ job.old = Nil
        BY <1>0, <2>2, <3>4 DEF CoresBuilt, LiveInv, WatchInv, JobInv
      <4>2. Bound = Nil /\ Bound' = Nil
        BY <3>1, <3>2, <3>4, <4>1 DEF Bound
      <4> QED BY <1>s, <2>1, <2>2, <2>3, <3>2, <3>4, <4>2 DEF Contract!Next, Contract!Commit
    <3>5. CASE job.kind = "new"
      <4>1. /\ live = Nil => job.old = Nil
            /\ live # Nil => job.old = live.conf /\ job.old # Nil
        BY <1>0, <2>2, <3>5 DEF JobInv
      <4>2. Bound = Bound'
        BY <3>1, <3>2, <3>5, <4>1 DEF Bound
      <4> QED BY <1>s, <2>1, <2>2, <2>3, <3>2, <3>5, <4>2 DEF Contract!Next, Contract!Commit
    <3> QED BY <2>2, <3>3, <3>4, <3>5
  <2>4. CASE job' = NoJob /\ proc' = IF job.kind = "boot" THEN "exited" ELSE proc
    <3>1. Phase' = "rest" /\ Phase = IF job.kind = "restore" THEN "swapping" ELSE "building"
      BY <2>2, <2>4 DEF Phase, NoJob
    <3>2. CASE job.kind = "boot"
      <4>1. Bound' = Nil
        BY <1>0, <2>2, <3>1, <3>2 DEF Bound, WatchInv
      <4> QED BY <1>s, <2>1, <2>2, <2>4, <3>1, <3>2, <4>1 DEF Contract!Next, Contract!Exit, Contract!End
    <3>3. CASE job.kind = "new"
      <4>1. Bound' = Bound
        BY <2>2, <3>1, <3>3 DEF Bound
      <4> QED BY <1>s, <2>1, <2>2, <2>4, <3>1, <3>3, <4>1 DEF Contract!Next, Contract!KeepOld
    <3>4. CASE job.kind = "restore"
      <4>1. Bound' = Nil
        BY <1>0, <2>2, <3>1, <3>4 DEF Bound, JobInv
      <4> QED BY <1>s, <2>1, <2>2, <2>4, <3>1, <3>4, <4>1 DEF Contract!Next, Contract!GoOffline
    <3> QED BY <2>2, <3>2, <3>3, <3>4
  <2> QED BY <1>2, <2>3, <2>4 DEF BuildCore
<1>3. CASE BuildCorePanics \/ CloseOffline \/ LeakedMonitor \/ Signal
  <2>1. proc' \in {"exited", "crashed"} /\ live' = Nil /\ job' = NoJob /\ UNCHANGED hist
    BY <1>3 DEF BuildCorePanics, CloseOffline, LeakedMonitor, Signal, Die
  <2>2. Phase' = "rest" /\ Bound' = Nil
    BY <2>1 DEF Phase, NoJob, Bound
  <2>3. CASE BuildCorePanics
    <3>1. job.at = "core" /\ NewCoreVerdict(job.conf.cores) = "panic" /\ proc' = "crashed"
      BY <2>3 DEF BuildCorePanics, Die
    <3>2. job.kind \in {"boot", "new"}
      <4>1. job.kind = "restore" => job.old # Nil /\ job.conf = job.old
        BY <1>0 DEF JobInv
      <4>2. job.kind # "restore"
        BY <3>1, <4>1 DEF CoresBuilt
      <4> QED BY <1>0, <3>1, <4>2 DEF TypeOK
    <3>3. job.conf \in Confs /\ hist.tried = job.conf.name
      BY <1>0, <3>2 DEF CoresBuilt, JobInv
    <3>4. hist.tried \in FatalNames
      BY <3>1, <3>3 DEF FatalNames
    <3>5. Phase = "building" /\ proc \in {"boot", "running"}
      BY <1>0, <3>1, <3>2 DEF Phase, JobInv
    <3> QED BY <1>s, <2>1, <2>2, <3>1, <3>4, <3>5 DEF Contract!Next, Contract!Panic, Contract!End
  <2>4. CASE CloseOffline
    <3>1. job.at = "closeOld" /\ live = Nil /\ proc' = "crashed"
      BY <2>4 DEF CloseOffline, Die
    <3>2. job.kind = "new" /\ proc = "running"
      BY <1>0, <3>1 DEF TypeOK, JobInv
    <3>3. Phase = "swapping" /\ Bound = Nil
      BY <1>0, <3>1, <3>2 DEF Phase, Bound, JobInv
    <3> QED BY <1>s, <2>1, <2>2, <3>1, <3>2, <3>3 DEF Contract!Next, Contract!Panic, Contract!End
  <2>5. CASE LeakedMonitor
    <3>1. hist.leaked /\ proc = "running" /\ proc' = "crashed"
      BY <2>5 DEF LeakedMonitor, Die
    <3> QED BY <1>s, <2>1, <2>2, <3>1 DEF Contract!Next, Contract!Panic, Contract!End
  <2>6. CASE Signal
    <3>1. proc = "running" /\ proc' = "exited"
      BY <2>6 DEF Signal
    <3> QED BY <1>s, <2>1, <2>2, <3>1 DEF Contract!Next, Contract!Exit, Contract!End
  <2> QED BY <1>3, <2>3, <2>4, <2>5, <2>6
<1>4. CASE CloseOldController \/ CloseOldCore \/ UndoController
  <2>1. HistKept
    BY <1>0, <1>4, FaultKept DEF CloseOldController, CloseOldCore, UndoController
  <2>2. /\ job.at \in {"closeOld", "undo"} /\ job'.at \in {"closeOld", "nodes", "undo"}
        /\ proc' = proc /\ job'.old = job.old
    BY <1>0, <1>4 DEF CloseOldController, CloseOldCore, UndoController, Goto, TypeOK
  <2>3. Phase = "swapping" /\ Phase' = "swapping"
    BY <2>2 DEF Phase
  <2> QED BY <2>1, <2>2, <2>3 DEF Unseen, Bound, HistKept
<1>5. CASE StartController
  <2>1. /\ job.at = "nodes" /\ proc' = proc /\ HistKept
        /\ NotStarted \/ \E rk, conf : Started(rk, conf)
    BY <1>0, <1>5, StartOutcome
  <2>2. job'.at \in {"nodes", "undo"} /\ job'.old = job.old
    BY <1>0, <2>1 DEF NotStarted, Started, Goto, TypeOK
  <2>3. Phase = "swapping" /\ Phase' = "swapping"
    BY <2>1, <2>2 DEF Phase
  <2> QED BY <2>1, <2>2, <2>3 DEF Unseen, Bound, HistKept
<1>6. CASE Succeed
  <2>1. /\ job.at = "nodes" /\ live' = next /\ next # Nil /\ job' = NoJob /\ proc' = "running"
        /\ UNCHANGED hist /\ next.conf.name = job.conf.name
    BY <1>0, <1>6 DEF Succeed, TypeOK, NextInv
  <2>2. Phase = "swapping" /\ Phase' = "rest"
    BY <2>1 DEF Phase, NoJob
  <2>3. Bound' = job.conf.name
    BY <2>1, <2>2 DEF Bound
  <2>4. job.kind \in {"boot", "new", "restore"} /\ proc \in {"boot", "running"}
    BY <1>0, <2>1 DEF TypeOK, JobInv
  <2>5. CASE job.kind = "restore"
    <3>1. /\ proc = "running" /\ job.old # Nil /\ job.conf = job.old /\ job.old \in Configurations
      BY <1>0, <2>5 DEF JobInv, TypeOK
    <3>2. Bound = job.conf.name
      BY <2>2, <3>1 DEF Bound
    <3>3. CASE Bound = Nil
      BY <1>s, <2>1, <2>2, <2>3, <3>1, <3>2, <3>3 DEF Contract!Next, Contract!GoOffline
    <3>4. CASE Bound # Nil
      BY <1>s, <2>1, <2>2, <2>3, <3>1, <3>2, <3>4 DEF Contract!Next, Contract!Restore
    <3> QED BY <3>3, <3>4
  <2>6. CASE job.kind # "restore"
    <3>1. hist.tried = job.conf.name
      BY <1>0, <2>4, <2>6 DEF JobInv
    <3> QED BY <1>s, <2>1, <2>2, <2>3, <2>4, <3>1 DEF Contract!Next, Contract!GoLive
  <2> QED BY <2>5, <2>6
<1>7. CASE WatchFails
  <2>1. /\ job.kind = "boot" /\ live' = live /\ job' = NoJob /\ proc' = "exited"
        /\ hist'.offered = hist.offered /\ hist'.tried = hist.tried /\ hist'.leaked = hist.leaked
    BY <1>0, <1>7, FaultKept, FaultLeaksNot DEF WatchFails, HistKept
  <2>2. proc = "boot" /\ live = Nil
    BY <1>0, <2>1 DEF JobInv, WatchInv
  <2>3. Phase' = "rest" /\ Bound' = Nil
    BY <2>1, <2>2 DEF Phase, NoJob, Bound
  <2> QED BY <1>s, <2>1, <2>2, <2>3 DEF Contract!Next, Contract!Exit, Contract!End
<1>8. CASE UndoCore
  <2>1. /\ job.at = "undo" /\ live' = live /\ UNCHANGED hist /\ live = Nil
        /\ proc' = IF job.kind = "boot" THEN "exited" ELSE proc
        /\ job.kind \in {"boot", "new", "restore"}
    BY <1>0, <1>8 DEF UndoCore, LiveInv, TypeOK
  <2>2. Phase = "swapping"
    BY <2>1 DEF Phase
  <2>3. CASE job.kind = "new"
    <3>1. job'.old = job.old /\ job'.at = "core" /\ job'.kind = "restore"
      BY <1>0, <1>8, <2>3 DEF UndoCore, TypeOK
    <3>2. Phase' = "swapping"
      BY <3>1 DEF Phase
    <3> QED BY <2>1, <2>2, <2>3, <3>1, <3>2 DEF Unseen, Bound
  <2>4. CASE job.kind # "new"
    <3>1. job' = NoJob
      BY <1>8, <2>4 DEF UndoCore
    <3>2. Phase' = "rest" /\ Bound' = Nil
      BY <2>1, <3>1 DEF Phase, NoJob, Bound
    <3>3. CASE job.kind = "boot"
      <4>1. proc = "boot" /\ proc' = "exited"
        BY <1>0, <2>1, <3>3 DEF JobInv
      <4> QED BY <1>s, <2>1, <3>2, <4>1 DEF Contract!Next, Contract!Exit, Contract!End
    <3>4. CASE job.kind = "restore"
      <4>1. proc = "running" /\ proc' = proc
        BY <1>0, <2>1, <3>4 DEF JobInv
      <4> QED BY <1>s, <2>1, <2>2, <3>2, <4>1 DEF Contract!Next, Contract!GoOffline
    <3> QED BY <2>1, <2>4, <3>3, <3>4
  <2> QED BY <2>3, <2>4
<1>9. ASSUME NEW f \in Confs \cup {Unloadable}, Save(f)
      PROVE  Contract!Next \/ (Unseen /\ hist'.leaked = hist.leaked)
  <2> DEFINE new == IF f = Unloadable THEN {} ELSE {f.name}
             missed == CASE window = "open" -> ~watching [] window = "settle" -> hist.missed [] OTHER -> TRUE
             saves == hist.saves + 1
  <2>1. /\ UNCHANGED <<live, job, proc>> /\ proc \in {"boot", "running"}
        /\ hist' = [hist EXCEPT !.saves = saves, !.offered = @ \cup new, !.missed = missed]
    BY <1>9 DEF Save
  <2> HIDE DEF missed, saves, new
  <2>2. /\ hist'.tried = hist.tried /\ hist'.leaked = hist.leaked
        /\ hist'.offered = hist.offered \cup new
    BY <1>0, <2>1 DEF TypeOK
  <2>3. Phase' = Phase /\ Bound' = Bound
    BY <2>1 DEF Phase, Bound
  <2>4. new = {} \/ \E c \in ConfNames : new = {c}
    BY DEF new, ConfNames
  <2>5. CASE new = {}
    BY <2>1, <2>2, <2>3, <2>5 DEF Unseen
  <2>6. ASSUME NEW c \in ConfNames, new = {c} PROVE Contract!Next
    BY <1>s, <2>1, <2>2, <2>3, <2>6 DEF Contract!Next, Contract!Offer
  <2> QED BY <2>4, <2>5, <2>6
<1>10. CASE Read
  <2> DEFINE reads == hist.reads + 1
  <2>1. UNCHANGED <<live, job, proc>> /\ hist' = [hist EXCEPT !.reads = reads]
    BY <1>10 DEF Read
  <2> HIDE DEF reads
  <2> QED BY <1>0, <2>1 DEF TypeOK, Unseen, Bound, Phase
<1>11. CASE Listen \/ UNCHANGED vars
  BY <1>11 DEF Listen, vars, Unseen, Bound, Phase
<1>12. CASE BeginReload
  <2>1. PICK e \in loaded :
          /\ job' = [kind |-> "new", at |-> "core", conf |-> e.conf,
                     old |-> IF live = Nil THEN Nil ELSE live.conf]
          /\ hist' = [hist EXCEPT !.tried = e.conf.name,
                                  !.overtaken = @ \/ \E o \in loaded : o.nth < e.nth]
    BY <1>12 DEF BeginReload
  <2>2. job = NoJob /\ proc = "running" /\ UNCHANGED <<live, proc>>
    BY <1>12, <2>1 DEF BeginReload
  <2> DEFINE over == hist.overtaken \/ \E o \in loaded : o.nth < e.nth
  <2>3. hist' = [hist EXCEPT !.tried = e.conf.name, !.overtaken = over]
    BY <2>1
  <2>4. job'.at = "core" /\ job'.kind = "new"
    BY <2>1
  <2> HIDE DEF over
  <2>5. hist'.offered = hist.offered /\ hist'.tried = e.conf.name /\ hist'.leaked = hist.leaked
    BY <1>0, <2>3 DEF TypeOK
  <2>6. Phase = "rest" /\ Phase' = "building"
    BY <2>2, <2>4 DEF Phase, NoJob
  <2>7. Bound' = Bound
    BY <2>2, <2>6 DEF Bound
  <2>8. e.conf.name \in hist.offered /\ e.conf.name \in ConfNames
    BY <1>0 DEF TypeOK, WatchInv, ConfNames
  <2> QED BY <1>s, <2>2, <2>5, <2>6, <2>7, <2>8 DEF Contract!Next, Contract!Try
<1> QED BY <1>2, <1>3, <1>4, <1>5, <1>6, <1>7, <1>8, <1>9, <1>10, <1>11, <1>12 DEF Next

(* The process serves one configuration as a whole or none; what it serves *)
(* is untouched until the cores of another are built; a reload then makes  *)
(* the new one live, restores the old one or ends offline (reload.go:67-   *)
(* 104); and no step panics but at the three points ReloadContract names.  *)
THEOREM ReloadsKeepTheContract == Spec => KeepsContract
<1>1. Init => Contract!Init /\ CoresBuilt
  <2>1. BootConf.name \in ConfNames /\ BootConf \in Confs
    BY ConfsOK DEF ConfNames
  <2> QED BY <2>1 DEF Init, Contract!Init, Serving, Served, Phase, CoresBuilt
<1>2. ProcessInv => ServesBound
  BY ServingIsBound
<1>3. ProcessInv /\ CoresBuilt /\ [Next]_vars => CoresBuilt'
  BY CoresStayBuilt
<1>4. ProcessInv /\ ProcessInv' /\ CoresBuilt /\ [Next]_vars /\ ServesBound /\ ServesBound'
      => [Contract!Next]_Contract!vars
  BY StepRefines
<1> QED BY <1>1, <1>2, <1>3, <1>4, ProcessStaysSound, PTL DEF Spec, KeepsContract, Contract!Spec

=============================================================================

---------------------------- MODULE PortRegistry ----------------------------
(***************************************************************************)
(* The port registry of a node process (node/port_registry.go).            *)
(*                                                                         *)
(* Every controller claims, before it opens anything, the listeners its    *)
(* protocol will bind.  The registry is shared by all controllers of the   *)
(* process; a mutex makes reserve and release atomic.                      *)
(*                                                                         *)
(* The listener slice is modelled as a set: its order is never observable, *)
(* and the specs of one request differ in their transport.                 *)
(***************************************************************************)
EXTENDS Naturals, FiniteSets

CONSTANTS
  Cores,        \* core types, "xray" and "sing" in the program
  LogicalTags,  \* logical tags of controllers
  ListenIPs,    \* the addresses an operator may put in Options.ListenIP
  PanelPorts,   \* the port numbers a panel may send (a Go int)
  Unset,        \* the empty ListenIP
  Wild4,        \* "0.0.0.0"
  Wild6,        \* "::"
  NoKey         \* absence of a runtime key

ASSUME PortsAreNaturals == PanelPorts \subseteq Nat
ASSUME WildcardsDiffer == Wild4 # Wild6 /\ Unset \notin ListenIPs \cup {Wild4, Wild6}
ASSUME NoKeyIsNoKey == NoKey \notin Cores \X LogicalTags

VARIABLES
  listeners,    \* set of [addr, port, transport, runtimeKey, logicalTag]
  logicalTags,  \* logical tag -> owning runtime key, or NoKey
  runtimeKeys   \* the runtime keys that hold a reservation

registryVars == <<listeners, logicalTags, runtimeKeys>>

-----------------------------------------------------------------------------
(* Listener specs.                                                         *)

PortSpace == 65536

Protocols == {"shadowsocks", "hysteria", "hysteria2", "tuic", "vless", "vmess", "trojan", "anytls"}

Transports == {"tcp", "udp"}

protocolTransports(protocol) ==
  CASE protocol = "shadowsocks"         -> Transports
    [] protocol \in {"hysteria", "hysteria2", "tuic"} -> {"udp"}
    [] OTHER                            -> {"tcp"}

\* Faulty variant, for the mutation runs only: the port is not cut.
protocolPortUncut(port) == port

\* uint16(c.<Protocol>.Port): the conversion keeps the low 16 bits.
protocolPort(port) == port % PortSpace

listenerSpecsFor(protocol, port, listenIP) ==
  { [addr |-> listenIP, port |-> protocolPort(port), transport |-> t]
      : t \in protocolTransports(protocol) }

\* Faulty variant: the empty address stays empty.
normalizeListenAddrNot(addr) == addr

normalizeListenAddr(addr) == IF addr = Unset THEN Wild4 ELSE addr

Normalized(specs) ==
  { [s EXCEPT !.addr = normalizeListenAddr(s.addr)] : s \in specs }

\* specificV4 in the code: whatever is neither wildcard, an IPv6 address too.
Specific(addr) == addr \notin {Wild4, Wild6}

WildcardClash(a, b) ==
  \/ a = Wild4 /\ Specific(b)
  \/ a = Wild4 /\ b = Wild6

listenerConflict(a, b) ==
  /\ a.transport = b.transport
  /\ a.port = b.port
  /\ \/ a.addr = b.addr
     \/ WildcardClash(a.addr, b.addr)
     \/ WildcardClash(b.addr, a.addr)

RuntimeKeys == Cores \X LogicalTags
RuntimeKey(core, tag) == <<core, tag>>

Addrs == ListenIPs \cup {Wild4, Wild6}
Spec16 == [addr : Addrs, port : 0 .. PortSpace - 1, transport : Transports]

-----------------------------------------------------------------------------
(* Operations.                                                             *)

\* Faulty variant: duplicate keys and tags are not refused.
ReservableListenersOnly(rk, tag, specs) ==
  \A s \in Normalized(specs), e \in listeners : ~listenerConflict(s, e)

\* reserve's three refusals, each before anything is written.
Reservable(rk, tag, specs) ==
  /\ rk \notin runtimeKeys
  /\ logicalTags[tag] = NoKey
  /\ \A s \in Normalized(specs), e \in listeners : ~listenerConflict(s, e)

ListenerOwner(s, rk, tag) ==
  [addr |-> s.addr, port |-> s.port, transport |-> s.transport,
   runtimeKey |-> rk, logicalTag |-> tag]

reserve(rk, tag, specs) ==
  /\ Reservable(rk, tag, specs)
  /\ runtimeKeys' = runtimeKeys \cup {rk}
  /\ logicalTags' = [logicalTags EXCEPT ![tag] = rk]
  /\ listeners' = listeners \cup { ListenerOwner(s, rk, tag) : s \in Normalized(specs) }

\* The loop over logicalTags deletes the first entry owned by rk and breaks.
ForgetTag(rk) ==
  LET owned == { t \in LogicalTags : logicalTags[t] = rk }
  IN  IF owned = {} THEN UNCHANGED logicalTags
      ELSE \E t \in owned : logicalTags' = [logicalTags EXCEPT ![t] = NoKey]

\* Faulty variant: the listeners of the key stay on the books.
releaseKeepsListeners(rk) ==
  IF rk \notin runtimeKeys THEN UNCHANGED registryVars
  ELSE /\ runtimeKeys' = runtimeKeys \ {rk}
       /\ ForgetTag(rk)
       /\ UNCHANGED listeners

\* A key that never reserved anything is a no-op.
release(rk) ==
  IF rk \notin runtimeKeys THEN UNCHANGED registryVars
  ELSE /\ runtimeKeys' = runtimeKeys \ {rk}
       /\ ForgetTag(rk)
       /\ listeners' = { e \in listeners : e.runtimeKey # rk }

-----------------------------------------------------------------------------

Init ==
  /\ listeners = {}
  /\ logicalTags = [t \in LogicalTags |-> NoKey]
  /\ runtimeKeys = {}

Reserve(core, tag, protocol, port, listenIP) ==
  reserve(RuntimeKey(core, tag), tag, listenerSpecsFor(protocol, port, listenIP))

Release(core, tag) == release(RuntimeKey(core, tag))

Next ==
  \E core \in Cores, tag \in LogicalTags :
    \/ \E protocol \in Protocols, port \in PanelPorts, ip \in ListenIPs \cup {Unset} :
         Reserve(core, tag, protocol, port, ip)
    \/ Release(core, tag)

Spec == Init /\ [][Next]_registryVars

-----------------------------------------------------------------------------
(* Properties.                                                             *)

Owner == [addr : Addrs, port : 0 .. PortSpace - 1, transport : Transports,
          runtimeKey : RuntimeKeys, logicalTag : LogicalTags]

\* The types of the three tables of portRegistry.
TypeOK ==
  /\ listeners \subseteq Owner
  /\ logicalTags \in [LogicalTags -> RuntimeKeys \cup {NoKey}]
  /\ runtimeKeys \subseteq RuntimeKeys

\* What a listener occupies, by the table above portRegistry: the wildcard
\* (which an unset address means) takes every address, any other only itself.
Occupies(addr) == IF addr \in {Unset, Wild4} THEN Addrs \cup {Unset} ELSE {addr}

Overlap(e, f) ==
  /\ e.transport = f.transport /\ e.port = f.port
  /\ Occupies(e.addr) \cap Occupies(f.addr) # {}

\* Two controllers never hold listeners that occupy a common address, port
\* and transport, whatever was reserved and released before: reserve compares
\* every requested spec, after normalisation, with every spec held.
Exclusive ==
  \A e, f \in listeners : e.runtimeKey # f.runtimeKey => ~Overlap(e, f)

\* release returns early for a key that is not in runtimeKeys, so a tag or a
\* listener left behind without its key could never be freed again and would
\* block its port for the life of the process.  Tags and keys pair up, and
\* every listener belongs to such a pair.
NoOrphan ==
  /\ \A t \in LogicalTags : logicalTags[t] # NoKey => logicalTags[t] \in runtimeKeys
  /\ \A rk \in runtimeKeys : \E t \in LogicalTags : logicalTags[t] = rk
  /\ \A e \in listeners : logicalTags[e.logicalTag] = e.runtimeKey

\* Releasing one controller never takes away, and reserving for one never
\* alters, what another one holds.
OthersUntouched ==
  [][ \A rk \in runtimeKeys \cap runtimeKeys' :
        /\ { e \in listeners' : e.runtimeKey = rk } = { e \in listeners : e.runtimeKey = rk }
        /\ \A t \in LogicalTags : logicalTags[t] = rk <=> logicalTags'[t] = rk
    ]_registryVars

=============================================================================

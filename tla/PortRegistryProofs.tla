------------------------- MODULE PortRegistryProofs -------------------------
(***************************************************************************)
(* Proofs about the port registry, for any cores, tags, addresses, ports.  *)
(*                                                                         *)
(* Exclusive is inductive because reserve compares the new specs with all  *)
(* the listeners held; NoOrphan and OneTagPerKey support each other.       *)
(***************************************************************************)
EXTENDS PortRegistry, TLAPS

\* No two tags name the same runtime key, so the break in release's loop over
\* logicalTags never leaves a second tag behind.
OneTagPerKey ==
  \A s, t \in LogicalTags :
    logicalTags[s] = logicalTags[t] /\ logicalTags[s] # NoKey => s = t

\* The inductive invariant: the types and the three safety invariants.
RegistryInv == TypeOK /\ Exclusive /\ NoOrphan /\ OneTagPerKey

(* On normalised addresses the code's case analysis says exactly when two  *)
(* listeners overlap, so its order of arguments does not matter either.    *)
LEMMA ConflictIsOverlap ==
  ASSUME NEW a, NEW b, a.addr \in Addrs, b.addr \in Addrs
  PROVE  listenerConflict(a, b) <=> Overlap(a, b)
<1>1. a.addr # Unset /\ b.addr # Unset
  BY WildcardsDiffer DEF Addrs
<1>2. CASE a.addr = Wild4
  BY <1>1, <1>2 DEF listenerConflict, WildcardClash, Specific, Overlap, Occupies
<1>3. CASE a.addr # Wild4 /\ b.addr = Wild4
  BY <1>1, <1>3 DEF listenerConflict, WildcardClash, Specific, Overlap, Occupies
<1>4. CASE a.addr # Wild4 /\ b.addr # Wild4
  BY <1>1, <1>4 DEF listenerConflict, WildcardClash, Specific, Overlap, Occupies
<1> QED BY <1>2, <1>3, <1>4

(* The specs a controller asks for have a 16-bit port and, once            *)
(* normalised, a known address.                                            *)
LEMMA RequestType ==
  ASSUME NEW protocol, NEW port \in PanelPorts, NEW ip \in ListenIPs \cup {Unset}
  PROVE  Normalized(listenerSpecsFor(protocol, port, ip)) \subseteq Spec16
<1>1. port % PortSpace \in 0 .. PortSpace - 1
  BY PortsAreNaturals DEF PortSpace
<1>2. protocolTransports(protocol) \subseteq Transports
  BY DEF protocolTransports, Transports
<1>3. SUFFICES ASSUME NEW t \in Transports
               PROVE  [[addr |-> ip, port |-> port % PortSpace, transport |-> t]
                         EXCEPT !.addr = normalizeListenAddr(ip)] \in Spec16
  BY <1>2 DEF Normalized, listenerSpecsFor, protocolPort
<1>4. normalizeListenAddr(ip) \in Addrs
  BY DEF normalizeListenAddr, Addrs
<1> QED BY <1>1, <1>4 DEF Spec16

(* The registry's tables are well typed and every listener set it grants   *)
(* is free of conflicts between owners, in every reachable state.          *)
LEMMA ReserveKeepsInv ==
  ASSUME RegistryInv,
         NEW rk \in RuntimeKeys, NEW tag \in LogicalTags, NEW specs,
         Normalized(specs) \subseteq Spec16,
         reserve(rk, tag, specs)
  PROVE  RegistryInv'
<1> DEFINE new == { ListenerOwner(s, rk, tag) : s \in Normalized(specs) }
<1>1. /\ rk \notin runtimeKeys
      /\ logicalTags[tag] = NoKey
      /\ \A s \in Normalized(specs), e \in listeners : ~listenerConflict(s, e)
      /\ runtimeKeys' = runtimeKeys \cup {rk}
      /\ logicalTags' = [logicalTags EXCEPT ![tag] = rk]
      /\ listeners' = listeners \cup new
  BY DEF reserve, Reservable
<1>2. \A e \in new : /\ e \in Owner
                     /\ e.runtimeKey = rk
                     /\ e.logicalTag = tag
                     /\ \E s \in Normalized(specs) :
                          s.addr = e.addr /\ s.port = e.port /\ s.transport = e.transport
  BY DEF ListenerOwner, Owner, Spec16
<1>3. TypeOK'
  BY <1>1, <1>2 DEF RegistryInv, TypeOK
<1>4. NoKey # rk
  BY NoKeyIsNoKey DEF RuntimeKeys
<1>5. Exclusive'
  <2>1. \A e \in new, f \in listeners : ~listenerConflict(e, f)
    BY <1>1, <1>2 DEF listenerConflict
  <2>2. \A e \in new \cup listeners : e.addr \in Addrs
    BY <1>2 DEF RegistryInv, TypeOK, Owner
  <2>3. \A e \in new, f \in listeners : ~Overlap(e, f)
    BY <2>1, <2>2, ConflictIsOverlap
  <2>4. \A e \in listeners, f \in new : ~Overlap(e, f)
    BY <2>3 DEF Overlap
  <2> QED BY <1>1, <1>2, <2>3, <2>4 DEF RegistryInv, Exclusive
<1>6. NoOrphan'
  <2>1. \A t \in LogicalTags : logicalTags'[t] # NoKey => logicalTags'[t] \in runtimeKeys'
    BY <1>1 DEF RegistryInv, NoOrphan, TypeOK
  <2>2. \A k \in runtimeKeys' : \E t \in LogicalTags : logicalTags'[t] = k
    BY <1>1, <1>4, NoKeyIsNoKey DEF RegistryInv, NoOrphan, TypeOK, RuntimeKeys
  <2>3. \A e \in listeners' : logicalTags'[e.logicalTag] = e.runtimeKey
    <3>1. \A e \in listeners : e.logicalTag # tag
      BY <1>1, NoKeyIsNoKey DEF RegistryInv, NoOrphan, TypeOK, Owner, RuntimeKeys
    <3> QED BY <1>1, <1>2, <3>1 DEF RegistryInv, NoOrphan, TypeOK, Owner
  <2> QED BY <2>1, <2>2, <2>3 DEF NoOrphan
<1>7. OneTagPerKey'
  <2>1. \A t \in LogicalTags : logicalTags[t] # rk
    BY <1>1, <1>4 DEF RegistryInv, NoOrphan
  <2> QED BY <1>1, <2>1 DEF RegistryInv, OneTagPerKey, TypeOK
<1> QED BY <1>3, <1>5, <1>6, <1>7 DEF RegistryInv

LEMMA ReleaseKeepsInv ==
  ASSUME RegistryInv, NEW rk \in RuntimeKeys, release(rk)
  PROVE  RegistryInv'
<1>1. CASE rk \notin runtimeKeys
  BY <1>1 DEF release, registryVars, RegistryInv, TypeOK, Exclusive, NoOrphan, OneTagPerKey
<1>2. CASE rk \in runtimeKeys
  <2>1. PICK tag \in LogicalTags : logicalTags[tag] = rk
    BY <1>2 DEF RegistryInv, NoOrphan
  <2>2. NoKey # rk
    BY NoKeyIsNoKey DEF RuntimeKeys
  <2>3. /\ runtimeKeys' = runtimeKeys \ {rk}
        /\ listeners' = { e \in listeners : e.runtimeKey # rk }
        /\ logicalTags' = [logicalTags EXCEPT ![tag] = NoKey]
    BY <1>2, <2>1, <2>2 DEF release, ForgetTag, RegistryInv, OneTagPerKey
  <2>4. TypeOK'
    BY <2>3 DEF RegistryInv, TypeOK
  <2>5. Exclusive'
    BY <2>3 DEF RegistryInv, Exclusive
  <2>6. NoOrphan'
    <3>1. \A t \in LogicalTags : t # tag => logicalTags[t] # rk
      BY <2>1, <2>2 DEF RegistryInv, OneTagPerKey
    <3>2. \A t \in LogicalTags : logicalTags'[t] # NoKey => logicalTags'[t] \in runtimeKeys'
      BY <2>3, <3>1 DEF RegistryInv, NoOrphan, TypeOK
    <3>3. \A k \in runtimeKeys' : \E t \in LogicalTags : logicalTags'[t] = k
      BY <2>1, <2>3 DEF RegistryInv, NoOrphan, TypeOK
    <3>4. \A e \in listeners' : logicalTags'[e.logicalTag] = e.runtimeKey
      BY <2>1, <2>3 DEF RegistryInv, NoOrphan, TypeOK, Owner
    <3> QED BY <3>2, <3>3, <3>4 DEF NoOrphan
  <2>7. OneTagPerKey'
    BY <2>3 DEF RegistryInv, OneTagPerKey, TypeOK
  <2> QED BY <2>4, <2>5, <2>6, <2>7 DEF RegistryInv
<1> QED BY <1>1, <1>2

LEMMA RegistryInvInit == Init => RegistryInv
<1> SUFFICES ASSUME Init PROVE RegistryInv
  OBVIOUS
<1>1. TypeOK
  BY DEF Init, TypeOK
<1>2. Exclusive /\ NoOrphan /\ OneTagPerKey
  BY DEF Init, Exclusive, NoOrphan, OneTagPerKey
<1> QED BY <1>1, <1>2 DEF RegistryInv

LEMMA RegistryInvStep == RegistryInv /\ [Next]_registryVars => RegistryInv'
<1> SUFFICES ASSUME RegistryInv, [Next]_registryVars PROVE RegistryInv'
  OBVIOUS
<1>1. ASSUME NEW core \in Cores, NEW tag \in LogicalTags, NEW protocol \in Protocols,
             NEW port \in PanelPorts, NEW ip \in ListenIPs \cup {Unset},
             Reserve(core, tag, protocol, port, ip)
      PROVE  RegistryInv'
  <2>1. RuntimeKey(core, tag) \in RuntimeKeys
    BY DEF RuntimeKey, RuntimeKeys
  <2>2. Normalized(listenerSpecsFor(protocol, port, ip)) \subseteq Spec16
    BY RequestType
  <2> QED BY <1>1, <2>1, <2>2, ReserveKeepsInv DEF Reserve
<1>2. ASSUME NEW core \in Cores, NEW tag \in LogicalTags, Release(core, tag)
      PROVE  RegistryInv'
  <2>1. RuntimeKey(core, tag) \in RuntimeKeys
    BY DEF RuntimeKey, RuntimeKeys
  <2> QED BY <1>2, <2>1, ReleaseKeepsInv DEF Release
<1>3. CASE UNCHANGED registryVars
  BY <1>3 DEF registryVars, RegistryInv, TypeOK, Exclusive, NoOrphan, OneTagPerKey
<1> QED BY <1>1, <1>2, <1>3 DEF Next

(* Type correctness of the registry's tables.                              *)
THEOREM TypeCorrect == Spec => []TypeOK
<1>1. RegistryInv => TypeOK
  BY DEF RegistryInv
<1> QED BY <1>1, RegistryInvInit, RegistryInvStep, PTL DEF Spec

(* No two controllers are ever granted listeners that conflict.            *)
THEOREM ListenersExclusive == Spec => []Exclusive
<1>1. RegistryInv => Exclusive
  BY DEF RegistryInv
<1> QED BY <1>1, RegistryInvInit, RegistryInvStep, PTL DEF Spec

(* Every tag and listener on the books belongs to a key release can free.  *)
THEOREM NothingOrphaned == Spec => []NoOrphan
<1>1. RegistryInv => NoOrphan
  BY DEF RegistryInv
<1> QED BY <1>1, RegistryInvInit, RegistryInvStep, PTL DEF Spec

(* Reserving and releasing touch only the key they are called for.         *)
THEOREM OtherControllersUntouched == Spec => OthersUntouched
<1> DEFINE Same == \A rk \in runtimeKeys \cap runtimeKeys' :
        /\ { e \in listeners' : e.runtimeKey = rk } = { e \in listeners : e.runtimeKey = rk }
        /\ \A t \in LogicalTags : logicalTags[t] = rk <=> logicalTags'[t] = rk
<1>1. ASSUME RegistryInv, NEW k \in RuntimeKeys, NEW tag \in LogicalTags, NEW specs,
             reserve(k, tag, specs)
      PROVE  Same
  <2>1. /\ k \notin runtimeKeys
        /\ logicalTags[tag] = NoKey
        /\ logicalTags' = [logicalTags EXCEPT ![tag] = k]
        /\ listeners' = listeners \cup { ListenerOwner(s, k, tag) : s \in Normalized(specs) }
    BY <1>1 DEF reserve, Reservable
  <2>2. \A e \in { ListenerOwner(s, k, tag) : s \in Normalized(specs) } : e.runtimeKey = k
    BY DEF ListenerOwner
  <2>3. NoKey \notin runtimeKeys
    BY <1>1, NoKeyIsNoKey DEF RegistryInv, TypeOK, RuntimeKeys
  <2> QED BY <1>1, <2>1, <2>2, <2>3 DEF RegistryInv, TypeOK
<1>2. ASSUME RegistryInv, NEW k \in RuntimeKeys, release(k)
      PROVE  Same
  <2>1. CASE k \notin runtimeKeys
    BY <1>2, <2>1 DEF release, registryVars
  <2>2. CASE k \in runtimeKeys
    <3>1. PICK tag \in LogicalTags : /\ logicalTags[tag] = k
                                     /\ logicalTags' = [logicalTags EXCEPT ![tag] = NoKey]
      BY <1>2, <2>2 DEF release, ForgetTag, RegistryInv, NoOrphan
    <3>2. NoKey \notin runtimeKeys
      BY <1>2, NoKeyIsNoKey DEF RegistryInv, TypeOK, RuntimeKeys
    <3>3. /\ runtimeKeys' = runtimeKeys \ {k}
          /\ listeners' = { e \in listeners : e.runtimeKey # k }
      BY <1>2, <2>2 DEF release
    <3> QED BY <1>2, <3>1, <3>2, <3>3 DEF RegistryInv, TypeOK
  <2> QED BY <2>1, <2>2
<1>3. ASSUME RegistryInv, Next PROVE Same
  <2>1. ASSUME NEW core \in Cores, NEW tag \in LogicalTags, NEW protocol \in Protocols,
               NEW port \in PanelPorts, NEW ip \in ListenIPs \cup {Unset},
               Reserve(core, tag, protocol, port, ip)
        PROVE  Same
    BY <1>1, <1>3, <2>1 DEF Reserve, RuntimeKey, RuntimeKeys
  <2>2. ASSUME NEW core \in Cores, NEW tag \in LogicalTags, Release(core, tag)
        PROVE  Same
    BY <1>2, <1>3, <2>2 DEF Release, RuntimeKey, RuntimeKeys
  <2> QED BY <1>3, <2>1, <2>2 DEF Next
<1>4. RegistryInv /\ [Next]_registryVars => [Same]_registryVars
  BY <1>3
<1> QED BY <1>4, RegistryInvInit, RegistryInvStep, PTL DEF Spec, OthersUntouched
=============================================================================

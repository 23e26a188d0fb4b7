-------------------------- MODULE CertificateProofs --------------------------
(***************************************************************************)
(* Proofs about Certificate, for any configs, files, mishaps and failures: *)
(* that controllers keep certificates of their own domain, that no error   *)
(* path keeps certIssuanceMu or a flight, that a certificate with a        *)
(* renewal task expires only after its checks have failed, and that a call *)
(* leaves a certificate with its key.                                      *)
(***************************************************************************)
EXTENDS Certificate, FiniteSetTheorems, TLAPS

\* What a controller can be.
States == {"off", "starting", "on", "plain", "reloading"}

\* The types.
Typed ==
  /\ disk \in [Files -> Contents]
  /\ state \in [Configs -> States]
  /\ missed \in [Configs -> 0 .. Life]
  /\ due \subseteq { c \in Configs : Acme(c) } /\ tasked \subseteq { c \in Configs : Acme(c) }
  /\ calls \subseteq { c \in Configs : Lifecycle(c) }
  /\ checked \subseteq Configs
  /\ claims \in [Files -> Claims \cup {Nil}]
  /\ flights \in [TaskKeys -> Flights \cup {Nil}]
  /\ mutex \in TaskKeys \cup {Nil}
  /\ torn \subseteq Configs

\* A flight is one for its task key, has a new key pair from the order on,
\* and holds certIssuanceMu from NewLego on when it needs the ACME server.
FlightOK(k) ==
  /\ certTaskKey(flights[k].cfg) = k /\ Lifecycle(flights[k].cfg)
  /\ flights[k].at \in {"decide", "lock", "lego", "order"} => flights[k].serial = 0
  /\ flights[k].at \in {"writeCert", "writeKey"} => flights[k].serial \in Serials
  /\ flights[k].at \in {"lock", "lego", "order"} => Acme(flights[k].cfg)
  /\ Acme(flights[k].cfg) => (mutex = k <=> flights[k].at \notin {"decide", "lock"})

FlightsInv ==
  /\ \A k \in TaskKeys : Flying(k) <=> Callers(k) # {}
  /\ \A k \in TaskKeys : Flying(k) => FlightOK(k)
  /\ mutex # Nil => Flying(mutex) /\ Acme(flights[mutex].cfg)

\* Both files of the config are claimed for its domain.
Owned(c) ==
  /\ claims[c.cert] # Nil /\ claims[c.cert].domain = c.domain
  /\ claims[c.key] # Nil /\ claims[c.key].domain = c.domain

OwnInv ==
  /\ \A k \in TaskKeys : Flying(k) => Owned(flights[k].cfg)
  /\ \A c \in Configs : state[c] = "on" /\ Lifecycle(c) => Owned(c)
  /\ OwnDomain
  /\ \A k \in TaskKeys : At(k, "writeKey") /\ IsCert(disk[k.cert]) =>
       disk[k.cert].domain = k.domain /\ disk[k.cert].left = Life

\* What a check of d leaves a certificate at least.
Margin(d) == IF renewBefore(d) < Life THEN renewBefore(d) ELSE Life

\* The certificate of c lives on for the margin of the last call that
\* succeeded for it, less the days since.
Fresh(c) ==
  \E d \in Configs :
    /\ certTaskKey(d) = certTaskKey(c)
    /\ c \in checked => disk[c.cert].left >= Margin(d)
    /\ c \notin checked => disk[c.cert].left + missed[c] + 1 >= Margin(d) \/ missed[c] = Life

TimeInv ==
  \A c \in tasked : state[c] = "on" /\ IsCert(disk[c.cert]) => Fresh(c)

\* The inductive invariant of the certificates.
CertInv == Typed /\ FlightsInv /\ OwnInv /\ TimeInv

-----------------------------------------------------------------------------
\* The key that a call is about to write is that of the certificate, and one
\* that is not torn has its key.
PairInv ==
  /\ \A k \in TaskKeys : At(k, "writeKey") /\ OneWriter(k.cert) /\ IsCert(disk[k.cert]) =>
       disk[k.cert].serial = flights[k].serial
  /\ Paired

-----------------------------------------------------------------------------
(* Task keys and what files hold.                                          *)

(* certTaskKey keeps the mode, the domain and the paths of a config.       *)
LEMMA KeyFields ==
  ASSUME NEW c \in Configs
  PROVE  /\ certTaskKey(c) \in TaskKeys
         /\ certTaskKey(c).mode = c.mode /\ certTaskKey(c).domain = c.domain
         /\ certTaskKey(c).cert = c.cert /\ certTaskKey(c).key = c.key
         /\ c.cert \in Files /\ c.key \in Files /\ c.domain \in Domains
BY ConfigsOK DEF certTaskKey, TaskKeys, Domains

(* Callers of one task key agree on all of that.                           *)
LEMMA SameTask ==
  ASSUME NEW c \in Configs, NEW d \in Configs, certTaskKey(c) = certTaskKey(d)
  PROVE  /\ c.mode = d.mode /\ c.domain = d.domain /\ c.cert = d.cert /\ c.key = d.key
         /\ (Acme(c) <=> Acme(d)) /\ (Lifecycle(c) <=> Lifecycle(d))
<1>1. c.mode = d.mode /\ c.domain = d.domain /\ c.cert = d.cert /\ c.key = d.key
  BY KeyFields
<1> QED BY <1>1 DEF Acme, Lifecycle

(* What a certificate is, and a key.                                       *)
LEMMA CertIs ==
  ASSUME NEW content, IsCert(content)
  PROVE  /\ content \in Contents /\ content \notin {Missing, Corrupt} /\ content \notin Keys
         /\ content.serial \in Serials /\ content.domain \in Domains
         /\ content.left \in -1 .. Life
BY DisksOK DEF Contents, IsCert, Certs

LEMMA KeyIs ==
  ASSUME NEW serial \in Serials
  PROVE  /\ [key |-> serial] \in Contents /\ ~IsCert([key |-> serial])
         /\ [key |-> serial].key = serial
BY DisksOK DEF Contents, IsCert, Keys

(* ACME modes are modes with a lifecycle.                                  *)
LEMMA AcmeLives == ASSUME NEW c, Acme(c) PROVE Lifecycle(c)
BY DEF Acme, Lifecycle

(* A margin is at most the life of a certificate, and not negative.        *)
LEMMA MarginRange ==
  ASSUME NEW d \in Configs
  PROVE  renewBefore(d) \in Nat \ {0} /\ Margin(d) \in 0 .. Life /\ Life \in Nat
BY ConfigsOK, BoundsOK DEF Margin, renewBefore, DefaultRenewBeforeDays

(* A flight that has been started, and its config.                         *)
LEMMA FlightOf ==
  ASSUME Typed, FlightsInv, NEW k \in TaskKeys, Flying(k)
  PROVE  /\ flights[k] \in Flights /\ flights[k].cfg \in Configs /\ FlightOK(k)
         /\ certTaskKey(flights[k].cfg) = k /\ Lifecycle(flights[k].cfg)
         /\ k.domain = flights[k].cfg.domain /\ k.mode = flights[k].cfg.mode
         /\ k.cert = flights[k].cfg.cert /\ k.key = flights[k].cfg.key
         /\ k.cert \in Files /\ k.key \in Files /\ k.domain \in Domains
<1>1. flights[k] \in Flights /\ FlightOK(k)
  BY DEF Typed, FlightsInv, Flying
<1>2. flights[k].cfg \in Configs
  BY <1>1 DEF Flights
<1> QED BY <1>1, <1>2, KeyFields DEF FlightOK

(* A set that a finite one is mapped onto is no larger.                    *)
LEMMA ImageSize ==
  ASSUME NEW S, IsFiniteSet(S), NEW R, NEW f \in Surjection(S, R)
  PROVE  IsFiniteSet(R) /\ Cardinality(R) <= Cardinality(S) /\ Cardinality(R) \in Nat
BY FS_Surjection, FS_CardinalityType

(* There are finitely many task keys.                                      *)
LEMMA KeysFinite == IsFiniteSet(TaskKeys) /\ Cardinality(TaskKeys) \in Nat
<1> DEFINE f == [c \in Configs |-> certTaskKey(c)]
           T == { certTaskKey(c) : c \in Configs }
<1>1. f \in Surjection(Configs, T)
  BY DEF Surjection
<1>2. IsFiniteSet(T)
  <2> HIDE DEF f, T
  <2> QED BY <1>1, ConfigsOK, ImageSize
<1>3. TaskKeys = T
  BY DEF TaskKeys
<1> QED BY <1>1, <1>2, <1>3, FS_CardinalityType

(* A new key pair is one that no file and no other flight has.             *)
LEMMA FreshSerialOK ==
  ASSUME Typed, NEW k \in TaskKeys, flights[k].serial = 0
  PROVE  FreshSerial \in Serials
<1> DEFINE df == [f \in Files |-> IF IsCert(disk[f]) THEN disk[f].serial ELSE disk[f].key]
           D == { df[f] : f \in Files }
           J == TaskKeys \ {k}
           jf == [j \in J |-> flights[j].serial]
           E == { jf[j] : j \in J }
<1>1. /\ IsFiniteSet(Files) /\ Cardinality(Files) \in Nat
      /\ IsFiniteSet(J) /\ Cardinality(J) = Cardinality(TaskKeys) - 1 /\ Cardinality(J) \in Nat
      /\ Cardinality(TaskKeys) \in Nat
  BY ConfigsOK, KeysFinite, FS_RemoveElement, FS_CardinalityType
<1>2. IsFiniteSet(D) /\ Cardinality(D) <= Cardinality(Files) /\ Cardinality(D) \in Nat
  <2>1. df \in Surjection(Files, D)
    BY DEF Surjection
  <2> HIDE DEF df, D
  <2> QED BY <1>1, <2>1, ImageSize
<1>3. IsFiniteSet(E) /\ Cardinality(E) <= Cardinality(J) /\ Cardinality(E) \in Nat
  <2>1. jf \in Surjection(J, E)
    BY DEF Surjection
  <2> HIDE DEF jf, J, E
  <2> QED BY <1>1, <2>1, ImageSize
<1>4. Used \subseteq D \cup E \cup {0}
  <2>1. ASSUME NEW f \in Files
        PROVE  /\ IsCert(disk[f]) => disk[f].serial \in D
               /\ disk[f] \in Keys => disk[f].key \in D
    <3>1. /\ IsCert(disk[f]) => df[f] = disk[f].serial
          /\ disk[f] \in Keys => df[f] = disk[f].key
      BY CertIs
    <3> HIDE DEF df
    <3>2. df[f] \in D
      OBVIOUS
    <3> QED BY <3>1, <3>2
  <2>2. ASSUME NEW j \in TaskKeys PROVE flights[j].serial \in E \cup {0}
    <3>1. CASE j = k
      BY <3>1
    <3>2. CASE j # k
      <4>1. j \in J /\ jf[j] = flights[j].serial
        BY <3>2
      <4> QED BY <4>1
    <3> QED BY <3>1, <3>2
  <2> HIDE DEF D, E
  <2> QED BY <2>1, <2>2 DEF Used
<1> HIDE DEF D, E, J
<1>5. /\ IsFiniteSet(D \cup E) /\ Cardinality(D \cup E) \in Nat
      /\ Cardinality(D \cup E) <= Cardinality(Files) + Cardinality(TaskKeys) - 1
  <2>1. IsFiniteSet(D \cap E) /\ Cardinality(D \cap E) \in Nat
    BY <1>2, FS_Subset, FS_CardinalityType
  <2>2. /\ IsFiniteSet(D \cup E)
        /\ Cardinality(D \cup E) = Cardinality(D) + Cardinality(E) - Cardinality(D \cap E)
    BY <1>2, <1>3, FS_Union
  <2>3. Cardinality(D \cup E) \in Nat
    BY <2>2, FS_CardinalityType
  <2> QED BY <1>1, <1>2, <1>3, <2>1, <2>2, <2>3
<1>6. Serials = 1 .. Cardinality(Files) + Cardinality(TaskKeys)
  BY DEF Serials
<1>7. IsFiniteSet(Serials) /\ Cardinality(Serials) = Cardinality(Files) + Cardinality(TaskKeys)
  <2>1. 1 \in Int /\ Cardinality(Files) + Cardinality(TaskKeys) \in Nat
    BY <1>1
  <2> QED BY <1>6, <2>1, FS_Interval
<1>8. ~(Serials \subseteq D \cup E)
  <2> SUFFICES ASSUME Serials \subseteq D \cup E PROVE FALSE
    OBVIOUS
  <2>1. Cardinality(Serials) <= Cardinality(D \cup E)
    BY <1>5, FS_Subset
  <2> QED BY <1>1, <1>5, <1>7, <2>1
<1>9. 0 \notin Serials
  BY <1>6
<1>10. \E s \in Serials : s \notin Used
  BY <1>4, <1>8, <1>9
<1> QED BY <1>10 DEF FreshSerial

-----------------------------------------------------------------------------
(* What a step does to the files, and to the controllers that use them.    *)

\* A file that parses is as it was, or was written by its claimant now.
Written ==
  \A f \in Files : IsCert(disk'[f]) =>
    \/ IsCert(disk[f]) /\ disk'[f] = disk[f]
    \/ /\ claims[f] # Nil /\ disk'[f].domain = claims[f].domain
       /\ disk'[f].left = Life

(* Controllers keep certificates of their domain: a file is rewritten for  *)
(* the domain that claimed it only, and a controller starts with a file    *)
(* that covers its domain.                                                 *)
LEMMA OwnStep ==
  ASSUME CertInv, claims' = claims, Written,
         \A k \in TaskKeys : Flying(k)' => Flying(k) /\ flights'[k].cfg = flights[k].cfg,
         \A c \in Configs : state'[c] = "on" /\ Lifecycle(c) =>
           \/ state[c] = "on"
           \/ /\ Flying(certTaskKey(c))
              /\ IsCert(disk'[c.cert]) => disk'[c.cert].domain = c.domain,
         \A k \in TaskKeys : At(k, "writeKey")' =>
           \/ At(k, "writeKey")
           \/ IsCert(disk'[k.cert]) => disk'[k.cert].domain = k.domain /\ disk'[k.cert].left = Life
  PROVE  OwnInv'
<1>1. Typed /\ FlightsInv /\ OwnInv
  BY DEF CertInv
<1>2. \A c : Owned(c)' <=> Owned(c)
  BY DEF Owned
<1>3. ASSUME NEW k \in TaskKeys, Flying(k)' PROVE Owned(flights[k].cfg)'
  BY <1>1, <1>2, <1>3 DEF OwnInv
<1>4. ASSUME NEW c \in Configs, state'[c] = "on", Lifecycle(c) PROVE Owned(c)
  <2>1. CASE state[c] = "on"
    BY <1>1, <1>4, <2>1 DEF OwnInv
  <2>2. CASE Flying(certTaskKey(c))
    <3>1. PICK k \in TaskKeys : k = certTaskKey(c)
      BY KeyFields
    <3>2. PICK d \in Configs : d = flights[k].cfg /\ certTaskKey(d) = certTaskKey(c)
      BY <1>1, <2>2, <3>1, FlightOf
    <3>3. Owned(d)
      BY <1>1, <2>2, <3>1, <3>2 DEF OwnInv
    <3> QED BY <3>2, <3>3, SameTask DEF Owned
  <2> QED BY <1>4, <2>1, <2>2
<1>5. ASSUME NEW c \in Configs, state'[c] = "on", Lifecycle(c), IsCert(disk'[c.cert])
      PROVE  disk'[c.cert].domain = c.domain
  <2>1. Owned(c) /\ c.cert \in Files
    BY <1>4, <1>5, KeyFields
  <2>2. CASE state[c] = "on" /\ IsCert(disk[c.cert]) /\ disk'[c.cert] = disk[c.cert]
    BY <1>1, <1>5, <2>2 DEF OwnInv, OwnDomain
  <2>3. CASE disk'[c.cert].domain = claims[c.cert].domain
    BY <2>1, <2>3 DEF Owned
  <2> QED BY <1>5, <2>1, <2>2, <2>3 DEF Written
<1>6. ASSUME NEW k \in TaskKeys, At(k, "writeKey")', IsCert(disk'[k.cert])
      PROVE  disk'[k.cert].domain = k.domain /\ disk'[k.cert].left = Life
  <2> SUFFICES ASSUME At(k, "writeKey") PROVE disk'[k.cert].domain = k.domain /\ disk'[k.cert].left = Life
    BY <1>6
  <2>1. Flying(k)
    BY DEF At
  <2>2. Owned(flights[k].cfg) /\ k.cert = flights[k].cfg.cert /\ k.domain = flights[k].cfg.domain
        /\ k.cert \in Files
    BY <1>1, <2>1, FlightOf DEF OwnInv
  <2>3. CASE IsCert(disk[k.cert]) /\ disk'[k.cert] = disk[k.cert]
    BY <1>1, <2>3 DEF OwnInv
  <2>4. CASE disk'[k.cert].domain = claims[k.cert].domain /\ disk'[k.cert].left = Life
    BY <2>2, <2>4 DEF Owned
  <2> QED BY <1>6, <2>2, <2>3, <2>4 DEF Written
<1> QED BY <1>2, <1>3, <1>4, <1>5, <1>6 DEF OwnInv, OwnDomain

(* Certificates are renewed in time: no step but Day takes from what a     *)
(* certificate has left, and a call that succeeds leaves its margin.       *)
LEMMA TimeStep ==
  ASSUME CertInv, Written,
         tasked' \subseteq Configs,
         \A c \in Configs : state'[c] = "on" /\ c \in tasked' =>
           \/ /\ state[c] = "on" /\ c \in tasked /\ missed'[c] = missed[c]
              /\ c \in checked' <=> c \in checked
           \/ /\ c \in checked'
              /\ \E d \in Configs : /\ certTaskKey(d) = certTaskKey(c)
                                    /\ IsCert(disk'[c.cert]) => disk'[c.cert].left >= Margin(d)
  PROVE  TimeInv'
<1> SUFFICES ASSUME NEW c \in Configs, state'[c] = "on", c \in tasked', IsCert(disk'[c.cert])
             PROVE  Fresh(c)'
  BY DEF TimeInv
<1>1. Typed /\ TimeInv /\ c.cert \in Files
  BY KeyFields DEF CertInv
<1>2. \A d \in Configs : Margin(d) \in 0 .. Life /\ Life \in Nat /\ missed[c] \in 0 .. Life
  BY <1>1, MarginRange DEF Typed
<1>3. CASE /\ c \in checked'
           /\ \E d \in Configs : /\ certTaskKey(d) = certTaskKey(c)
                                 /\ IsCert(disk'[c.cert]) => disk'[c.cert].left >= Margin(d)
  BY <1>3 DEF Fresh
<1>4. CASE state[c] = "on" /\ c \in tasked /\ missed'[c] = missed[c] /\ (c \in checked' <=> c \in checked)
  <2>1. CASE IsCert(disk[c.cert]) /\ disk'[c.cert] = disk[c.cert]
    <3>1. Fresh(c)
      BY <1>1, <1>4, <2>1 DEF TimeInv
    <3> QED BY <1>4, <2>1, <3>1 DEF Fresh
  <2>2. CASE disk'[c.cert].left = Life
    <3>1. Life >= Margin(c) /\ Life + missed[c] + 1 >= Margin(c)
      BY <1>2
    <3> QED BY <1>4, <2>2, <3>1 DEF Fresh
  <2> QED BY <1>1, <2>1, <2>2 DEF Written
<1> QED BY <1>3, <1>4

-----------------------------------------------------------------------------
(* The steps of a flight.                                                  *)

(* acquire returns: its callers leave together, the flight lands, and      *)
(* certIssuanceMu is free if it held it.                                   *)
LEMMA FinishView ==
  ASSUME Typed, FlightsInv, NEW k \in TaskKeys, Flying(k), NEW ok \in BOOLEAN, Finish(k, ok)
  PROVE  /\ state' \in [Configs -> States]
         /\ missed' \in [Configs -> 0 .. Life] /\ due' \subseteq { c \in Configs : Acme(c) }
         /\ tasked' \subseteq { c \in Configs : Acme(c) }
         /\ calls' \subseteq calls /\ checked' \subseteq Configs
         /\ flights' \in [TaskKeys -> Flights \cup {Nil}] /\ mutex' \in TaskKeys \cup {Nil}
         /\ ~Flying(k)' /\ \A j \in TaskKeys \ {k} : flights'[j] = flights[j]
         /\ FlightsInv'
         /\ \A c \in Configs : state'[c] = "on" =>
              state[c] = "on" \/ (ok /\ certTaskKey(c) = k)
         /\ \A c \in Configs : state'[c] = "on" /\ c \in tasked' =>
              \/ /\ state[c] = "on" /\ c \in tasked /\ missed'[c] = missed[c]
                 /\ c \in checked' <=> c \in checked
              \/ ok /\ certTaskKey(c) = k /\ c \in checked'
<1>1. Return(Callers(k), ok)
  BY DEF Finish
<1>2. Callers(k) \subseteq Configs /\ \A c \in Callers(k) : c \in calls /\ certTaskKey(c) = k
  BY DEF Callers, Typed
<1>3. /\ calls' = calls \ Callers(k)
      /\ \A c \in Configs : state'[c] = IF c \in Callers(k) /\ state[c] = "starting"
                                        THEN IF ok THEN "on" ELSE "off"
                                        ELSE IF c \in Callers(k) /\ state[c] = "reloading"
                                        THEN IF ok THEN "on" ELSE "plain" ELSE state[c]
      /\ state' = [c \in Configs |-> state'[c]]
  BY <1>1 DEF Return
<1>4. state' \in [Configs -> States]
  BY <1>3 DEF Typed, States
<1>5. /\ due' \subseteq { c \in Configs : Acme(c) } /\ tasked' \subseteq { c \in Configs : Acme(c) }
      /\ \A c : c \in tasked' => c \in tasked \/ (c \in Callers(k) /\ ok /\ Acme(c) /\ state[c] = "starting")
  BY <1>1, <1>2 DEF Return, Typed
<1>6. /\ \A c : c \in checked' <=>
           c \in checked \/ (c \in Callers(k) /\ ok /\ Acme(c) /\ state[c] # "off")
      /\ \A c \in Configs : missed'[c] = IF c \in Callers(k) /\ ok /\ Acme(c) /\ state[c] # "off"
                                         THEN 0 ELSE missed[c]
      /\ missed' = [c \in Configs |-> missed'[c]]
  BY <1>1 DEF Return
<1>7. missed' \in [Configs -> 0 .. Life] /\ checked' \subseteq Configs
  BY <1>2, <1>6, BoundsOK DEF Typed
<1>8. /\ flights' \in [TaskKeys -> Flights \cup {Nil}] /\ flights'[k] = Nil
      /\ \A j \in TaskKeys \ {k} : flights'[j] = flights[j]
  BY DEF Finish, Typed
<1>9. mutex' = (IF mutex = k THEN Nil ELSE mutex) /\ mutex' \in TaskKeys \cup {Nil}
  BY DEF Finish, Typed
<1>10. FlightsInv'
  <2>1. ASSUME NEW j \in TaskKeys PROVE Flying(j)' <=> Callers(j)' # {}
    <3>1. CASE j = k
      <4>1. Callers(k)' = {}
        BY <1>3 DEF Callers
      <4> QED BY <1>8, <3>1, <4>1 DEF Flying
    <3>2. CASE j # k
      <4>1. Callers(j)' = Callers(j)
        BY <1>3, <3>2 DEF Callers
      <4>2. Flying(j)' <=> Flying(j)
        BY <1>8, <3>2 DEF Flying
      <4> QED BY <4>1, <4>2 DEF FlightsInv
    <3> QED BY <3>1, <3>2
  <2>2. ASSUME NEW j \in TaskKeys, Flying(j)' PROVE FlightOK(j)'
    <3>1. j # k
      BY <1>8, <2>2 DEF Flying
    <3>2. flights'[j] = flights[j] /\ Flying(j) /\ FlightOK(j)
      BY <1>8, <2>2, <3>1 DEF Flying, FlightsInv
    <3>3. mutex' = j <=> mutex = j
      BY <1>9, <3>1, NilOK
    <3> QED BY <3>2, <3>3 DEF FlightOK
  <2>3. ASSUME mutex' # Nil PROVE Flying(mutex)' /\ Acme(flights[mutex].cfg)'
    <3>1. mutex' = mutex /\ mutex # k /\ mutex \in TaskKeys /\ Flying(mutex)
          /\ Acme(flights[mutex].cfg)
      BY <1>9, <2>3 DEF FlightsInv, Typed
    <3>2. flights'[mutex'] = flights[mutex]
      BY <1>8, <3>1
    <3> QED BY <3>1, <3>2 DEF Flying
  <2> QED BY <2>1, <2>2, <2>3 DEF FlightsInv
<1>11. ASSUME NEW c \in Configs, state'[c] = "on"
       PROVE  /\ state[c] = "on" \/ (ok /\ certTaskKey(c) = k)
              /\ c \in tasked' => \/ /\ state[c] = "on" /\ c \in tasked /\ missed'[c] = missed[c]
                                     /\ c \in checked' <=> c \in checked
                                  \/ ok /\ certTaskKey(c) = k /\ c \in checked'
  <2>1. CASE c \in Callers(k) /\ ok
    BY <1>2, <1>3, <1>5, <1>6, <1>11, <2>1
  <2>2. CASE ~(c \in Callers(k) /\ ok)
    BY <1>3, <1>5, <1>6, <1>11, <2>2
  <2> QED BY <2>1, <2>2
<1>12. ~Flying(k)'
  BY <1>8 DEF Flying
<1> QED BY <1>3, <1>4, <1>5, <1>7, <1>8, <1>9, <1>10, <1>11, <1>12

(* A flight lands, having left its margin if it succeeded.                 *)
LEMMA FinishStep ==
  ASSUME CertInv, NEW k \in TaskKeys, Flying(k), NEW ok \in BOOLEAN, Finish(k, ok),
         claims' = claims, disk' \in [Files -> Contents], torn' \subseteq Configs, Written,
         ok /\ IsCert(disk'[k.cert]) =>
           disk'[k.cert].domain = k.domain /\ disk'[k.cert].left >= Margin(flights[k].cfg)
  PROVE  CertInv'
<1>1. Typed /\ FlightsInv
  BY DEF CertInv
<1>2. /\ state' \in [Configs -> States]
      /\ missed' \in [Configs -> 0 .. Life] /\ due' \subseteq { c \in Configs : Acme(c) }
      /\ tasked' \subseteq { c \in Configs : Acme(c) }
      /\ calls' \subseteq calls /\ checked' \subseteq Configs
      /\ flights' \in [TaskKeys -> Flights \cup {Nil}] /\ mutex' \in TaskKeys \cup {Nil}
      /\ ~Flying(k)' /\ \A j \in TaskKeys \ {k} : flights'[j] = flights[j]
      /\ FlightsInv'
  BY <1>1, FinishView
<1>3. /\ \A c \in Configs : state'[c] = "on" => state[c] = "on" \/ (ok /\ certTaskKey(c) = k)
      /\ \A c \in Configs : state'[c] = "on" /\ c \in tasked' =>
           \/ /\ state[c] = "on" /\ c \in tasked /\ missed'[c] = missed[c]
              /\ c \in checked' <=> c \in checked
           \/ ok /\ certTaskKey(c) = k /\ c \in checked'
  BY <1>1, FinishView
<1>4. PICK d \in Configs : d = flights[k].cfg /\ certTaskKey(d) = k
  BY <1>1, FlightOf
<1>5. \A c \in Configs : certTaskKey(c) = k => c.cert = k.cert /\ c.domain = k.domain
  BY KeyFields
<1>6. Typed'
  BY <1>1, <1>2 DEF Typed
<1>7. OwnInv'
  <2>1. \A j \in TaskKeys : Flying(j)' => Flying(j) /\ flights'[j].cfg = flights[j].cfg
    BY <1>2 DEF Flying
  <2>2. \A j \in TaskKeys : At(j, "writeKey")' => At(j, "writeKey")
    BY <1>2 DEF At, Flying
  <2>3. \A c \in Configs : state'[c] = "on" /\ Lifecycle(c) =>
          \/ state[c] = "on"
          \/ /\ Flying(certTaskKey(c))
             /\ IsCert(disk'[c.cert]) => disk'[c.cert].domain = c.domain
    BY <1>3, <1>5
  <2> QED BY <2>1, <2>2, <2>3, OwnStep
<1>8. TimeInv'
  <2>1. \A c \in Configs : state'[c] = "on" /\ c \in tasked' =>
          \/ /\ state[c] = "on" /\ c \in tasked /\ missed'[c] = missed[c]
             /\ c \in checked' <=> c \in checked
          \/ /\ c \in checked'
             /\ \E e \in Configs : /\ certTaskKey(e) = certTaskKey(c)
                                   /\ IsCert(disk'[c.cert]) => disk'[c.cert].left >= Margin(e)
    BY <1>3, <1>4, <1>5
  <2> QED BY <1>2, <2>1, TimeStep
<1> QED BY <1>2, <1>6, <1>7, <1>8 DEF CertInv

(* A flight goes on: its callers wait, and what it has written is claimed. *)
LEMMA MoveStep ==
  ASSUME CertInv, NEW k \in TaskKeys, Flying(k), NEW w \in Flights, w.cfg = flights[k].cfg,
         flights' = [flights EXCEPT ![k] = w], FlightOK(k)',
         mutex' = mutex \/ (mutex = Nil /\ mutex' = k /\ Acme(w.cfg)),
         UNCHANGED <<state, due, calls, claims, watched>>,
         disk' \in [Files -> Contents], torn' \subseteq Configs, Written,
         w.at = "writeKey" /\ IsCert(disk'[k.cert]) =>
           disk'[k.cert].domain = k.domain /\ disk'[k.cert].left = Life
  PROVE  CertInv'
<1>1. Typed /\ FlightsInv
  BY DEF CertInv
<1>2. w # Nil
  BY NilOK
<1>3. /\ flights' \in [TaskKeys -> Flights \cup {Nil}] /\ flights'[k] = w
      /\ \A j \in TaskKeys \ {k} : flights'[j] = flights[j]
  BY <1>1 DEF Typed
<1>4. \A j \in TaskKeys : Flying(j)' <=> Flying(j)
  BY <1>2, <1>3 DEF Flying
<1>5. state' = state /\ due' = due /\ calls' = calls /\ claims' = claims
      /\ checked' = checked /\ missed' = missed /\ tasked' = tasked /\ tasked \subseteq Configs
  BY <1>1 DEF Typed, watched
<1>6. Typed'
  BY <1>1, <1>3, <1>5 DEF Typed
<1>7. FlightsInv'
  <2>1. \A j \in TaskKeys : Callers(j)' = Callers(j)
    BY <1>5 DEF Callers
  <2>2. ASSUME NEW j \in TaskKeys, j # k, Flying(j) PROVE FlightOK(j)'
    <3>1. FlightOK(j) /\ flights'[j] = flights[j]
      BY <1>1, <1>3, <2>2 DEF FlightsInv
    <3>2. mutex' = j <=> mutex = j
      BY <2>2, NilOK
    <3> QED BY <3>1, <3>2 DEF FlightOK
  <2>3. ASSUME mutex' # Nil PROVE Flying(mutex)' /\ Acme(flights[mutex].cfg)'
    <3>1. CASE mutex' = mutex /\ mutex # k
      <4>1. mutex \in TaskKeys /\ Flying(mutex) /\ Acme(flights[mutex].cfg)
        BY <1>1, <2>3, <3>1 DEF FlightsInv, Typed
      <4>2. flights'[mutex'] = flights[mutex]
        BY <1>3, <3>1, <4>1
      <4> QED BY <3>1, <4>1, <4>2 DEF Flying
    <3>2. CASE mutex' = k
      <4>1. Acme(w.cfg)
        BY <1>1, <3>2, NilOK DEF FlightsInv
      <4>2. flights'[mutex'] = w
        BY <1>3, <3>2
      <4> QED BY <1>2, <4>1, <4>2 DEF Flying
    <3> QED BY <3>1, <3>2
  <2> QED BY <1>1, <1>4, <2>1, <2>2, <2>3 DEF FlightsInv
<1>8. OwnInv'
  <2>1. \A j \in TaskKeys : Flying(j)' => Flying(j) /\ flights'[j].cfg = flights[j].cfg
    BY <1>3, <1>4
  <2>2. \A j \in TaskKeys : At(j, "writeKey")' =>
          \/ At(j, "writeKey")
          \/ IsCert(disk'[j.cert]) => disk'[j.cert].domain = j.domain /\ disk'[j.cert].left = Life
    BY <1>3, <1>4 DEF At
  <2> QED BY <1>5, <2>1, <2>2, OwnStep
<1>9. TimeInv'
  BY <1>5, TimeStep
<1> QED BY <1>6, <1>7, <1>8, <1>9 DEF CertInv

-----------------------------------------------------------------------------
(* The steps of controllers.                                               *)

(* A controller starts without a lifecycle, stops, or is refused.          *)
LEMMA ControllerStep ==
  ASSUME CertInv, UNCHANGED <<disk, calls, claims, flights, mutex, torn>>,
         state' \in [Configs -> States], missed' \in [Configs -> 0 .. Life],
         due' \subseteq due, checked' \subseteq checked, tasked' \subseteq tasked,
         \A c \in Configs : state'[c] = "on" => state[c] = "on" \/ ~Lifecycle(c),
         \A c \in Configs : state'[c] = "on" /\ Acme(c) =>
           missed'[c] = missed[c] /\ (c \in checked' <=> c \in checked)
  PROVE  CertInv'
<1>1. Typed /\ FlightsInv
  BY DEF CertInv
<1>2. Typed'
  BY <1>1 DEF Typed
<1>3. FlightsInv'
  <2>1. \A k \in TaskKeys : (Flying(k)' <=> Flying(k)) /\ Callers(k)' = Callers(k)
    BY DEF Flying, Callers
  <2>2. \A k \in TaskKeys : FlightOK(k)' <=> FlightOK(k)
    BY DEF FlightOK
  <2>3. mutex' # Nil => Flying(mutex)' /\ Acme(flights[mutex].cfg)'
    BY <1>1 DEF FlightsInv, Flying
  <2> QED BY <1>1, <2>1, <2>2, <2>3 DEF FlightsInv
<1>4. Written
  BY DEF Written
<1>5. OwnInv'
  <2>1. \A k \in TaskKeys : Flying(k)' => Flying(k) /\ flights'[k].cfg = flights[k].cfg
    BY DEF Flying
  <2>2. \A k \in TaskKeys : At(k, "writeKey")' => At(k, "writeKey")
    BY DEF At, Flying
  <2> QED BY <1>4, <2>1, <2>2, OwnStep
<1>6. TimeInv'
  <2>1. tasked \subseteq { c \in Configs : Acme(c) }
    BY <1>1 DEF Typed
  <2>2. \A c \in Configs : state'[c] = "on" /\ c \in tasked' =>
          /\ state[c] = "on" /\ c \in tasked /\ missed'[c] = missed[c]
          /\ c \in checked' <=> c \in checked
    BY <2>1, AcmeLives
  <2> QED BY <1>4, <2>1, <2>2, TimeStep
<1> QED BY <1>2, <1>3, <1>5, <1>6 DEF CertInv

(* claimCertFiles gives nobody's claim to another domain.                  *)
LEMMA ClaimView ==
  ASSUME Typed, NEW c \in Configs, Claimable(c), claimCertFiles(c)
  PROVE  /\ claims' \in [Files -> Claims \cup {Nil}] /\ Owned(c)'
         /\ \A f \in Files : claims[f] # Nil =>
              claims'[f] # Nil /\ claims'[f].domain = claims[f].domain
<1> DEFINE claim == [domain |-> c.domain, key |-> c.key]
<1>1. claim \in Claims /\ claim # Nil /\ claim.domain = c.domain
  BY KeyFields, NilOK DEF Claims
<1>2. \A f \in Files : claims'[f] = IF f \in {c.cert, c.key} THEN claim ELSE claims[f]
  BY DEF claimCertFiles
<1>3. /\ claims[c.cert] # Nil => claims[c.cert].domain = c.domain
      /\ claims[c.key] # Nil => claims[c.key].domain = c.domain
  BY <1>1 DEF Claimable
<1>4. claims' \in [Files -> Claims \cup {Nil}]
  BY <1>1 DEF claimCertFiles, Typed
<1> HIDE DEF claim
<1>5. Owned(c)'
  <2>1. claims'[c.cert] = claim /\ claims'[c.key] = claim
    BY <1>2, KeyFields
  <2> QED BY <1>1, <2>1 DEF Owned
<1>6. ASSUME NEW f \in Files, claims[f] # Nil
      PROVE  claims'[f] # Nil /\ claims'[f].domain = claims[f].domain
  BY <1>1, <1>2, <1>3, <1>6
<1> QED BY <1>4, <1>5, <1>6

(* A caller claims its files and joins the flight for its task key, or     *)
(* starts one.                                                             *)
LEMMA JoinStep ==
  ASSUME CertInv, NEW c \in Configs, Lifecycle(c), Join(c), due' \subseteq due,
         state' \in [Configs -> States], \A d \in Configs : state'[d] = "on" => state[d] = "on",
         UNCHANGED <<disk, mutex, watched, torn>>
  PROVE  CertInv'
<1> DEFINE w == [cfg |-> c, at |-> "decide", action |-> "none", serial |-> 0]
<1>1. Typed /\ FlightsInv /\ OwnInv
  BY DEF CertInv
<1>2. PICK k \in TaskKeys : k = certTaskKey(c)
  BY KeyFields
<1>3. w \in Flights /\ w # Nil
  BY NilOK DEF Flights
<1>4. /\ flights' \in [TaskKeys -> Flights \cup {Nil}]
      /\ flights'[k] = IF Flying(k) THEN flights[k] ELSE w
      /\ \A j \in TaskKeys \ {k} : flights'[j] = flights[j]
  BY <1>1, <1>2, <1>3 DEF Join, Typed
<1>5. /\ claims' \in [Files -> Claims \cup {Nil}] /\ Owned(c)'
      /\ \A f \in Files : claims[f] # Nil =>
           claims'[f] # Nil /\ claims'[f].domain = claims[f].domain
  BY <1>1, ClaimView DEF Join
<1>6. calls' = calls \cup {c}
  BY DEF Join
<1>7. Typed'
  BY <1>1, <1>4, <1>5, <1>6 DEF Typed, watched
<1> HIDE DEF w
<1>8. Flying(k)' /\ \A j \in TaskKeys \ {k} : Flying(j)' <=> Flying(j)
  BY <1>3, <1>4 DEF Flying
<1>9. FlightsInv'
  <2>1. ASSUME NEW j \in TaskKeys PROVE Flying(j)' <=> Callers(j)' # {}
    <3>1. CASE j = k
      <4>1. c \in Callers(k)'
        BY <1>2, <1>6 DEF Callers
      <4> QED BY <1>8, <3>1, <4>1
    <3>2. CASE j # k
      <4>1. Callers(j)' = Callers(j)
        BY <1>2, <1>6, <3>2 DEF Callers
      <4> QED BY <1>1, <1>8, <3>2, <4>1 DEF FlightsInv
    <3> QED BY <3>1, <3>2
  <2>2. ASSUME NEW j \in TaskKeys, Flying(j)' PROVE FlightOK(j)'
    <3>1. CASE Flying(j)
      <4>1. flights'[j] = flights[j] /\ FlightOK(j)
        BY <1>1, <1>4, <3>1 DEF FlightsInv
      <4> QED BY <4>1 DEF FlightOK
    <3>2. CASE ~Flying(j)
      <4>1. j = k /\ flights'[j] = w
        BY <1>4, <1>8, <2>2, <3>2
      <4>2. mutex # k
        BY <1>1, <3>2, <4>1, NilOK DEF FlightsInv
      <4>3. w.cfg = c /\ w.at = "decide" /\ w.serial = 0
        BY DEF w
      <4> QED BY <1>2, <4>1, <4>2, <4>3 DEF FlightOK
    <3> QED BY <3>1, <3>2
  <2>3. ASSUME mutex' # Nil PROVE Flying(mutex)' /\ Acme(flights[mutex].cfg)'
    <3>1. mutex' = mutex /\ mutex \in TaskKeys /\ Flying(mutex) /\ Acme(flights[mutex].cfg)
      BY <1>1, <2>3 DEF FlightsInv, Typed
    <3>2. flights'[mutex] = flights[mutex]
      BY <1>4, <3>1
    <3> QED BY <3>1, <3>2 DEF Flying
  <2> QED BY <2>1, <2>2, <2>3 DEF FlightsInv
<1>10. OwnInv'
  <2>1. ASSUME NEW e \in Configs, Owned(e) PROVE Owned(e)'
    BY <1>5, <2>1, KeyFields DEF Owned
  <2>2. ASSUME NEW j \in TaskKeys, Flying(j)' PROVE Owned(flights[j].cfg)'
    <3>1. CASE Flying(j)
      <4>1. flights'[j] = flights[j]
        BY <1>4, <3>1
      <4>2. PICK e \in Configs : e = flights[j].cfg
        BY <1>1, <3>1, FlightOf
      <4>3. Owned(e)'
        BY <1>1, <2>1, <3>1, <4>2 DEF OwnInv
      <4> QED BY <4>1, <4>2, <4>3 DEF Owned
    <3>2. CASE ~Flying(j)
      <4>1. flights'[j].cfg = c
        BY <1>4, <1>8, <2>2, <3>2 DEF w
      <4> QED BY <1>5, <4>1 DEF Owned
    <3> QED BY <3>1, <3>2
  <2>3. \A e \in Configs : state'[e] = "on" /\ Lifecycle(e) => Owned(e)'
    BY <1>1, <2>1 DEF OwnInv
  <2>4. OwnDomain'
    BY <1>1 DEF OwnInv, OwnDomain
  <2>5. ASSUME NEW j \in TaskKeys, At(j, "writeKey")' PROVE At(j, "writeKey")
    <3>1. CASE Flying(j)
      BY <1>4, <2>5, <3>1 DEF At
    <3>2. CASE ~Flying(j)
      <4>1. flights'[j].at = "decide"
        BY <1>4, <1>8, <2>5, <3>2 DEF At, w
      <4> QED BY <2>5, <4>1 DEF At
    <3> QED BY <3>1, <3>2
  <2>6. \A j \in TaskKeys : At(j, "writeKey")' /\ IsCert(disk'[j.cert]) =>
          disk'[j.cert].domain = j.domain /\ disk'[j.cert].left = Life
    BY <1>1, <2>5 DEF OwnInv
  <2> QED BY <2>2, <2>3, <2>4, <2>6 DEF OwnInv
<1>11. TimeInv'
  <2>1. Written
    BY DEF Written
  <2>2. tasked' = tasked /\ checked' = checked /\ missed' = missed /\ tasked \subseteq Configs
    BY <1>1 DEF Typed, watched
  <2> QED BY <2>1, <2>2, TimeStep
<1> QED BY <1>7, <1>9, <1>10, <1>11 DEF CertInv

-----------------------------------------------------------------------------
(* Every step keeps the invariant.                                         *)

LEMMA KeepBegin ==
  ASSUME CertInv, NEW c \in Configs, Begin(c) PROVE CertInv'
<1>1. /\ state' \in [Configs -> States] /\ missed' \in [Configs -> 0 .. Life]
      /\ \A d \in Configs : state'[d] = "on" => state[d] = "on"
  BY DEF CertInv, Typed, States, Begin, watched
<1> QED BY <1>1, ControllerStep DEF Begin, watched

LEMMA KeepStop ==
  ASSUME CertInv, NEW c \in Configs, Stop(c) PROVE CertInv'
<1>1. Typed
  BY DEF CertInv
<1>2. /\ state' \in [Configs -> States]
      /\ \A d \in Configs : state'[d] = "on" => state[d] = "on" /\ d # c
  BY <1>1 DEF Typed, States, Stop
<1>3. /\ missed' \in [Configs -> 0 .. Life]
      /\ \A d \in Configs : d # c => missed'[d] = missed[d]
  BY <1>1, BoundsOK DEF Typed, Stop
<1>4. due' \subseteq due /\ checked' = checked \ {c} /\ tasked' \subseteq tasked
  BY DEF Stop
<1> QED BY <1>2, <1>3, <1>4, ControllerStep DEF Stop

(* A file-mode controller waits for nothing, and a refused one fails.      *)
LEMMA KeepEnsureCertificate ==
  ASSUME CertInv, NEW c \in Configs, EnsureCertificate(c) PROVE CertInv'
<1>1. Typed
  BY DEF CertInv
<1>2. c \notin calls /\ UNCHANGED <<disk, mutex, torn>>
  BY DEF EnsureCertificate
<1>3. ASSUME NEW ok \in BOOLEAN, Return({c}, ok), ~ok \/ ~Lifecycle(c), UNCHANGED <<claims, flights>>
      PROVE  CertInv'
  <2>1. ~(ok /\ Acme(c))
    BY <1>3, AcmeLives
  <2>2. { d \in {c} : ok /\ Acme(d) } = {}
    BY <2>1
  <2>3. /\ calls' = calls \ {c} /\ due' = due /\ tasked' = tasked /\ checked' = checked
        /\ missed' = [d \in Configs |-> missed[d]]
        /\ state' = [d \in Configs |->
             IF d = c /\ state[d] = "starting" THEN IF ok THEN "on" ELSE "off"
             ELSE IF d = c /\ state[d] = "reloading" THEN IF ok THEN "on" ELSE "plain"
             ELSE state[d]]
    BY <1>3, <2>2 DEF Return
  <2>4. calls' = calls
    BY <1>2, <2>3
  <2>5. /\ state' \in [Configs -> States]
        /\ \A d \in Configs : state'[d] = "on" => state[d] = "on" \/ ~Lifecycle(d)
    BY <1>1, <1>3, <2>3 DEF Typed, States
  <2>6. missed' = missed
    BY <1>1, <2>3 DEF Typed
  <2> QED BY <1>1, <1>2, <1>3, <2>3, <2>4, <2>5, <2>6, ControllerStep DEF Typed
<1>4. CASE c.mode = "file" /\ Return({c}, ensureFileMode(c)) /\ UNCHANGED <<claims, flights>>
  <2>1. ~Lifecycle(c)
    BY <1>4 DEF Lifecycle
  <2>2. PICK ok \in BOOLEAN : Return({c}, ok)
    <3>1. ensureFileMode(c) \in BOOLEAN
      BY DEF ensureFileMode
    <3> QED BY <1>4, <3>1
  <2> QED BY <1>3, <1>4, <2>1, <2>2
<1>5. CASE Lifecycle(c) /\ ~Claimable(c) /\ Return({c}, FALSE) /\ UNCHANGED <<claims, flights>>
  BY <1>3, <1>5
<1>6. CASE Lifecycle(c) /\ Join(c) /\ UNCHANGED <<state, due, watched>>
  BY <1>1, <1>2, <1>6, JoinStep DEF Typed
<1> QED BY <1>4, <1>5, <1>6 DEF EnsureCertificate

(* A reload takes TLS away, gives it to a reader of files, or calls.       *)
LEMMA KeepReload ==
  ASSUME CertInv, NEW c \in Configs, Reload(c) PROVE CertInv'
<1>1. Typed /\ UNCHANGED <<disk, due, mutex, watched, torn>>
  BY DEF CertInv, Reload
<1>2. UNCHANGED <<tasked, checked, missed>>
  BY <1>1 DEF watched
<1>3. CASE Lifecycle(c) /\ Join(c) /\ state' = [state EXCEPT ![c] = IF @ = "plain" THEN "reloading" ELSE @]
  <2>1. state' \in [Configs -> States] /\ \A d \in Configs : state'[d] = "on" => state[d] = "on"
    BY <1>1, <1>3 DEF Typed, States
  <2> QED BY <1>1, <1>3, <2>1, JoinStep
<1>4. ASSUME NEW how \in States, how = "on" => ~Lifecycle(c), state' = [state EXCEPT ![c] = how],
             UNCHANGED <<calls, claims, flights>>
      PROVE  CertInv'
  <2>1. /\ state' \in [Configs -> States]
        /\ \A d \in Configs : state'[d] = "on" => state[d] = "on" \/ ~Lifecycle(d)
    BY <1>1, <1>4 DEF Typed
  <2> QED BY <1>1, <1>2, <1>4, <2>1, ControllerStep DEF Typed
<1>5. CASE c.mode = "file" /\ state' = [state EXCEPT ![c] = "on"] /\ UNCHANGED <<calls, claims, flights>>
  BY <1>4, <1>5 DEF States, Lifecycle
<1>6. CASE state' = [state EXCEPT ![c] = "plain"] /\ UNCHANGED <<calls, claims, flights>>
  BY <1>4, <1>6 DEF States
<1> QED BY <1>3, <1>5, <1>6 DEF Reload

LEMMA KeepRenewCertTask ==
  ASSUME CertInv, NEW c \in Configs, renewCertTask(c) PROVE CertInv'
<1>1. Lifecycle(c)
  BY AcmeLives DEF renewCertTask, CertInv, Typed
<1>2. due' \subseteq due
  BY DEF renewCertTask
<1>3. state' = state /\ state \in [Configs -> States]
  BY DEF renewCertTask, CertInv, Typed
<1> QED BY <1>1, <1>2, <1>3, JoinStep DEF renewCertTask

(* What a call decides leaves a margin if it reuses the certificate.       *)
LEMMA KeepEnsureLifecycle ==
  ASSUME CertInv, NEW k \in TaskKeys, ensureLifecycle(k) PROVE CertInv'
<1>1. Typed /\ FlightsInv /\ Flying(k) /\ flights[k].at = "decide"
  BY DEF CertInv, ensureLifecycle, At
<1>2. PICK c \in Configs : c = flights[k].cfg
  BY <1>1, FlightOf
<1>3. /\ flights[k] \in Flights /\ FlightOK(k) /\ certTaskKey(c) = k /\ Lifecycle(c)
      /\ k.domain = c.domain /\ k.cert = c.cert /\ k.cert \in Files
  BY <1>1, <1>2, FlightOf
<1>4. flights[k].serial = 0 /\ (Acme(c) => mutex # k)
  BY <1>1, <1>2, <1>3 DEF FlightOK
<1>5. UNCHANGED <<disk, claims, torn>> /\ Written /\ disk' \in [Files -> Contents] /\ torn' \subseteq Configs
  BY <1>1 DEF ensureLifecycle, Written, Typed
<1>6. disk[c.cert] \in Contents /\ Missing \notin Keys /\ Corrupt \notin Keys
  BY <1>1, <1>3, DisksOK DEF Typed
<1> DEFINE action == ActionFor(c)
<1>7. /\ disk[c.cert] = Missing => action = "issue"
      /\ disk[c.cert] \in Keys \cup {Corrupt} => action = "reissue"
      /\ IsCert(disk[c.cert]) => action = IF ~certCoversDomain(disk[c.cert], c.domain) THEN "error"
                                          ELSE IF disk[c.cert].left < renewBefore(c) THEN "renew" ELSE "reuse"
  <2>1. CASE disk[c.cert] = Missing
    BY <1>6, <2>1, DisksOK, CertIs DEF ActionFor, parseDiskCert
  <2>2. CASE disk[c.cert] \in Keys \cup {Corrupt}
    <3>1. parseDiskCert(c.cert) = Corrupt /\ Corrupt # Missing /\ ~IsCert(Corrupt)
      BY <2>2, DisksOK, CertIs DEF parseDiskCert
    <3>2. ~IsCert(disk[c.cert]) /\ disk[c.cert] # Missing
      BY <1>6, <2>2, DisksOK, CertIs
    <3> QED BY <2>2, <3>1, <3>2 DEF ActionFor
  <2>3. CASE IsCert(disk[c.cert])
    <3>1. parseDiskCert(c.cert) = disk[c.cert] /\ disk[c.cert] # Missing /\ disk[c.cert] # Corrupt
          /\ disk[c.cert] \notin Keys
      BY <2>3, CertIs DEF parseDiskCert
    <3> QED BY <2>3, <3>1 DEF ActionFor
  <2> QED BY <2>1, <2>2, <2>3
<1> HIDE DEF action
<1>8. CASE action \in {"error", "reuse"}
  <2>1. Finish(k, action = "reuse")
    BY <1>2, <1>8 DEF ensureLifecycle, action
  <2>2. PICK ok \in BOOLEAN : ok <=> action = "reuse"
    OBVIOUS
  <2>3. Finish(k, ok)
    BY <2>1, <2>2
  <2>4. ASSUME ok, IsCert(disk[c.cert])
        PROVE  disk[c.cert].domain = c.domain /\ disk[c.cert].left >= Margin(c)
    <3>1. disk[c.cert].domain = c.domain /\ ~(disk[c.cert].left < renewBefore(c))
      BY <1>7, <2>2, <2>4 DEF certCoversDomain
    <3>2. disk[c.cert].left \in Int /\ renewBefore(c) \in Nat /\ Life \in Nat
      BY <1>6, <2>4, CertIs, MarginRange
    <3> QED BY <3>1, <3>2 DEF Margin
  <2> QED BY <1>1, <1>2, <1>3, <1>5, <2>3, <2>4, FinishStep
<1>9. CASE action \notin {"error", "reuse"}
  <2>1. action \in {"none", "issue", "reissue", "renew"}
    BY <1>6, <1>7, <1>9 DEF Contents, IsCert
  <2>2. /\ flights' = [flights EXCEPT ![k] =
             IF Acme(c) THEN [@ EXCEPT !.at = "lock", !.action = action]
             ELSE [@ EXCEPT !.at = "writeCert", !.action = action, !.serial = FreshSerial]]
        /\ UNCHANGED <<state, due, calls, watched, mutex>>
    BY <1>2, <1>9 DEF ensureLifecycle, action
  <2>3. FreshSerial \in Serials
    BY <1>1, <1>4, FreshSerialOK
  <2>4. PICK w \in Flights :
          /\ flights' = [flights EXCEPT ![k] = w] /\ w.cfg = c
          /\ Acme(c) => w.at = "lock" /\ w.serial = 0
          /\ ~Acme(c) => w.at = "writeCert" /\ w.serial \in Serials
    <3>1. CASE Acme(c)
      <4> DEFINE w == [flights[k] EXCEPT !.at = "lock", !.action = action]
      <4>1. w \in Flights /\ w.cfg = c /\ w.at = "lock" /\ w.serial = 0
        BY <1>2, <1>3, <1>4, <2>1 DEF Flights
      <4>2. flights' = [flights EXCEPT ![k] = w]
        BY <2>2, <3>1
      <4> HIDE DEF w
      <4> QED BY <3>1, <4>1, <4>2
    <3>2. CASE ~Acme(c)
      <4> DEFINE w == [flights[k] EXCEPT !.at = "writeCert", !.action = action, !.serial = FreshSerial]
      <4>1. w \in Flights /\ w.cfg = c /\ w.at = "writeCert" /\ w.serial \in Serials
        BY <1>2, <1>3, <2>1, <2>3 DEF Flights
      <4>2. flights' = [flights EXCEPT ![k] = w]
        BY <2>2, <3>2
      <4> HIDE DEF w
      <4> QED BY <3>2, <4>1, <4>2
    <3> QED BY <3>1, <3>2
  <2>5. FlightOK(k)'
    <3>1. flights'[k] = w
      BY <1>1, <2>4 DEF Typed
    <3> QED BY <1>3, <1>4, <2>2, <2>4, <3>1 DEF FlightOK
  <2> QED BY <1>1, <1>2, <1>5, <2>2, <2>4, <2>5, MoveStep
<1> QED BY <1>8, <1>9

LEMMA KeepLock ==
  ASSUME CertInv, NEW k \in TaskKeys, Lock(k) PROVE CertInv'
<1>1. Typed /\ FlightsInv /\ Flying(k) /\ flights[k].at = "lock"
  BY DEF CertInv, Lock, At
<1>2. flights[k] \in Flights /\ FlightOK(k) /\ k \in TaskKeys /\ k # Nil
  BY <1>1, FlightOf, NilOK
<1> DEFINE w == [flights[k] EXCEPT !.at = "lego"]
<1>3. w \in Flights /\ w.cfg = flights[k].cfg /\ w.at = "lego" /\ w.serial = flights[k].serial
  BY <1>2 DEF Flights
<1>4. flights' = [flights EXCEPT ![k] = w]
  BY DEF Lock, Goto
<1> HIDE DEF w
<1>5. Acme(w.cfg) /\ w.serial = 0
  BY <1>1, <1>2, <1>3 DEF FlightOK
<1>6. mutex = Nil /\ mutex' = k
  BY DEF Lock, CanLock
<1>7. FlightOK(k)'
  <2>1. flights'[k] = w
    BY <1>1, <1>4 DEF Typed
  <2> QED BY <1>2, <1>3, <1>5, <1>6, <2>1 DEF FlightOK
<1>8. Written /\ disk' \in [Files -> Contents] /\ torn' \subseteq Configs
  BY <1>1 DEF Lock, Written, Typed
<1> QED BY <1>1, <1>3, <1>4, <1>5, <1>6, <1>7, <1>8, MoveStep DEF Lock

(* A call that fails leaves the files as they are.                         *)
LEMMA FailStep ==
  ASSUME CertInv, NEW k \in TaskKeys, Flying(k), Finish(k, FALSE), UNCHANGED <<disk, claims, torn>>
  PROVE  CertInv'
<1>1. Written /\ disk' \in [Files -> Contents] /\ torn' \subseteq Configs
  BY DEF CertInv, Written, Typed
<1>2. PICK ok \in BOOLEAN : ~ok
  OBVIOUS
<1>3. Finish(k, ok)
  <2>1. ok = FALSE
    BY <1>2
  <2> QED BY <2>1
<1> QED BY <1>1, <1>2, <1>3, FinishStep

(* A flight goes on before the files are written.                          *)
LEMMA GoOn ==
  ASSUME CertInv, NEW k \in TaskKeys, Flying(k), NEW w \in Flights, w.cfg = flights[k].cfg,
         flights[k].at \notin {"decide", "lock"}, flights' = [flights EXCEPT ![k] = w],
         \/ w.at = "order" /\ w.serial = 0 /\ Acme(w.cfg)
         \/ w.at = "writeCert" /\ w.serial \in Serials,
         UNCHANGED <<disk, state, due, calls, claims, watched, mutex, torn>>
  PROVE  CertInv'
<1>1. Typed /\ FlightsInv
  BY DEF CertInv
<1>2. FlightOK(k) /\ flights'[k] = w
  BY <1>1, FlightOf DEF Typed
<1>3. FlightOK(k)'
  BY <1>2 DEF FlightOK
<1>4. Written /\ disk' \in [Files -> Contents] /\ torn' \subseteq Configs
  BY <1>1 DEF Written, Typed
<1> QED BY <1>3, <1>4, MoveStep

LEMMA KeepNewLego ==
  ASSUME CertInv, NEW k \in TaskKeys, NewLego(k) PROVE CertInv'
<1>1. Typed /\ FlightsInv /\ Flying(k) /\ flights[k].at = "lego"
  BY DEF CertInv, NewLego, At
<1>2. flights[k] \in Flights /\ FlightOK(k)
  BY <1>1, FlightOf
<1>3. CASE Finish(k, FALSE)
  BY <1>1, <1>3, FailStep DEF NewLego
<1>4. CASE Goto(k, "order") /\ UNCHANGED <<state, due, calls, watched, mutex, hist>>
  <2> DEFINE w == [flights[k] EXCEPT !.at = "order"]
  <2>1. w \in Flights /\ w.cfg = flights[k].cfg /\ w.at = "order" /\ w.serial = flights[k].serial
    BY <1>2 DEF Flights
  <2>2. flights' = [flights EXCEPT ![k] = w]
    BY <1>4 DEF Goto
  <2> HIDE DEF w
  <2>3. Acme(w.cfg) /\ w.serial = 0
    BY <1>1, <1>2, <2>1 DEF FlightOK
  <2> QED BY <1>1, <1>4, <2>1, <2>2, <2>3, GoOn DEF NewLego
<1> QED BY <1>3, <1>4 DEF NewLego

(* What failed is ordered afresh, by a call that keeps certIssuanceMu, or  *)
(* the call fails.                                                         *)
LEMMA KeepOrderFailed ==
  ASSUME CertInv, NEW k \in TaskKeys, Flying(k), flights[k].at \in {"order", "writeCert", "writeKey"},
         OrderFailed(k), UNCHANGED <<disk, claims, torn>>
  PROVE  CertInv'
<1>1. CASE Finish(k, FALSE)
  BY <1>1, FailStep
<1>2. CASE /\ Acme(flights[k].cfg)
           /\ flights' = [flights EXCEPT ![k].at = "order", ![k].action = "issue", ![k].serial = 0]
           /\ UNCHANGED <<state, due, calls, watched, mutex>>
  <2>1. flights[k] \in Flights /\ flights \in [TaskKeys -> Flights \cup {Nil}]
    BY FlightOf DEF CertInv, Typed
  <2> DEFINE w == [flights[k] EXCEPT !.at = "order", !.action = "issue", !.serial = 0]
  <2>2. w \in Flights /\ w.cfg = flights[k].cfg /\ w.at = "order" /\ w.serial = 0
    BY <2>1 DEF Flights
  <2>3. flights' = [flights EXCEPT ![k] = w]
    BY <1>2, <2>1
  <2> HIDE DEF w
  <2> QED BY <1>2, <2>2, <2>3, GoOn
<1> QED BY <1>1, <1>2 DEF OrderFailed

LEMMA KeepOrder ==
  ASSUME CertInv, NEW k \in TaskKeys, Order(k) PROVE CertInv'
<1>1. Typed /\ FlightsInv /\ Flying(k) /\ flights[k].at = "order"
  BY DEF CertInv, Order, At
<1>2. flights[k] \in Flights /\ FlightOK(k) /\ flights \in [TaskKeys -> Flights \cup {Nil}]
  BY <1>1, FlightOf DEF Typed
<1>3. CASE OrderFailed(k)
  BY <1>1, <1>3, KeepOrderFailed DEF Order
<1>4. CASE /\ flights' = [flights EXCEPT ![k].at = "writeCert", ![k].serial = FreshSerial]
           /\ UNCHANGED <<state, due, calls, watched, mutex, hist>>
  <2>1. FreshSerial \in Serials
    BY <1>1, <1>2, FreshSerialOK DEF FlightOK
  <2> DEFINE w == [flights[k] EXCEPT !.at = "writeCert", !.serial = FreshSerial]
  <2>2. w \in Flights /\ w.cfg = flights[k].cfg /\ w.at = "writeCert" /\ w.serial \in Serials
    BY <1>2, <2>1 DEF Flights
  <2>3. flights' = [flights EXCEPT ![k] = w]
    BY <1>2, <1>4
  <2> HIDE DEF w
  <2> QED BY <1>1, <1>4, <2>2, <2>3, GoOn DEF Order
<1> QED BY <1>3, <1>4 DEF Order

(* A call writes certificates of its domain, in files claimed for it, and  *)
(* keys.                                                                   *)
LEMMA FileWritten ==
  ASSUME Typed, NEW f \in Files, NEW new \in Contents, disk' = [disk EXCEPT ![f] = new],
         IsCert(new) => claims[f] # Nil /\ new.domain = claims[f].domain /\ new.left = Life
  PROVE  /\ disk' \in [Files -> Contents] /\ Written
         /\ disk'[f] = new /\ \A g \in Files \ {f} : disk'[g] = disk[g]
<1>1. disk' \in [Files -> Contents] /\ disk'[f] = new /\ \A g \in Files \ {f} : disk'[g] = disk[g]
  BY DEF Typed
<1> QED BY <1>1 DEF Written

LEMMA CertWritten ==
  ASSUME CertInv, NEW k \in TaskKeys, Flying(k), flights[k].serial \in Serials,
         disk' = [disk EXCEPT ![k.cert] =
           [serial |-> flights[k].serial, domain |-> flights[k].cfg.domain, left |-> Life]]
  PROVE  /\ k.cert \in Files /\ disk' \in [Files -> Contents] /\ Written
         /\ disk'[k.cert] = [serial |-> flights[k].serial, domain |-> k.domain, left |-> Life]
         /\ \A g \in Files \ {k.cert} : disk'[g] = disk[g]
<1>1. Typed /\ FlightsInv /\ OwnInv
  BY DEF CertInv
<1>2. k.domain = flights[k].cfg.domain /\ k.cert \in Files /\ k.domain \in Domains
  BY <1>1, FlightOf
<1>3. claims[k.cert] # Nil /\ claims[k.cert].domain = k.domain
  BY <1>1, FlightOf DEF OwnInv, Owned
<1> DEFINE new == [serial |-> flights[k].serial, domain |-> k.domain, left |-> Life]
<1>4. new \in Contents /\ new.domain = k.domain /\ new.left = Life
  BY <1>2, BoundsOK DEF Contents, Certs
<1>5. disk' = [disk EXCEPT ![k.cert] = new]
  BY <1>2
<1> HIDE DEF new
<1>6. /\ disk' \in [Files -> Contents] /\ Written
      /\ disk'[k.cert] = new /\ \A g \in Files \ {k.cert} : disk'[g] = disk[g]
  BY <1>1, <1>2, <1>3, <1>4, <1>5, FileWritten
<1> QED BY <1>2, <1>6 DEF new

LEMMA KeyWritten ==
  ASSUME CertInv, NEW k \in TaskKeys, Flying(k), flights[k].serial \in Serials,
         disk' = [disk EXCEPT ![k.key] = [key |-> flights[k].serial]]
  PROVE  /\ k.key \in Files /\ disk' \in [Files -> Contents] /\ Written
         /\ disk'[k.key] = [key |-> flights[k].serial] /\ ~IsCert(disk'[k.key])
         /\ \A g \in Files \ {k.key} : disk'[g] = disk[g]
<1>1. Typed /\ k.key \in Files
  BY FlightOf DEF CertInv
<1> DEFINE new == [key |-> flights[k].serial]
<1>2. new \in Contents /\ ~IsCert(new) /\ disk' = [disk EXCEPT ![k.key] = new]
  BY KeyIs
<1> HIDE DEF new
<1>3. /\ disk' \in [Files -> Contents] /\ Written
      /\ disk'[k.key] = new /\ \A g \in Files \ {k.key} : disk'[g] = disk[g]
  BY <1>1, <1>2, FileWritten
<1> QED BY <1>1, <1>2, <1>3 DEF new

LEMMA KeepWriteCert ==
  ASSUME CertInv, NEW k \in TaskKeys, WriteCert(k) PROVE CertInv'
<1>1. Typed /\ FlightsInv /\ Flying(k) /\ flights[k].at = "writeCert"
  BY DEF CertInv, WriteCert, At
<1>2. flights[k] \in Flights /\ FlightOK(k) /\ k.cert = flights[k].cfg.cert
  BY <1>1, FlightOf
<1>3. CASE OrderFailed(k) /\ UNCHANGED <<disk, torn>>
  BY <1>1, <1>3, KeepOrderFailed DEF WriteCert
<1>4. CASE /\ disk' = [disk EXCEPT ![k.cert] =
                [serial |-> flights[k].serial, domain |-> flights[k].cfg.domain, left |-> Life]]
           /\ Goto(k, "writeKey")
           /\ torn' = torn \cup Uses(k.cert)
           /\ UNCHANGED <<state, due, calls, watched, mutex, hist>>
  <2>1. flights[k].serial \in Serials
    BY <1>1, <1>2 DEF FlightOK
  <2>2. /\ k.cert \in Files /\ disk' \in [Files -> Contents] /\ Written
        /\ disk'[k.cert] = [serial |-> flights[k].serial, domain |-> k.domain, left |-> Life]
    BY <1>1, <1>4, <2>1, CertWritten
  <2>3. disk'[k.cert].domain = k.domain /\ disk'[k.cert].left = Life
    BY <2>2
  <2> DEFINE w == [flights[k] EXCEPT !.at = "writeKey"]
  <2>4. w \in Flights /\ w.cfg = flights[k].cfg /\ w.at = "writeKey" /\ w.serial = flights[k].serial
    BY <1>2 DEF Flights
  <2>5. flights' = [flights EXCEPT ![k] = w]
    BY <1>4 DEF Goto
  <2> HIDE DEF w
  <2>6. FlightOK(k)'
    <3>1. flights'[k] = w
      BY <1>1, <2>5 DEF Typed
    <3> QED BY <1>1, <1>2, <1>4, <2>1, <2>4, <3>1 DEF FlightOK
  <2>7. torn' \subseteq Configs
    BY <1>1, <1>4, <2>2 DEF Typed, Uses
  <2> QED BY <1>1, <1>4, <2>2, <2>3, <2>4, <2>5, <2>6, <2>7, MoveStep DEF WriteCert
<1> QED BY <1>2, <1>3, <1>4 DEF WriteCert

(* The call succeeds with a certificate that has all of its life.          *)
LEMMA KeepWriteKey ==
  ASSUME CertInv, NEW k \in TaskKeys, WriteKey(k) PROVE CertInv'
<1>1. Typed /\ FlightsInv /\ OwnInv /\ At(k, "writeKey") /\ Flying(k) /\ flights[k].at = "writeKey"
  BY DEF CertInv, WriteKey, At
<1>2. FlightOK(k) /\ k.key = flights[k].cfg.key /\ k.cert = flights[k].cfg.cert /\ k.cert \in Files
  BY <1>1, FlightOf
<1>3. CASE OrderFailed(k) /\ UNCHANGED <<disk, torn>>
  BY <1>1, <1>3, KeepOrderFailed DEF WriteKey
<1>4. CASE /\ disk' = [disk EXCEPT ![k.key] = [key |-> flights[k].serial]]
           /\ torn' = (torn \cup Uses(k.key)) \ SamePair(flights[k].cfg)
           /\ Finish(k, TRUE)
  <2>1. flights[k].serial \in Serials
    BY <1>1, <1>2 DEF FlightOK
  <2>2. /\ disk' \in [Files -> Contents] /\ Written /\ ~IsCert(disk'[k.key])
        /\ \A g \in Files \ {k.key} : disk'[g] = disk[g]
    BY <1>1, <1>4, <2>1, KeyWritten
  <2>3. IsCert(disk'[k.cert]) => disk'[k.cert].domain = k.domain /\ disk'[k.cert].left = Life
    <3>1. CASE k.cert = k.key
      BY <2>2, <3>1
    <3>2. CASE k.cert # k.key
      BY <1>1, <1>2, <2>2, <3>2 DEF OwnInv
    <3> QED BY <3>1, <3>2
  <2>4. Life >= Margin(flights[k].cfg)
    <3>1. PICK d \in Configs : d = flights[k].cfg
      BY <1>1, FlightOf
    <3> QED BY <3>1, MarginRange
  <2>5. PICK ok \in BOOLEAN : ok
    OBVIOUS
  <2>6. Finish(k, ok)
    <3>1. ok = TRUE
      BY <2>5
    <3> QED BY <1>4, <3>1
  <2>7. torn' \subseteq Configs
    BY <1>1, <1>4 DEF Typed, Uses
  <2> QED BY <1>1, <2>2, <2>3, <2>4, <2>6, <2>7, FinishStep DEF WriteKey
<1> QED BY <1>2, <1>3, <1>4 DEF WriteKey

(* No call is under way when nobody waits.                                 *)
LEMMA NobodyFlies ==
  ASSUME Typed, FlightsInv, calls = {} PROVE mutex = Nil /\ \A k \in TaskKeys : ~Flying(k)
<1>1. \A k \in TaskKeys : ~Flying(k)
  BY DEF FlightsInv, Callers
<1> QED BY <1>1 DEF Typed, FlightsInv

(* A day takes one from what certificates have left, and a controller that *)
(* was not checked counts it.                                              *)
LEMMA KeepDay ==
  ASSUME CertInv, Day PROVE CertInv'
<1>1. Typed /\ FlightsInv /\ OwnInv /\ TimeInv
  BY DEF CertInv
<1>2. mutex = Nil /\ (\A k \in TaskKeys : ~Flying(k)) /\ UNCHANGED <<state, tasked, calls, claims, flights, mutex, torn>>
  BY <1>1, NobodyFlies DEF Day
<1>3. ASSUME NEW f \in Files
      PROVE  /\ disk'[f] \in Contents /\ (IsCert(disk'[f]) <=> IsCert(disk[f]))
             /\ IsCert(disk[f]) => /\ disk'[f].domain = disk[f].domain
                                   /\ disk'[f].left = IF disk[f].left < 0 THEN disk[f].left ELSE disk[f].left - 1
  <2>1. disk[f] \in Contents
    BY <1>1 DEF Typed
  <2>2. disk'[f] = IF IsCert(disk[f]) THEN [disk[f] EXCEPT !.left = IF @ < 0 THEN @ ELSE @ - 1] ELSE disk[f]
    BY DEF Day
  <2>3. CASE IsCert(disk[f])
    <3>1. disk[f] \in Certs /\ disk[f].left \in -1 .. Life /\ Life \in Nat
      BY <2>1, <2>3, CertIs, BoundsOK DEF IsCert
    <3> DEFINE l == IF disk[f].left < 0 THEN disk[f].left ELSE disk[f].left - 1
    <3>2. l \in -1 .. Life
      BY <3>1
    <3>3. disk'[f] = [disk[f] EXCEPT !.left = l]
      BY <2>2, <2>3
    <3> HIDE DEF l
    <3>4. disk'[f] \in Certs /\ disk'[f].domain = disk[f].domain /\ disk'[f].left = l
      BY <3>1, <3>2, <3>3 DEF Certs
    <3>5. disk'[f] \in Contents
      BY <3>4 DEF Contents
    <3>6. IsCert(disk'[f])
      BY <3>4 DEF IsCert
    <3> QED BY <2>3, <3>4, <3>5, <3>6 DEF l
  <2>4. CASE ~IsCert(disk[f])
    BY <2>1, <2>2, <2>4
  <2> QED BY <2>3, <2>4
<1>4. Typed'
  <2>1. disk' \in [Files -> Contents]
    BY <1>3 DEF Day
  <2>2. \A c \in Configs : missed'[c] = IF c \in checked \/ c \notin due' THEN 0
                                        ELSE IF missed[c] = Life THEN Life ELSE missed[c] + 1
    BY DEF Day
  <2>3. \A c \in Configs : missed'[c] \in 0 .. Life
    BY <1>1, <2>2, BoundsOK DEF Typed
  <2>4. missed' \in [Configs -> 0 .. Life]
    <3>1. missed' = [c \in Configs |-> missed'[c]]
      BY Zenon DEF Day
    <3> QED BY <2>3, <3>1
  <2>5. due' \subseteq { c \in Configs : Acme(c) } /\ checked' \subseteq Configs
    BY <1>1 DEF Day, Typed
  <2> QED BY <1>1, <1>2, <2>1, <2>4, <2>5 DEF Typed
<1>5. FlightsInv'
  <2>1. \A k \in TaskKeys : Flying(k)' <=> Flying(k)
    BY <1>2 DEF Flying
  <2>2. \A k \in TaskKeys : Callers(k)' = Callers(k)
    BY <1>2 DEF Callers
  <2> QED BY <1>1, <1>2, <2>1, <2>2 DEF FlightsInv
<1>6. OwnInv'
  <2>1. \A k \in TaskKeys : ~Flying(k)'
    BY <1>2 DEF Flying
  <2>2. \A c \in Configs : state'[c] = "on" /\ Lifecycle(c) => Owned(c)'
    BY <1>1, <1>2 DEF OwnInv, Owned
  <2>3. OwnDomain'
    BY <1>1, <1>2, <1>3, KeyFields DEF OwnInv, OwnDomain
  <2> QED BY <2>1, <2>2, <2>3 DEF OwnInv, At
<1>7. ASSUME NEW c \in tasked, state'[c] = "on", IsCert(disk'[c.cert]) PROVE Fresh(c)'
  <2>1. c \in Configs /\ state[c] = "on" /\ c.cert \in Files /\ IsCert(disk[c.cert])
    BY <1>1, <1>2, <1>3, <1>7, KeyFields DEF Typed
  <2>2. PICK d \in Configs :
          /\ certTaskKey(d) = certTaskKey(c)
          /\ c \in checked => disk[c.cert].left >= Margin(d)
          /\ c \notin checked => disk[c.cert].left + missed[c] + 1 >= Margin(d) \/ missed[c] = Life
    BY <1>1, <1>7, <2>1 DEF TimeInv, Fresh
  <2>3. c \in due' /\ c \notin checked'
    BY <1>7, <2>1 DEF Day
  <2>4. missed'[c] = IF c \in checked THEN 0 ELSE IF missed[c] = Life THEN Life ELSE missed[c] + 1
    <3>1. missed' = [b \in Configs |-> IF b \in checked \/ b \notin due' THEN 0
                                      ELSE IF missed[b] = Life THEN Life ELSE missed[b] + 1]
      BY Zenon DEF Day
    <3>2. missed'[c] = IF c \in checked \/ c \notin due' THEN 0
                       ELSE IF missed[c] = Life THEN Life ELSE missed[c] + 1
      BY <2>1, <3>1
    <3> QED BY <2>3, <3>2
  <2>5. disk'[c.cert].left = IF disk[c.cert].left < 0 THEN disk[c.cert].left ELSE disk[c.cert].left - 1
    BY <1>3, <2>1
  <2>6. /\ disk[c.cert].left \in Int /\ missed[c] \in Int /\ Life \in Nat /\ Margin(d) \in Nat
    BY <1>1, <2>1, CertIs, MarginRange DEF Typed
  <2>7. disk'[c.cert].left + missed'[c] + 1 >= Margin(d) \/ missed'[c] = Life
    BY <2>2, <2>4, <2>5, <2>6
  <2> QED BY <2>2, <2>3, <2>7 DEF Fresh
<1>8. TimeInv'
  BY <1>2, <1>7 DEF TimeInv
<1> QED BY <1>4, <1>5, <1>6, <1>8 DEF CertInv

(* Nothing but the files outlives a crash.                                 *)
LEMMA KeepCrash ==
  ASSUME CertInv, Crash PROVE CertInv'
<1>1. Typed
  BY DEF CertInv
<1>2. /\ \A c \in Configs : state'[c] = "off"
      /\ \A k \in TaskKeys : ~Flying(k)'
      /\ calls' = {} /\ mutex' = Nil /\ tasked' = {}
  BY DEF Crash, Flying
<1>3. Typed'
  BY <1>1, BoundsOK DEF Typed, States, Crash
<1>4. FlightsInv'
  BY <1>2 DEF FlightsInv, Callers
<1>5. OwnInv' /\ TimeInv'
  BY <1>2 DEF OwnInv, OwnDomain, TimeInv, At
<1> QED BY <1>3, <1>4, <1>5 DEF CertInv

LEMMA KeepDamage ==
  ASSUME CertInv, NEW f \in Damaged, Damage(f) PROVE CertInv'
<1>1. Typed /\ FlightsInv /\ f \in Files
  BY BoundsOK DEF CertInv
<1>2. PICK content \in {Missing, Corrupt} : disk' = [disk EXCEPT ![f] = content]
  BY DEF Damage
<1>3. content \in Contents /\ ~IsCert(content)
  BY CertIs DEF Contents
<1>4. disk' \in [Files -> Contents] /\ disk'[f] = content /\ \A g \in Files \ {f} : disk'[g] = disk[g]
  BY <1>1, <1>2, <1>3 DEF Typed
<1>5. Written
  BY <1>3, <1>4 DEF Written
<1>6. UNCHANGED <<state, tasked, due, calls, claims, flights, mutex, checked, missed>>
      /\ torn' = torn \cup Uses(f)
  BY DEF Damage, watched
<1>7. Typed'
  BY <1>1, <1>4, <1>6 DEF Typed, Uses
<1>8. FlightsInv'
  <2>1. \A k \in TaskKeys : (Flying(k)' <=> Flying(k)) /\ Callers(k)' = Callers(k)
    BY <1>6 DEF Flying, Callers
  <2>2. \A k \in TaskKeys : FlightOK(k)' <=> FlightOK(k)
    BY <1>6 DEF FlightOK
  <2>3. mutex' # Nil => Flying(mutex)' /\ Acme(flights[mutex].cfg)'
    BY <1>1, <1>6 DEF FlightsInv, Flying
  <2> QED BY <1>1, <2>1, <2>2, <2>3 DEF FlightsInv
<1>9. OwnInv'
  <2>1. \A k \in TaskKeys : Flying(k)' => Flying(k) /\ flights'[k].cfg = flights[k].cfg
    BY <1>6 DEF Flying
  <2>2. \A k \in TaskKeys : At(k, "writeKey")' => At(k, "writeKey")
    BY <1>6 DEF At, Flying
  <2> QED BY <1>5, <1>6, <2>1, <2>2, OwnStep
<1>10. TimeInv'
  BY <1>1, <1>5, <1>6, TimeStep DEF Typed
<1> QED BY <1>7, <1>8, <1>9, <1>10 DEF CertInv

LEMMA KeepStutter ==
  ASSUME CertInv, UNCHANGED vars PROVE CertInv'
<1>1. state' \in [Configs -> States] /\ missed' \in [Configs -> 0 .. Life]
  BY DEF CertInv, Typed, vars
<1> QED BY <1>1, ControllerStep DEF vars

LEMMA CertInit ==
  ASSUME Init PROVE CertInv
<1>1. /\ disk \in [Files -> Contents]
      /\ \A c \in Configs : state[c] = "off"
      /\ \A k \in TaskKeys : ~Flying(k)
      /\ calls = {} /\ mutex = Nil
  BY DisksOK DEF Init, Flying
<1>2. Typed
  BY <1>1, BoundsOK DEF Init, Typed, States
<1>3. FlightsInv
  BY <1>1 DEF FlightsInv, Callers
<1>4. OwnInv /\ TimeInv
  BY <1>1 DEF Init, OwnInv, OwnDomain, TimeInv, At
<1> QED BY <1>2, <1>3, <1>4 DEF CertInv

LEMMA CertNext ==
  ASSUME CertInv, [Next]_vars PROVE CertInv'
<1>1. ASSUME NEW c \in Configs, Begin(c) \/ EnsureCertificate(c) \/ Reload(c) \/ renewCertTask(c) \/ Stop(c)
      PROVE  CertInv'
  BY <1>1, KeepBegin, KeepEnsureCertificate, KeepReload, KeepRenewCertTask, KeepStop
<1>2. ASSUME NEW k \in TaskKeys, Fly(k) PROVE CertInv'
  BY <1>2, KeepEnsureLifecycle, KeepLock, KeepNewLego, KeepOrder, KeepWriteCert, KeepWriteKey DEF Fly
<1>3. ASSUME NEW f \in Damaged, Damage(f) PROVE CertInv'
  BY <1>3, KeepDamage
<1> QED BY <1>1, <1>2, <1>3, KeepDay, KeepCrash, KeepStutter DEF Next

(* The inductive invariant: callers and flights, the mutex, claims, the    *)
(* domains of certificates and the days they have left.                    *)
THEOREM CertificatesStaySound == Spec => []CertInv
BY CertInit, CertNext, PTL DEF Spec

(* Every caller has a flight until it returns, and certIssuanceMu is held  *)
(* by a call that makes an ACME order and by no other, whatever fails      *)
(* (cert_manager.go:50-53 and 74-92).                                      *)
THEOREM CertificateTypes == Spec => []TypeOK
<1>1. ASSUME CertInv PROVE TypeOK
  <2>1. Typed /\ FlightsInv
    BY <1>1 DEF CertInv
  <2>2. ASSUME NEW k \in TaskKeys, Flying(k), k.mode # "self" PROVE Acme(flights[k].cfg)
    BY <2>1, <2>2, FlightOf DEF Lifecycle, Acme
  <2>3. \A k \in TaskKeys :
          Flying(k) /\ k.mode # "self" => (mutex = k <=> flights[k].at \notin {"decide", "lock"})
    BY <2>1, <2>2 DEF FlightsInv, FlightOK
  <2> QED BY <2>1, <2>3 DEF Typed, States, FlightsInv, TypeOK
<1> QED BY <1>1, CertificatesStaySound, PTL

(* No controller's certificate is overwritten for another domain, though   *)
(* files are claimed by path alone (cert_manager.go:32-35).                *)
THEOREM OwnCertificates == Spec => []OwnDomain
<1>1. CertInv => OwnDomain
  BY DEF CertInv, OwnInv
<1> QED BY <1>1, CertificatesStaySound, PTL

(* The certificate of a controller with a renewal task expires only after  *)
(* RenewBeforeDays days of failed checks, the margin of some config that   *)
(* shares its flights (cert_manager.go:59-71), whatever reloads come in    *)
(* between.  A controller that came to TLS by a reload has no such task.   *)
THEOREM RenewedInTime == Spec => []InTime
<1>1. ASSUME CertInv PROVE InTime
  <2> SUFFICES ASSUME NEW c \in tasked, state[c] = "on", IsCert(disk[c.cert]),
                      disk[c.cert].left < 0
               PROVE  \E d \in Configs : certTaskKey(d) = certTaskKey(c)
                        /\ (missed[c] >= renewBefore(d) \/ missed[c] = Life)
    BY DEF InTime
  <2>1. Typed /\ TimeInv /\ c \in Configs
    BY <1>1 DEF CertInv, Typed
  <2>2. PICK d \in Configs :
          /\ certTaskKey(d) = certTaskKey(c)
          /\ c \in checked => disk[c.cert].left >= Margin(d)
          /\ c \notin checked => disk[c.cert].left + missed[c] + 1 >= Margin(d) \/ missed[c] = Life
    BY <2>1 DEF TimeInv, Fresh
  <2>3. /\ disk[c.cert].left \in Int /\ missed[c] \in 0 .. Life /\ Life \in Nat
        /\ Margin(d) \in Nat /\ renewBefore(d) \in Nat
    BY <2>1, CertIs, MarginRange DEF Typed
  <2>4. missed[c] >= Margin(d) \/ missed[c] = Life
    BY <2>2, <2>3
  <2>5. missed[c] >= renewBefore(d) \/ missed[c] = Life
    BY <2>3, <2>4 DEF Margin
  <2> QED BY <2>2, <2>5
<1> QED BY <1>1, CertificatesStaySound, PTL

-----------------------------------------------------------------------------
(* Certificates and their keys.                                            *)

(* Two calls never write the files of one certificate: their domain is the *)
(* same, as both have claimed them, and then certIssuanceMu parts them, or *)
(* they are one flight.                                                    *)
LEMMA WriterAlone ==
  ASSUME CertInv, NEW j \in TaskKeys, NEW k \in TaskKeys, j.cert = k.cert, OneWriter(k.cert),
         Flying(j), Flying(k), flights[j].at \in {"writeCert", "writeKey"},
         flights[k].at \in {"writeCert", "writeKey"}
  PROVE  j = k
<1>1. Typed /\ FlightsInv /\ OwnInv
  BY DEF CertInv
<1>2. PICK c \in Configs : c = flights[j].cfg /\ certTaskKey(c) = j /\ Lifecycle(c)
                           /\ c.cert = j.cert /\ FlightOK(j)
  BY <1>1, FlightOf
<1>3. PICK d \in Configs : d = flights[k].cfg /\ certTaskKey(d) = k /\ Lifecycle(d)
                           /\ d.cert = k.cert /\ FlightOK(k)
  BY <1>1, FlightOf
<1>4. c.domain = d.domain
  BY <1>1, <1>2, <1>3 DEF OwnInv, Owned
<1>5. CASE Acme(c) /\ Acme(d)
  BY <1>2, <1>3, <1>5 DEF FlightOK
<1>6. CASE ~Acme(c) \/ ~Acme(d)
  BY <1>2, <1>3, <1>4, <1>6 DEF OneWriter
<1> QED BY <1>5, <1>6

(* A step that writes neither certificate nor key: days pass, and files    *)
(* are damaged.                                                            *)
LEMMA PairStep ==
  ASSUME CertInv, PairInv, torn \subseteq torn',
         \A f \in Files : IsCert(disk'[f]) => IsCert(disk[f]) /\ disk'[f].serial = disk[f].serial,
         \A c \in Configs : c \notin torn' /\ disk[c.key] \in Keys => disk'[c.key] = disk[c.key],
         \A j \in TaskKeys : At(j, "writeKey")' => flights'[j] = flights[j]
  PROVE  PairInv'
<1>1. Typed /\ FlightsInv
  BY DEF CertInv
<1>2. ASSUME NEW k \in TaskKeys, At(k, "writeKey")', OneWriter(k.cert), IsCert(disk'[k.cert])
      PROVE  disk'[k.cert].serial = flights'[k].serial
  <2>1. flights'[k] = flights[k] /\ At(k, "writeKey") /\ Flying(k)
    BY <1>2 DEF At, Flying
  <2>2. k.cert \in Files
    BY <1>1, <2>1, FlightOf
  <2> QED BY <1>2, <2>1, <2>2 DEF PairInv
<1>3. ASSUME NEW c \in Configs, Lifecycle(c), OneWriter(c.cert), c \notin torn', IsCert(disk'[c.cert])
      PROVE  disk'[c.key] = [key |-> disk'[c.cert].serial]
  <2>1. c.cert \in Files /\ IsCert(disk[c.cert]) /\ disk'[c.cert].serial = disk[c.cert].serial
    BY <1>3, KeyFields
  <2>2. disk[c.key] = [key |-> disk[c.cert].serial] /\ disk[c.cert].serial \in Serials
    BY <1>3, <2>1, CertIs DEF PairInv, Paired, PairOf
  <2>3. disk[c.key] \in Keys
    BY <2>2 DEF Keys
  <2> QED BY <1>3, <2>1, <2>2, <2>3
<1>4. Paired'
  BY <1>3 DEF Paired, PairOf
<1> QED BY <1>2, <1>4 DEF PairInv

(* The same, of a step that leaves the files alone.                        *)
LEMMA PairQuiet ==
  ASSUME CertInv, PairInv, UNCHANGED <<disk, torn>>,
         \A j \in TaskKeys : At(j, "writeKey")' => flights'[j] = flights[j]
  PROVE  PairInv'
BY PairStep

(* A call that does not go on to the key.                                  *)
LEMMA PairFlight ==
  ASSUME CertInv, PairInv, UNCHANGED <<disk, torn>>, NEW k \in TaskKeys,
         \A j \in TaskKeys \ {k} : flights'[j] = flights[j], ~At(k, "writeKey")'
  PROVE  PairInv'
BY PairQuiet

LEMMA PairFinish ==
  ASSUME CertInv, PairInv, UNCHANGED <<disk, torn>>, NEW k \in TaskKeys, NEW ok, Finish(k, ok)
  PROVE  PairInv'
<1>1. ~At(k, "writeKey")' /\ \A j \in TaskKeys \ {k} : flights'[j] = flights[j]
  BY DEF Finish, CertInv, Typed, At, Flying
<1> QED BY <1>1, PairFlight

LEMMA PairOrderFailed ==
  ASSUME CertInv, PairInv, UNCHANGED <<disk, torn>>, NEW k \in TaskKeys, Flying(k), OrderFailed(k)
  PROVE  PairInv'
<1>1. CASE Finish(k, FALSE)
  BY <1>1, PairFinish
<1>2. CASE flights' = [flights EXCEPT ![k].at = "order", ![k].action = "issue", ![k].serial = 0]
  <2>1. flights[k] \in Flights /\ flights \in [TaskKeys -> Flights \cup {Nil}]
    BY FlightOf DEF CertInv, Typed
  <2>2. flights'[k].at = "order" /\ \A j \in TaskKeys \ {k} : flights'[j] = flights[j]
    BY <1>2, <2>1 DEF Flights
  <2>3. ~At(k, "writeKey")'
    BY <2>2 DEF At
  <2> QED BY <2>2, <2>3, PairFlight
<1> QED BY <1>1, <1>2 DEF OrderFailed

LEMMA PairController ==
  ASSUME CertInv, PairInv, NEW c \in Configs,
         Begin(c) \/ EnsureCertificate(c) \/ Reload(c) \/ renewCertTask(c) \/ Stop(c)
  PROVE  PairInv'
<1>1. UNCHANGED <<disk, torn>>
  BY DEF Begin, EnsureCertificate, Reload, renewCertTask, Stop
<1>2. CASE flights' = flights
  BY <1>1, <1>2, PairQuiet
<1>3. CASE Join(c)
  <2>1. PICK k \in TaskKeys : k = certTaskKey(c)
    BY KeyFields
  <2>2. CASE Flying(k)
    BY <1>2, <1>3, <2>1, <2>2 DEF Join
  <2>3. CASE ~Flying(k)
    <3>1. /\ flights'[k].at = "decide"
          /\ \A j \in TaskKeys \ {k} : flights'[j] = flights[j]
      BY <1>3, <2>1, <2>3 DEF Join, CertInv, Typed
    <3>2. ~At(k, "writeKey")'
      BY <3>1 DEF At
    <3> QED BY <1>1, <3>1, <3>2, PairFlight
  <2> QED BY <2>2, <2>3
<1> QED BY <1>2, <1>3 DEF Begin, EnsureCertificate, Reload, renewCertTask, Stop

(* Decisions, the mutex, the account and the order.                        *)
LEMMA PairBefore ==
  ASSUME CertInv, PairInv, NEW k \in TaskKeys,
         ensureLifecycle(k) \/ Lock(k) \/ NewLego(k) \/ Order(k)
  PROVE  PairInv'
<1>1. UNCHANGED <<disk, torn>> /\ Flying(k)
  BY DEF ensureLifecycle, Lock, NewLego, Order, At
<1>2. flights[k] \in Flights /\ flights \in [TaskKeys -> Flights \cup {Nil}]
  BY <1>1, FlightOf DEF CertInv, Typed
<1>3. ASSUME NEW ok, Finish(k, ok) PROVE PairInv'
  BY <1>1, <1>3, PairFinish
<1>4. ASSUME NEW place, Goto(k, place), place # "writeKey" PROVE PairInv'
  <2>1. flights'[k].at = place /\ \A j \in TaskKeys \ {k} : flights'[j] = flights[j]
    BY <1>2, <1>4 DEF Goto, Flights
  <2>2. ~At(k, "writeKey")'
    BY <1>4, <2>1 DEF At
  <2> QED BY <1>1, <2>1, <2>2, PairFlight
<1>5. CASE ensureLifecycle(k)
  <2> DEFINE action == ActionFor(flights[k].cfg)
             w == IF Acme(flights[k].cfg) THEN [flights[k] EXCEPT !.at = "lock", !.action = action]
                  ELSE [flights[k] EXCEPT !.at = "writeCert", !.action = action, !.serial = FreshSerial]
  <2>1. \/ Finish(k, action = "reuse")
        \/ flights' = [flights EXCEPT ![k] = w]
    BY <1>5 DEF ensureLifecycle
  <2>2. w.at # "writeKey"
    BY <1>2 DEF Flights
  <2> HIDE DEF w
  <2>3. CASE flights' = [flights EXCEPT ![k] = w]
    <3>1. flights'[k] = w /\ \A j \in TaskKeys \ {k} : flights'[j] = flights[j]
      BY <1>2, <2>3
    <3>2. ~At(k, "writeKey")'
      BY <2>2, <3>1 DEF At
    <3> QED BY <1>1, <3>1, <3>2, PairFlight
  <2> QED BY <1>3, <2>1, <2>3
<1>6. CASE Lock(k)
  BY <1>4, <1>6 DEF Lock
<1>7. CASE NewLego(k)
  BY <1>3, <1>4, <1>7 DEF NewLego
<1>8. CASE Order(k)
  <2>1. CASE flights' = [flights EXCEPT ![k].at = "writeCert", ![k].serial = FreshSerial]
    <3>1. flights'[k].at = "writeCert" /\ \A j \in TaskKeys \ {k} : flights'[j] = flights[j]
      BY <1>2, <2>1 DEF Flights
    <3>2. ~At(k, "writeKey")'
      BY <3>1 DEF At
    <3> QED BY <1>1, <3>1, <3>2, PairFlight
  <2>2. CASE OrderFailed(k)
    BY <1>1, <2>2, PairOrderFailed
  <2> QED BY <1>8, <2>1, <2>2 DEF Order
<1> QED BY <1>5, <1>6, <1>7, <1>8

(* The certificate is there before its key: all that use it are torn.      *)
LEMMA PairWriteCert ==
  ASSUME CertInv, PairInv, NEW k \in TaskKeys, WriteCert(k) PROVE PairInv'
<1>1. Typed /\ FlightsInv /\ Flying(k) /\ flights[k].at = "writeCert"
  BY DEF CertInv, WriteCert, At
<1>2. /\ flights[k] \in Flights /\ flights \in [TaskKeys -> Flights \cup {Nil}]
      /\ k.cert = flights[k].cfg.cert /\ FlightOK(k)
  BY <1>1, FlightOf DEF Typed
<1>3. CASE OrderFailed(k) /\ UNCHANGED <<disk, torn>>
  BY <1>1, <1>3, PairOrderFailed
<1>4. CASE /\ disk' = [disk EXCEPT ![k.cert] =
                [serial |-> flights[k].serial, domain |-> flights[k].cfg.domain, left |-> Life]]
           /\ Goto(k, "writeKey")
           /\ torn' = torn \cup Uses(k.cert)
  <2>1. flights[k].serial \in Serials
    BY <1>1, <1>2 DEF FlightOK
  <2>2. /\ disk'[k.cert] = [serial |-> flights[k].serial, domain |-> k.domain, left |-> Life]
        /\ \A g \in Files \ {k.cert} : disk'[g] = disk[g]
    BY <1>1, <1>4, <2>1, CertWritten
  <2>3. /\ flights'[k].serial = flights[k].serial
        /\ \A j \in TaskKeys \ {k} : flights'[j] = flights[j]
    BY <1>2, <1>4 DEF Goto, Flights
  <2>4. ASSUME NEW j \in TaskKeys, At(j, "writeKey")', OneWriter(j.cert), IsCert(disk'[j.cert])
        PROVE  disk'[j.cert].serial = flights'[j].serial
    <3>1. CASE j = k
      BY <2>2, <2>3, <3>1
    <3>2. CASE j # k
      <4>1. flights'[j] = flights[j] /\ At(j, "writeKey") /\ Flying(j) /\ flights[j].at = "writeKey"
        BY <2>3, <2>4, <3>2 DEF At, Flying
      <4>2. j.cert # k.cert /\ j.cert \in Files
        BY <1>1, <2>4, <3>2, <4>1, WriterAlone, FlightOf
      <4>3. disk'[j.cert] = disk[j.cert]
        BY <2>2, <4>2
      <4> QED BY <2>4, <4>1, <4>3 DEF PairInv
    <3> QED BY <3>1, <3>2
  <2>5. ASSUME NEW c \in Configs, Lifecycle(c), OneWriter(c.cert), c \notin torn', IsCert(disk'[c.cert])
        PROVE  disk'[c.key] = [key |-> disk'[c.cert].serial]
    <3>1. c.cert # k.cert /\ c.key # k.cert /\ c \notin torn
      BY <1>4, <2>5 DEF Uses
    <3>2. disk'[c.cert] = disk[c.cert] /\ disk'[c.key] = disk[c.key]
      BY <2>2, <3>1, KeyFields
    <3> QED BY <2>5, <3>1, <3>2 DEF PairInv, Paired, PairOf
  <2>6. Paired'
    BY <2>5 DEF Paired, PairOf
  <2> QED BY <2>4, <2>6 DEF PairInv
<1> QED BY <1>2, <1>3, <1>4 DEF WriteCert

(* The key that is written is that of the certificate; others that use the *)
(* key file are torn.                                                      *)
LEMMA PairWriteKey ==
  ASSUME CertInv, PairInv, NEW k \in TaskKeys, WriteKey(k) PROVE PairInv'
<1>1. Typed /\ FlightsInv /\ At(k, "writeKey") /\ Flying(k) /\ flights[k].at = "writeKey"
  BY DEF CertInv, WriteKey, At
<1>2. /\ FlightOK(k) /\ k.key = flights[k].cfg.key /\ k.cert = flights[k].cfg.cert
      /\ k.cert \in Files /\ k.key \in Files
  BY <1>1, FlightOf
<1>3. CASE OrderFailed(k) /\ UNCHANGED <<disk, torn>>
  BY <1>1, <1>3, PairOrderFailed
<1>4. CASE /\ disk' = [disk EXCEPT ![k.key] = [key |-> flights[k].serial]]
           /\ torn' = (torn \cup Uses(k.key)) \ SamePair(flights[k].cfg)
           /\ Finish(k, TRUE)
  <2>1. flights[k].serial \in Serials
    BY <1>1, <1>2 DEF FlightOK
  <2>2. /\ disk'[k.key] = [key |-> flights[k].serial] /\ ~IsCert(disk'[k.key])
        /\ \A g \in Files \ {k.key} : disk'[g] = disk[g]
    BY <1>1, <1>4, <2>1, KeyWritten
  <2>3. ~At(k, "writeKey")' /\ \A j \in TaskKeys \ {k} : flights'[j] = flights[j]
    BY <1>1, <1>4 DEF Finish, Typed, At, Flying
  <2>4. ASSUME NEW j \in TaskKeys, At(j, "writeKey")', OneWriter(j.cert), IsCert(disk'[j.cert])
        PROVE  disk'[j.cert].serial = flights'[j].serial
    <3>1. j # k
      BY <2>3, <2>4
    <3>2. flights'[j] = flights[j] /\ At(j, "writeKey") /\ Flying(j)
      BY <2>3, <2>4, <3>1 DEF At, Flying
    <3>3. j.cert # k.key /\ j.cert \in Files
      BY <1>1, <2>2, <2>4, <3>2, FlightOf
    <3>4. disk'[j.cert] = disk[j.cert]
      BY <2>2, <3>3
    <3> QED BY <2>4, <3>2, <3>4 DEF PairInv
  <2>5. ASSUME NEW c \in Configs, Lifecycle(c), OneWriter(c.cert), c \notin torn', IsCert(disk'[c.cert])
        PROVE  disk'[c.key] = [key |-> disk'[c.cert].serial]
    <3>1. c.cert # k.key /\ c.cert \in Files /\ c.key \in Files
      BY <2>2, <2>5, KeyFields
    <3>2. disk'[c.cert] = disk[c.cert]
      BY <2>2, <3>1
    <3>3. CASE c \in SamePair(flights[k].cfg)
      <4>1. c.cert = k.cert /\ c.key = k.key
        BY <1>2, <3>3 DEF SamePair
      <4>2. disk[k.cert].serial = flights[k].serial
        BY <1>1, <2>5, <3>2, <4>1 DEF PairInv
      <4> QED BY <2>2, <3>2, <4>1, <4>2
    <3>4. CASE c \notin SamePair(flights[k].cfg)
      <4>1. c \notin torn /\ c.key # k.key
        BY <1>4, <2>5, <3>4 DEF Uses
      <4>2. disk'[c.key] = disk[c.key]
        BY <2>2, <3>1, <4>1
      <4> QED BY <2>5, <3>2, <4>1, <4>2 DEF PairInv, Paired, PairOf
    <3> QED BY <3>3, <3>4
  <2>6. Paired'
    BY <2>5 DEF Paired, PairOf
  <2> QED BY <2>4, <2>6 DEF PairInv
<1> QED BY <1>2, <1>3, <1>4 DEF WriteKey

(* Days, crashes, damage and stuttering.                                   *)
LEMMA PairOthers ==
  ASSUME CertInv, PairInv,
         Day \/ Crash \/ (\E f \in Damaged : Damage(f)) \/ UNCHANGED vars
  PROVE  PairInv'
<1>1. disk \in [Files -> Contents]
  BY DEF CertInv, Typed
<1>2. CASE Day
  <2>1. ASSUME NEW f \in Files
        PROVE  /\ IsCert(disk'[f]) => IsCert(disk[f])
               /\ IsCert(disk[f]) => disk'[f].serial = disk[f].serial
               /\ disk[f] \in Keys => disk'[f] = disk[f]
    <3>1. disk'[f] = IF IsCert(disk[f])
                     THEN [disk[f] EXCEPT !.left = IF @ < 0 THEN @ ELSE @ - 1] ELSE disk[f]
      BY <1>2 DEF Day
    <3>2. CASE IsCert(disk[f])
      <4>1. disk[f] \in Certs /\ disk[f].left \in -1 .. Life /\ Life \in Nat
        BY <1>1, <3>2, CertIs, BoundsOK DEF IsCert
      <4> DEFINE l == IF disk[f].left < 0 THEN disk[f].left ELSE disk[f].left - 1
      <4>2. l \in -1 .. Life
        BY <4>1
      <4>3. disk'[f] = [disk[f] EXCEPT !.left = l]
        BY <3>1, <3>2
      <4> HIDE DEF l
      <4>4. disk'[f] \in Certs /\ disk'[f].serial = disk[f].serial
        BY <4>1, <4>2, <4>3 DEF Certs
      <4> QED BY <3>2, <4>4, CertIs
    <3> QED BY <3>1, <3>2
  <2>2. torn' = torn /\ flights' = flights
    BY <1>2 DEF Day
  <2> QED BY <2>1, <2>2, KeyFields, PairStep
<1>3. CASE Crash
  <2>1. \A j \in TaskKeys : ~At(j, "writeKey")'
    BY <1>3 DEF Crash, At, Flying
  <2> QED BY <1>3, <2>1, PairQuiet DEF Crash
<1>4. CASE \E f \in Damaged : Damage(f)
  <2>1. PICK f \in Damaged, content \in {Missing, Corrupt} :
          /\ disk' = [disk EXCEPT ![f] = content]
          /\ torn' = torn \cup Uses(f) /\ flights' = flights
    BY <1>4 DEF Damage
  <2>2. torn' = torn \cup Uses(f) /\ flights' = flights
    BY <2>1
  <2>3. \A g \in Files : g # f => disk'[g] = disk[g]
    BY <1>1, <2>1
  <2>4. ~IsCert(disk'[f])
    BY <1>1, <2>1, BoundsOK, CertIs
  <2>5. \A c \in Configs : c \notin torn' => c.key # f /\ c.key \in Files
    BY <2>2, KeyFields DEF Uses
  <2> QED BY <2>2, <2>3, <2>4, <2>5, PairStep
<1>5. CASE UNCHANGED vars
  BY <1>5, PairQuiet DEF vars
<1> QED BY <1>2, <1>3, <1>4, <1>5

LEMMA PairNext ==
  ASSUME CertInv, PairInv, [Next]_vars PROVE PairInv'
<1>1. ASSUME NEW k \in TaskKeys, Fly(k) PROVE PairInv'
  BY <1>1, PairBefore, PairWriteCert, PairWriteKey DEF Fly
<1> QED BY <1>1, PairController, PairOthers DEF Next

(* Calls of any accounts, for any certificates, restarted and reloaded in  *)
(* any order, leave each certificate they have written with its key: no    *)
(* two of them write one pair at a time (cert_manager.go:172-174).  What a *)
(* crash or a failed write leaves half written, and what is damaged or     *)
(* shares its key file, is torn until its next complete write.             *)
THEOREM CertAndKeyPaired == Spec => []Paired
<1>1. ASSUME Init PROVE PairInv
  <2>1. \A k \in TaskKeys : ~At(k, "writeKey")
    BY <1>1 DEF Init, Flying, At
  <2>2. Paired
    BY <1>1 DEF Init, Paired
  <2> QED BY <2>1, <2>2 DEF PairInv
<1>2. ASSUME CertInv, PairInv, [Next]_vars PROVE PairInv'
  BY <1>2, PairNext
<1>3. PairInv => Paired
  BY DEF PairInv
<1> QED BY <1>1, <1>2, <1>3, CertificatesStaySound, PTL DEF Spec

=============================================================================

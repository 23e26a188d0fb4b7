---------------------------- MODULE Certificate ----------------------------
(***************************************************************************)
(* The certificates of a process (node/cert_manager.go, node/cert.go,      *)
(* node/lego.go): controllers ask for theirs when they start, one after    *)
(* the other, when a reload of their node (node/reload.go) finds that it   *)
(* needs one, and every day from a task of their own (node/task.go), which *)
(* only a controller that started with a certificate has.                  *)
(*                                                                         *)
(* A config is [mode, domain, cert, key, provider, email, renewBefore].    *)
(* Calls for equal task keys share a flight (singleflight); orders to the  *)
(* ACME server are made one at a time under certIssuanceMu; what is on     *)
(* disk decides, and outlives a crash.  Certificate and key are written    *)
(* one after the other, each by a rename.                                  *)
(*                                                                         *)
(* Time is in days: left is the whole number of days a certificate has,    *)
(* -1 when it has expired.  A serial stands for a key pair, and a file     *)
(* with a key, for who parses it, is no certificate.                       *)
(***************************************************************************)
EXTENDS Integers, FiniteSets, Sequences

CONSTANTS
  Configs,     \* the CertConfigs of the controllers that need a certificate
  Sites,       \* the configs of the nodes of a configuration file, in order
  Files,       \* paths of certificates and keys
  Life,        \* days an issued certificate is valid
  InitDisks,   \* contents of the disk before the first start
  Missing, Corrupt,  \* a file that is not there, or does not parse
  Nil,
  MaxFails,    \* bound: failed calls of the ACME server and the file system
  MaxMishaps,  \* bound: crashes and damaged files
  Damaged,     \* bound: the files that may be damaged
  Changing     \* bound: the configs of nodes whose security the panel changes

VARIABLES
  disk,      \* file -> Missing, Corrupt, [serial, domain, left] or [key]
  state,     \* config -> "off", "starting", "on", or, its node having no
             \* TLS, "plain", and "reloading" when it is to have it: its controller
  tasked,    \* configs whose controller has a renewCertPeriodic
  due,       \* configs whose daily task has not run yet
  calls,     \* configs with a caller in certGroup.Do
  claims,    \* file -> [domain, key] or Nil: certClaims
  flights,   \* task key -> Nil or [cfg, at, action, serial]
  mutex,     \* certIssuanceMu: the task key that holds it, or Nil
  checked,   \* configs with a daily check that succeeded today
  missed,    \* config -> days without a successful check, up to a cap
  torn,      \* configs one of whose files was last written without the other
  hist       \* [fails, mishaps]

vars == <<disk, state, tasked, due, calls, claims, flights, mutex, checked, missed, torn, hist>>
watched == <<tasked, checked, missed>>

Acme(c) == c.mode \in {"http", "dns"}

certTaskKey(c) == [mode |-> c.mode, domain |-> c.domain, cert |-> c.cert, key |-> c.key,
                   provider |-> c.provider, email |-> c.email]

TaskKeys == { certTaskKey(c) : c \in Configs }
Flying(k) == flights[k] # Nil
At(k, place) == Flying(k) /\ flights[k].at = place
Goto(k, place) == flights' = [flights EXCEPT ![k].at = place]

certCoversDomain(cert, domain) == cert.domain = domain

\* DefaultRenewBeforeDays when it is not set.
DefaultRenewBeforeDays == 30
renewBefore(c) == IF c.renewBefore <= 0 THEN DefaultRenewBeforeDays ELSE c.renewBefore

\* What a file holds.
Serials == 1 .. Cardinality(Files) + Cardinality(TaskKeys)
Domains == { c.domain : c \in Configs }
Certs == [serial : Serials, domain : Domains, left : -1 .. Life]
Keys == [key : Serials]
Contents == Certs \cup Keys \cup {Missing, Corrupt}

IsCert(content) == content \in Certs
parseDiskCert(f) == IF disk[f] \in Keys THEN Corrupt ELSE disk[f]

\* A new key pair is one that no file and no flight has.
Used == { disk[f].serial : f \in { f \in Files : IsCert(disk[f]) } }
        \cup { disk[f].key : f \in { f \in Files : disk[f] \in Keys } }
        \cup { flights[k].serial : k \in { k \in TaskKeys : Flying(k) } }
FreshSerial == CHOOSE s \in Serials : s \notin Used

\* What a call is about to do, and who claimed a file.
Flights == [cfg : Configs, at : {"decide", "lock", "lego", "order", "writeCert", "writeKey"},
            action : {"none", "issue", "reissue", "renew"}, serial : {0} \cup Serials]
Claims == [domain : Domains, key : Files]

Fail == hist.fails < MaxFails /\ hist' = [hist EXCEPT !.fails = @ + 1]

ASSUME ConfigsOK ==
  /\ IsFiniteSet(Configs) /\ IsFiniteSet(Files)
  /\ \A c \in Configs : c.cert \in Files /\ c.key \in Files /\ c.renewBefore \in Int
ASSUME DisksOK ==
  /\ Missing # Corrupt /\ {Missing, Corrupt} \cap (Certs \cup Keys) = {} /\ Certs \cap Keys = {}
  /\ InitDisks \subseteq [Files -> Contents]
ASSUME NilOK == Nil \notin TaskKeys /\ Nil \notin Flights /\ Nil \notin Claims
ASSUME BoundsOK == {Life, MaxFails, MaxMishaps} \subseteq Nat /\ Damaged \subseteq Files

-----------------------------------------------------------------------------
(* The end of calls.                                                       *)

\* The callers in set return: a controller that starts is on or is not, and
\* the first run of its renewal task comes at once; one that is reloaded has
\* the new configuration or keeps the old one.
Return(set, ok) ==
  LET started == { c \in set : state[c] = "starting" }
      reloaded == { c \in set : state[c] = "reloading" }
      good == { c \in set : ok /\ Acme(c) } IN
  /\ calls' = calls \ set
  /\ state' = [c \in Configs |-> IF c \in started THEN IF ok THEN "on" ELSE "off"
                                 ELSE IF c \in reloaded THEN IF ok THEN "on" ELSE "plain"
                                 ELSE state[c]]
  /\ tasked' = tasked \cup (started \cap good)
  /\ due' = due \cup (started \cap good)
  /\ checked' = checked \cup { c \in good : state[c] # "off" }
  /\ missed' = [c \in Configs |-> IF c \in good /\ state[c] # "off" THEN 0 ELSE missed[c]]

Callers(k) == { c \in calls : certTaskKey(c) = k }

\* Faulty variant: an error leaves the mutex locked.
FinishLocked(k, ok) ==
  /\ Return(Callers(k), ok)
  /\ flights' = [flights EXCEPT ![k] = Nil]
  /\ mutex' = IF ok /\ mutex = k THEN Nil ELSE mutex

\* acquire returns, with the deferred Unlock.
Finish(k, ok) ==
  /\ Return(Callers(k), ok)
  /\ flights' = [flights EXCEPT ![k] = Nil]
  /\ mutex' = IF mutex = k THEN Nil ELSE mutex

-----------------------------------------------------------------------------
(* EnsureCertificate.                                                      *)

\* Faulty variant: the first claim of a file is not looked at.
ClaimableAlways(c) == TRUE

\* claimCertFiles refuses another domain's files, and another key for a
\* certificate file, but not another certificate for a key file.
Claimable(c) ==
  /\ claims[c.cert] # Nil => claims[c.cert] = [domain |-> c.domain, key |-> c.key]
  /\ claims[c.key] # Nil => claims[c.key].domain = c.domain

claimCertFiles(c) ==
  claims' = [f \in Files |-> IF f \in {c.cert, c.key} THEN [domain |-> c.domain, key |-> c.key] ELSE claims[f]]

\* The files are there and the certificate covers the domain; its dates are
\* not looked at.
ensureFileMode(c) ==
  /\ disk[c.key] # Missing /\ IsCert(parseDiskCert(c.cert))
  /\ certCoversDomain(parseDiskCert(c.cert), c.domain)

\* A call for the same task may be under way: this one waits for its result.
Join(c) ==
  /\ Claimable(c)
  /\ claimCertFiles(c)
  /\ calls' = calls \cup {c}
  /\ flights' = IF Flying(certTaskKey(c)) THEN flights
                ELSE [flights EXCEPT ![certTaskKey(c)] =
                        [cfg |-> c, at |-> "decide", action |-> "none", serial |-> 0]]

Lifecycle(c) == c.mode \in {"self", "http", "dns"}

\* Node.Start starts its controllers in order; they are closed in reverse.
Last(c) ==
  \E site \in Sites : \E i \in DOMAIN site :
    site[i] = c /\ { d \in Configs \ {c} : state[d] # "off" } = { site[j] : j \in 1 .. i - 1 }

\* A node without TLS needs no certificate.
Begin(c) ==
  /\ state[c] = "off" /\ c \notin calls \cup due /\ Last(c)
  /\ \A d \in Configs : state[d] # "starting"
  /\ \E how \in {"starting"} \cup (IF c \in Changing THEN {"plain"} ELSE {}) :
       state' = [state EXCEPT ![c] = how]
  /\ UNCHANGED <<disk, due, calls, claims, flights, mutex, watched, torn, hist>>

EnsureCertificate(c) ==
  /\ state[c] = "starting" /\ c \notin calls
  /\ \/ c.mode = "file" /\ Return({c}, ensureFileMode(c)) /\ UNCHANGED <<claims, flights>>
     \/ Lifecycle(c) /\ ~Claimable(c) /\ Return({c}, FALSE) /\ UNCHANGED <<claims, flights>>
     \/ Lifecycle(c) /\ Join(c) /\ UNCHANGED <<state, due, watched>>
  /\ UNCHANGED <<disk, mutex, torn, hist>>

\* The panel changes the security of a node (reloadNodeConfig).  A node with
\* TLS asks for its certificate first, and one that had none before gets no
\* renewal task; when it is refused, everything stays as it is.
Reload(c) ==
  /\ c \in Changing /\ state[c] \in {"on", "plain"} /\ c \notin calls
  /\ \/ /\ Lifecycle(c) /\ Join(c)
        /\ state' = [state EXCEPT ![c] = IF @ = "plain" THEN "reloading" ELSE @]
     \/ /\ c.mode = "file" /\ ensureFileMode(c)
        /\ state' = [state EXCEPT ![c] = "on"]
        /\ UNCHANGED <<calls, claims, flights>>
     \/ /\ state' = [state EXCEPT ![c] = "plain"]
        /\ UNCHANGED <<calls, claims, flights>>
  /\ UNCHANGED <<disk, due, mutex, watched, torn, hist>>

\* The daily call, which may come after its controller was closed.  What a
\* config has claimed it can claim again.
renewCertTask(c) ==
  /\ c \in due \ calls
  /\ Join(c)
  /\ due' = due \ {c}
  /\ UNCHANGED <<disk, state, mutex, watched, torn, hist>>

Stop(c) ==
  /\ state[c] \in {"on", "plain"} /\ c \notin calls /\ Last(c)
  /\ state' = [state EXCEPT ![c] = "off"]
  /\ tasked' = tasked \ {c}
  /\ due' \in {due, due \ {c}}
  /\ checked' = checked \ {c} /\ missed' = [missed EXCEPT ![c] = 0]
  /\ UNCHANGED <<disk, calls, claims, flights, mutex, torn, hist>>

-----------------------------------------------------------------------------
(* A flight: ensureLifecycle and acquire.                                  *)

\* Faulty variant: a certificate is renewed when it has expired.
ActionForLate(c) ==
  LET cert == parseDiskCert(c.cert) IN
  CASE cert = Missing -> "issue"
    [] cert = Corrupt -> "reissue"
    [] IsCert(cert) -> IF ~certCoversDomain(cert, c.domain) THEN "error"
                       ELSE IF cert.left < 0 THEN "renew" ELSE "reuse"

\* The table of cert_manager.go:59-71; the key file is not looked at.
ActionFor(c) ==
  LET cert == parseDiskCert(c.cert) IN
  CASE cert = Missing -> "issue"
    [] cert = Corrupt -> "reissue"
    [] IsCert(cert) -> IF ~certCoversDomain(cert, c.domain) THEN "error"
                       ELSE IF cert.left < renewBefore(c) THEN "renew" ELSE "reuse"

\* Decided before the mutex is taken.  A self-signed certificate is made
\* without it.
ensureLifecycle(k) ==
  /\ At(k, "decide")
  /\ LET c == flights[k].cfg
         action == ActionFor(c) IN
     IF action \in {"error", "reuse"} THEN Finish(k, action = "reuse")
     ELSE /\ flights' = [flights EXCEPT ![k] =
                IF Acme(c) THEN [@ EXCEPT !.at = "lock", !.action = action]
                ELSE [@ EXCEPT !.at = "writeCert", !.action = action, !.serial = FreshSerial]]
          /\ UNCHANGED <<state, due, calls, watched, mutex>>
  /\ UNCHANGED <<disk, claims, torn, hist>>

\* Faulty variant: an order is made whoever holds the mutex.
LockFree(k) == TRUE

CanLock(k) == mutex = Nil

Lock(k) ==
  /\ At(k, "lock") /\ CanLock(k)
  /\ mutex' = k
  /\ Goto(k, "lego")
  /\ UNCHANGED <<disk, state, due, calls, claims, watched, torn, hist>>

\* NewLegoUser loads the account of the email or registers and saves one;
\* nothing but the failure of it depends on which.
NewLego(k) ==
  /\ At(k, "lego")
  /\ \/ /\ Goto(k, "order")
        /\ UNCHANGED <<state, due, calls, watched, mutex, hist>>
     \/ Fail /\ Finish(k, FALSE)
  /\ UNCHANGED <<disk, claims, torn>>

\* What failed in Renew, the ACME order or a write, is tried once more by a
\* fresh Obtain; a self-signed certificate is not.
OrderFailed(k) ==
  /\ Fail
  /\ IF Acme(flights[k].cfg) /\ flights[k].action = "renew"
     THEN /\ flights' = [flights EXCEPT ![k].at = "order", ![k].action = "issue", ![k].serial = 0]
          /\ UNCHANGED <<state, due, calls, watched, mutex>>
     ELSE Finish(k, FALSE)

Order(k) ==
  /\ At(k, "order")
  /\ \/ /\ flights' = [flights EXCEPT ![k].at = "writeCert", ![k].serial = FreshSerial]
        /\ UNCHANGED <<state, due, calls, watched, mutex, hist>>
     \/ OrderFailed(k)
  /\ UNCHANGED <<disk, claims, torn>>

\* The configs that use a file, and those that use both files of c.
Uses(f) == { d \in Configs : f \in {d.cert, d.key} }
SamePair(c) == { d \in Configs : d.cert = c.cert /\ d.key = c.key }

\* writeFileAtomic of the certificate: the file is the old one or the new.
WriteCert(k) ==
  /\ At(k, "writeCert")
  /\ LET c == flights[k].cfg IN
     \/ /\ disk' = [disk EXCEPT ![c.cert] =
                      [serial |-> flights[k].serial, domain |-> c.domain, left |-> Life]]
        /\ Goto(k, "writeKey")
        /\ torn' = torn \cup Uses(c.cert)
        /\ UNCHANGED <<state, due, calls, watched, mutex, hist>>
     \/ OrderFailed(k) /\ UNCHANGED <<disk, torn>>
  /\ UNCHANGED claims

WriteKey(k) ==
  /\ At(k, "writeKey")
  /\ LET c == flights[k].cfg IN
     \/ /\ disk' = [disk EXCEPT ![c.key] = [key |-> flights[k].serial]]
        /\ torn' = (torn \cup Uses(c.key)) \ SamePair(c)
        /\ Finish(k, TRUE)
        /\ UNCHANGED hist
     \/ OrderFailed(k) /\ UNCHANGED <<disk, torn>>
  /\ UNCHANGED claims

-----------------------------------------------------------------------------
(* Time, crashes and damage.                                               *)

\* An order takes much less than a day.
Day ==
  /\ calls = {} /\ due = {}
  /\ \A c \in Configs : state[c] # "starting"
  /\ disk' = [f \in Files |-> IF IsCert(disk[f]) THEN [disk[f] EXCEPT !.left = IF @ < 0 THEN @ ELSE @ - 1] ELSE disk[f]]
  /\ due' = tasked
  /\ missed' = [c \in Configs |->
       IF c \in checked \/ c \notin due' THEN 0 ELSE IF missed[c] = Life THEN Life ELSE missed[c] + 1]
  /\ checked' = {}
  /\ UNCHANGED <<state, tasked, calls, claims, flights, mutex, torn, hist>>

Mishap == hist.mishaps < MaxMishaps /\ hist' = [hist EXCEPT !.mishaps = @ + 1]

\* The process dies, between two writes perhaps, and is started again.
Crash ==
  /\ Mishap
  /\ state' = [c \in Configs |-> "off"]
  /\ tasked' = {} /\ due' = {} /\ calls' = {}
  /\ claims' = [f \in Files |-> Nil]
  /\ flights' = [k \in TaskKeys |-> Nil]
  /\ mutex' = Nil
  /\ checked' = {} /\ missed' = [c \in Configs |-> 0]
  /\ UNCHANGED <<disk, torn>>

\* Somebody removes or truncates a file.
Damage(f) ==
  /\ Mishap
  /\ \E content \in {Missing, Corrupt} : disk' = [disk EXCEPT ![f] = content]
  /\ torn' = torn \cup Uses(f)
  /\ UNCHANGED <<state, due, calls, claims, flights, mutex, watched>>

\* The key of a config is that of its certificate.
PairOf(c) == IsCert(disk[c.cert]) => disk[c.key] = [key |-> disk[c.cert].serial]

Init ==
  /\ disk \in InitDisks
  /\ state = [c \in Configs |-> "off"]
  /\ tasked = {} /\ due = {} /\ calls = {}
  /\ claims = [f \in Files |-> Nil]
  /\ flights = [k \in TaskKeys |-> Nil]
  /\ mutex = Nil
  /\ checked = {} /\ missed = [c \in Configs |-> 0]
  /\ torn = { c \in Configs : ~PairOf(c) }
  /\ hist = [fails |-> 0, mishaps |-> 0]

Fly(k) == ensureLifecycle(k) \/ Lock(k) \/ NewLego(k) \/ Order(k) \/ WriteCert(k) \/ WriteKey(k)

Next ==
  \/ \E c \in Configs : Begin(c) \/ EnsureCertificate(c) \/ Reload(c) \/ renewCertTask(c) \/ Stop(c)
  \/ \E k \in TaskKeys : Fly(k)
  \/ \E f \in Damaged : Damage(f)
  \/ Day \/ Crash

Spec == Init /\ [][Next]_vars

-----------------------------------------------------------------------------
(* Properties.                                                             *)

\* The types of the state.  A caller has a flight (cert_manager.go:50-53),
\* and the mutex is held by one that makes an order and by nothing else: no
\* error path keeps either.
TypeOK ==
  /\ \A f \in Files : disk[f] \in Contents
  /\ \A c \in Configs : /\ state[c] \in {"off", "starting", "on", "plain", "reloading"}
                         /\ missed[c] \in 0 .. Life
  /\ tasked \cup due \cup calls \cup checked \cup torn \subseteq Configs
  /\ \A k \in TaskKeys : Flying(k) <=> Callers(k) # {}
  /\ mutex \in TaskKeys \cup {Nil}
  /\ \A k \in TaskKeys :
       Flying(k) /\ k.mode # "self" => (mutex = k <=> flights[k].at \notin {"decide", "lock"})
  /\ mutex # Nil => Flying(mutex)

\* "keep two controllers from overwriting each other's certificate"
\* (cert_manager.go:32-35): the certificate of a started controller is one
\* for its domain, though others may have asked for the same file before,
\* after or while it was damaged.
OwnDomain ==
  \A c \in Configs : state[c] = "on" /\ Lifecycle(c) /\ IsCert(disk[c.cert]) =>
    disk[c.cert].domain = c.domain

\* A certificate file is written by ACME orders, which certIssuanceMu parts,
\* or under one task key for each domain.  Two self-signed configs of one
\* domain and file that differ in Email or Provider are two tasks, though
\* neither field matters to them, and nothing parts their writes.
OneWriter(f) ==
  \A c \in Configs, d \in Configs :
    (Lifecycle(c) /\ Lifecycle(d) /\ c.cert = f /\ d.cert = f /\ c.domain = d.domain) =>
      (Acme(c) /\ Acme(d)) \/ certTaskKey(c) = certTaskKey(d)

\* When a call has written a certificate and its key, whatever calls, of other
\* accounts, for other certificates or restarted in between, wrote before and
\* at the same time, the key file has the key of the certificate, until one
\* of the two files is damaged or written without the other.  That leaves
\* out, as torn:
\* - a crash or a failed write between the two renames.  "writeCert persists
\*   cert + key atomically" and "a crash mid-write leaves the previous good
\*   cert intact" (lego.go:138-140), and cert.go:14-17 says as much of the
\*   self-signed: each file is whole, but the new certificate is left with
\*   the old key, and reused so (cert_manager.go:130-170) until it is renewed;
\* - a key file that two certificates of one domain name, which claimCertFiles
\*   lets pass (cert_manager.go:262-268): who writes last has the key.
Paired == \A c \in Configs : Lifecycle(c) /\ OneWriter(c.cert) /\ c \notin torn => PairOf(c)

\* "within RenewBeforeDays -> renew" (cert_manager.go:69): the certificate of
\* a controller with a renewal task, which reloads may have taken off TLS and
\* on again, expires only when every check failed on the last RenewBeforeDays
\* days, or on all the days it was valid, beyond which missed does not count.
\* A controller whose node came to TLS by a reload has no task (task.go:41-53
\* runs at the start only): nothing checks its certificate, and the property
\* does not speak of it.
InTime ==
  \A c \in tasked :
    state[c] = "on" /\ IsCert(disk[c.cert]) /\ disk[c.cert].left < 0 =>
      \E d \in Configs : certTaskKey(d) = certTaskKey(c)
                          /\ (missed[c] >= renewBefore(d) \/ missed[c] = Life)

=============================================================================

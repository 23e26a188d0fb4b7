--------------------------- MODULE ReloadContract ---------------------------
(***************************************************************************)
(* What cmd/reload.go (67-104), cmd/server.go (133-140) and conf/watch.go  *)
(* (11-25) promise of the process, whatever goes wrong inside.  It serves  *)
(* one configuration as a whole or nothing.  A reload first builds new     *)
(* cores, "no destructive op", and if that fails the old runtime is as it  *)
(* was, "untouched"; then it swaps: the configuration it tries goes live,  *)
(* the old one is restored, or the process is offline, "still alive ...    *)
(* until the next reload event".  It ends by a signal or a failed boot.    *)
(*                                                                         *)
(* The code departs from this by panics at three points; Panic names them  *)
(* and allows no other.                                                    *)
(***************************************************************************)
CONSTANTS
  Names,    \* configurations
  Fatal,    \* those with core files that panic in the core's constructor
  Offline   \* no configuration is served; not one of Names

VARIABLES
  proc,     \* "boot", "running", "exited", "crashed"
  phase,    \* of a boot or a reload: "rest", "building", "swapping"
  serving,  \* the configuration served, or the one to restore while swapping
  leaked,   \* has a start that failed left a task behind?
  offered,  \* the configurations the file has had
  tried     \* the one of the last boot or reload

vars == <<proc, phase, serving, leaked, offered, tried>>

Init ==
  /\ proc = "boot" /\ phase = "building" /\ serving = Offline /\ leaked = FALSE
  /\ offered \subseteq Names /\ tried \in offered

Offer(c) ==
  /\ proc \in {"boot", "running"}
  /\ offered' = offered \cup {c}
  /\ UNCHANGED <<proc, phase, serving, leaked, tried>>

Try(c) ==
  /\ proc = "running" /\ phase = "rest" /\ c \in offered
  /\ phase' = "building" /\ tried' = c
  /\ UNCHANGED <<proc, serving, leaked, offered>>

\* reloadKeptOld: the old runtime is what it was.
KeepOld ==
  /\ proc = "running" /\ phase = "building"
  /\ phase' = "rest"
  /\ UNCHANGED <<proc, serving, leaked, offered, tried>>

Commit ==
  /\ proc \in {"boot", "running"} /\ phase = "building"
  /\ phase' = "swapping"
  /\ UNCHANGED <<proc, serving, leaked, offered, tried>>

\* A controller whose tasks do not start is dropped with its monitor running.
Leak ==
  /\ phase = "swapping"
  /\ leaked' = TRUE
  /\ UNCHANGED <<proc, phase, serving, offered, tried>>

\* The end of a boot, and reloadSucceeded.
GoLive ==
  /\ proc \in {"boot", "running"} /\ phase = "swapping"
  /\ proc' = "running" /\ phase' = "rest" /\ serving' = tried
  /\ UNCHANGED <<leaked, offered, tried>>

\* reloadRestoredOld.
Restore ==
  /\ proc = "running" /\ phase = "swapping" /\ serving # Offline
  /\ phase' = "rest"
  /\ UNCHANGED <<proc, serving, leaked, offered, tried>>

\* reloadOffline.
GoOffline ==
  /\ proc = "running" /\ phase = "swapping"
  /\ phase' = "rest" /\ serving' = Offline
  /\ UNCHANGED <<proc, leaked, offered, tried>>

End(how) ==
  /\ proc' = how /\ phase' = "rest" /\ serving' = Offline
  /\ UNCHANGED <<leaked, offered, tried>>

\* A signal, or a boot that fails.
Exit == proc \in {"boot", "running"} /\ End("exited")

\* Core files that panic are not a failure that keeps the old runtime; a
\* reload that begins offline closes a nil *node.Node, and is no fresh boot;
\* a task left behind runs on without its limiter.
Panic ==
  /\ \/ proc \in {"boot", "running"} /\ phase = "building" /\ tried \in Fatal
     \/ proc = "running" /\ phase = "swapping" /\ serving = Offline
     \/ proc = "running" /\ leaked
  /\ End("crashed")

Next ==
  \/ \E c \in Names : Offer(c) \/ Try(c)
  \/ KeepOld \/ Commit \/ Leak \/ GoLive \/ Restore \/ GoOffline
  \/ Exit \/ Panic

Spec == Init /\ [][Next]_vars

=============================================================================

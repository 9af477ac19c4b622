---------------------------- MODULE Supervised ----------------------------
(***************************************************************************)
(* What the two process managers of the daemon promise of one stream or    *)
(* relay (internal/streams/jobs.go, internal/srtrelay/manager.go), however *)
(* requests, restarts, timers and the process's own end interleave: there  *)
(* is one process at a time; it is registered from before it can be seen   *)
(* until after it is dead, so that a stop reaches it; and only a run that  *)
(* has ended, and that nobody has stopped, is tried again.                 *)
(***************************************************************************)
CONSTANTS
    Runs,     \* processes, by the job object that supervises each
    None

VARIABLES
    owner,    \* the registered run, or None
    alive,    \* runs whose process lives
    marked,   \* runs that were stopped
    retrying  \* runs whose end is being followed by a restart

vars == <<owner, alive, marked, retrying>>

Init == owner = None /\ alive = {} /\ marked = {} /\ retrying = {}

\* A process starts as a new run: for a request, or for a run that is retrying.
Start(r) ==
    /\ owner = None /\ alive = {}
    /\ r \notin marked \cup retrying
    /\ owner' = r /\ alive' = {r}
    /\ UNCHANGED <<marked, retrying>>

\* An operator stops the registered run; its process may live on for a while.
Stop ==
    /\ owner # None
    /\ marked' = marked \cup {owner}
    /\ UNCHANGED <<owner, alive, retrying>>

\* The process ends, by itself or because it was stopped.
Die(r) ==
    /\ r \in alive /\ alive' = alive \ {r}
    /\ UNCHANGED <<owner, marked, retrying>>

\* A dead run gives up its registration.
Release ==
    /\ owner # None /\ owner \notin alive
    /\ owner' = None
    /\ UNCHANGED <<alive, marked, retrying>>

\* A restart of a run is taken up, and given up or carried out.
Retry(r) ==
    /\ r # owner /\ r \notin alive \cup marked
    /\ retrying' = retrying \cup {r}
    /\ UNCHANGED <<owner, alive, marked>>

Rest(r) ==
    /\ r \in retrying /\ retrying' = retrying \ {r}
    /\ UNCHANGED <<owner, alive, marked>>

\* Nothing refers to a run any more.
Forget(r) ==
    /\ r # owner /\ r \notin alive \cup retrying
    /\ marked' = marked \ {r}
    /\ UNCHANGED <<owner, alive, retrying>>

Next ==
    \/ Stop \/ Release
    \/ \E r \in Runs : Start(r) \/ Die(r) \/ Retry(r) \/ Rest(r) \/ Forget(r)

Spec == Init /\ [][Next]_vars
===========================================================================

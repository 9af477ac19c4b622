---------------------------- MODULE RelayManager ----------------------------
(***************************************************************************)
(* Supervision of the worker process of ONE SRT relay: Manager of          *)
(* internal/srtrelay/manager.go, the part of the SRT store it reads and    *)
(* writes and the HTTP handlers that call it.  Manager keys everything by  *)
(* relay id and relates no two ids.                                        *)
(*                                                                         *)
(* A step runs from one lock section (of the manager or of the store) to   *)
(* the next.  A run r is one relayJob with its worker process, readEvents, *)
(* the kill timer of Stop and the goroutine wait(id, job); the timers that *)
(* wait sets continue as the goroutine r.  Runs are recycled once nothing  *)
(* refers to them.                                                         *)
(***************************************************************************)
EXTENDS Naturals, FiniteSets

CONSTANTS
    Runs,          \* slots for job objects
    NoRun,         \* a nil job, or PID 0
    Requests,      \* concurrent API requests; StartEnabled is one of them
    MaxRestarts,   \* maxRestarts
    WindowElapses, \* may a restart window end while restarts are going on?
    DiskFails,     \* may saveLocked fail?
    Handlers,      \* BOUND: the handlers that are called
    Events         \* BOUND: the worker events that are followed

ASSUME NoRunAssumption == NoRun \notin Runs
ASSUME ThreadsAssumption == Runs \cap Requests = {}
ASSUME MaxRestartsAssumption == MaxRestarts \in Nat
ASSUME SwitchesAssumption == WindowElapses \in BOOLEAN /\ DiskFails \in BOOLEAN
ASSUME HandlersAssumption ==
    Handlers \subseteq {"start", "stop", "restart", "upsert", "rotate", "client", "delete"}
ASSUME EventsAssumption == Events \subseteq {"ready", "metrics"}

VARIABLES
    cfg,       \* store.relays[id]: "absent", "disabled" or "enabled"
    state,     \* store.states[id]
    job,       \* manager.jobs[id]: a run, or NoRun when there is no entry
    tracker,   \* manager.restarts[id].attempts; 0 = no entry
    stopping,  \* job.stopping
    proc,      \* the worker process of each run
    killer,    \* a kill timer of Stop is set for the run
    reader,    \* readEvents of the run: "fresh" until it has seen relay_ready
    known,     \* goroutines, and runs by their worker, that hold the clients and
               \* keys as they are in the store now
    at,        \* where each goroutine is
    op,        \* what a goroutine is executing
    held,      \* the job a goroutine keeps in a local variable
    halted     \* the last request that the operator got an answer to is a stop

stored == <<cfg, state>>
supervisor == <<job, tracker, stopping>>
worker == <<proc, killer, reader>>
threads == <<at, op, held>>
vars == <<stored, supervisor, worker, known, threads, halted>>

Threads == Runs \cup Requests

Statuses == {"stopped", "starting", "running", "degraded", "stopping", "error",
             "restarting", "flapping"}

DefaultState == [status |-> "stopped", pid |-> NoRun, flapping |-> FALSE]

StartSteps == {"start", "secrets", "spawn", "publish"}
RetrySteps == {"settled", "tally", "announce", "giveup", "backoff",
               "cooling", "clear", "revive", "refail"}
RequestSteps == {"check", "save", "apply", "choose", "erase",
                 "signal", "lookup", "mark", "poll", "bootfail"}
Living == {"alive", "ending", "killed"}

Steps == {"idle", "born", "waiting", "reaped", "ended"}
            \cup StartSteps \cup RetrySteps \cup RequestSteps

Ops == {"none", "start", "stop", "restart", "upsert", "store", "rotate",
        "client", "delete", "boot", "retry"}

-----------------------------------------------------------------------------
(* Helpers *)

Exists(c) == c # "absent"
Enabled(c) == c = "enabled"

Free == {r \in Runs : at[r] = "idle"}

\* BOUND: a request waits while every slot is taken, by a run or by a request
\* that may start a worker.  A goroutine that finds none fails to start one.
RoomToStart ==
    Cardinality({r \in Runs : at[r] \notin {"idle", "ended"}})
      + Cardinality({q \in Requests : op[q] \notin {"none", "stop", "store", "delete"}})
      < Cardinality(Runs)

\* Stop succeeds for an operator who asked for just that: his last word.
Answers(q) == halted' = (halted \/ op[q] = "stop")

\* What a goroutine does when start has returned an error: StartEnabled and
\* retryFlapping write a state, a restart timer only logs it.
AfterFailedStart(t) ==
    CASE op[t] = "boot"   -> "bootfail"
      [] op[t] = "retry"  -> "refail"
      [] op[t] \notin {"boot", "retry"} /\ t \in Requests -> "idle"
      [] OTHER            -> "ended"

AfterStart(t) == IF t \in Requests THEN "idle" ELSE "ended"

\* Moves goroutine t to step s of operation o, with job r in a local variable.
Enter(t, s, o, r) ==
    /\ at' = [at EXCEPT ![t] = s]
    /\ op' = [op EXCEPT ![t] = IF s \in {"idle", "ended"} THEN "none" ELSE o]
    /\ held' = [held EXCEPT ![t] = r]

Goto(t, s, r) == Enter(t, s, op[t], r)

\* The daemon starts: StartEnabled finds the relay enabled, or nothing happens.
Init ==
    /\ cfg \in {"absent", "disabled", "enabled"}
    /\ state = DefaultState
    /\ job = NoRun
    /\ tracker = 0
    /\ stopping = [r \in Runs |-> FALSE]
    /\ proc = [r \in Runs |-> "free"]
    /\ killer = [r \in Runs |-> FALSE]
    /\ reader = [r \in Runs |-> "off"]
    /\ known = {}
    /\ \E b \in Requests :
          /\ at = [t \in Threads |-> IF t = b /\ Enabled(cfg) THEN "start" ELSE "idle"]
          /\ op = [t \in Threads |-> IF t = b /\ Enabled(cfg) THEN "boot" ELSE "none"]
    /\ held = [t \in Threads |-> NoRun]
    /\ halted = FALSE

-----------------------------------------------------------------------------
(* API requests *)

FirstStep(o) ==
    CASE o = "start"                 -> "start"
      [] o \in {"stop", "restart"}   -> "signal"
      [] o \in {"upsert", "delete"}  -> "check"
      [] o \in {"rotate", "client"}  -> "save"

Begin(q) ==
    /\ at[q] = "idle"
    /\ \E o \in Handlers :
          /\ o \notin {"stop", "delete"} => RoomToStart
          /\ Enter(q, FirstStep(o), o, NoRun)
          /\ halted' = (halted /\ o \in {"stop", "delete"})
    /\ UNCHANGED <<stored, supervisor, worker, known>>

\* IsRunning, before the store is changed.
Check(q) ==
    /\ at[q] = "check"
    /\ IF op[q] = "delete"
         THEN Goto(q, IF job = NoRun THEN "erase" ELSE "idle", NoRun)
         ELSE Enter(q, "save", IF job = NoRun THEN "store" ELSE "upsert", NoRun)
    /\ UNCHANGED <<stored, supervisor, worker, known, halted>>

\* The store refuses the change: nothing happens.
SaveRefused(q) ==
    /\ at[q] = "save"
    /\ Goto(q, "idle", NoRun)
    /\ UNCHANGED <<stored, supervisor, worker, known, halted>>

\* UpsertRelay; then a relay that was running is restarted or stopped.  When
\* saveLocked fails the relay is changed in memory and the handler gives up.
SaveRelay(q) ==
    /\ at[q] = "save" /\ op[q] \in {"upsert", "store"}
    /\ cfg' \in {"disabled", "enabled"}
    /\ \/ op[q] = "store" /\ Goto(q, "idle", NoRun)
       \/ op[q] = "upsert" /\ Enter(q, "signal", IF Enabled(cfg') THEN "restart" ELSE "stop", NoRun)
       \/ DiskFails /\ Goto(q, "idle", NoRun)
    /\ UNCHANGED <<state, supervisor, worker, known, halted>>

\* RotateRelayKey, or UpsertClient, RotateClientKey and DeleteClient.
SaveAccess(q) ==
    /\ at[q] = "save" /\ op[q] \in {"rotate", "client"}
    /\ op[q] = "rotate" => Exists(cfg)
    /\ known' = {}
    /\ \/ Goto(q, "apply", NoRun)
       \/ DiskFails /\ Goto(q, "idle", NoRun)
    /\ UNCHANGED <<stored, supervisor, worker, halted>>

\* IsRunning, after the store has been changed.
Apply(q) ==
    /\ at[q] = "apply"
    /\ CASE job = NoRun         -> Goto(q, "idle", NoRun)
         [] job # NoRun /\ op[q] = "rotate" -> Enter(q, "signal", "restart", NoRun)
         [] OTHER               -> Goto(q, "choose", NoRun)
    /\ UNCHANGED <<stored, supervisor, worker, known, halted>>

\* restartSRTRelays: GetRelay.
Choose(q) ==
    /\ at[q] = "choose"
    /\ IF Exists(cfg)
         THEN Enter(q, "signal", IF Enabled(cfg) THEN "restart" ELSE "stop", NoRun)
         ELSE Goto(q, "idle", NoRun)
    /\ UNCHANGED <<stored, supervisor, worker, known, halted>>

\* DeleteRelay refuses by status (or because a client is assigned).
Deletable(s) == s.status \in {"stopped", "error", "flapping"}

Erase(q) ==
    /\ at[q] = "erase"
    /\ \/ /\ Exists(cfg) /\ Deletable(state)
          /\ cfg' = "absent" /\ state' = DefaultState
       \/ UNCHANGED <<cfg, state>>
    /\ Goto(q, "idle", NoRun)
    /\ UNCHANGED <<supervisor, worker, known, halted>>

-----------------------------------------------------------------------------
(* start(id, restarted): restarted is t \in Runs *)

\* GetRelay and LookPath; for a restart, its timer has fired.
ReadConfig(t) ==
    /\ at[t] \in {"start", "backoff"}
    /\ \/ /\ Enabled(cfg)
          /\ Goto(t, "secrets", NoRun)
       \/ Goto(t, AfterFailedStart(t), NoRun)
    /\ UNCHANGED <<stored, supervisor, worker, known, halted>>

\* PublishPassphrase or WorkerClients, in a lock section of its own.
ReadSecrets(t) ==
    /\ at[t] = "secrets"
    /\ Goto(t, "spawn", NoRun)
    /\ known' = known \cup {t}
    /\ UNCHANGED <<stored, supervisor, worker, halted>>

\* The exists test, under the lock.
NotRunning_Unchecked == TRUE
NotRunning == job = NoRun

\* Under the lock: there is a job, or the process cannot be started.
SpawnFails(t) ==
    /\ at[t] = "spawn"
    /\ Goto(t, AfterFailedStart(t), NoRun)
    /\ known' = known \ {t}
    /\ UNCHANGED <<stored, supervisor, worker, halted>>

\* Under the lock: the worker starts and is registered.
Spawn(t) ==
    /\ at[t] = "spawn"
    /\ NotRunning
    /\ \E r \in Free :
          /\ job' = r
          /\ proc' = [proc EXCEPT ![r] = "alive"]
          /\ at' = [at EXCEPT ![t] = "publish", ![r] = "born"]
          /\ held' = [held EXCEPT ![t] = r]
          /\ known' = {IF u = t THEN r ELSE u : u \in known}
    /\ tracker' = IF t \in Runs THEN tracker ELSE 0
    /\ UNCHANGED <<stored, stopping, killer, reader, op, halted>>

\* The state written for a started worker with PID r.
Started(r) == [status |-> "starting", pid |-> r, flapping |-> FALSE]

\* UpdateState, then the goroutines of the run.
Publish(t) ==
    /\ at[t] = "publish"
    /\ LET r == held[t] IN
          /\ state' = Started(r)
          /\ reader' = [reader EXCEPT ![r] = IF Events = {} THEN "off" ELSE "fresh"]
          /\ at' = [at EXCEPT ![t] = AfterStart(t), ![r] = "waiting"]
    /\ op' = [op EXCEPT ![t] = "none"]
    /\ held' = [held EXCEPT ![t] = NoRun]
    /\ UNCHANGED <<cfg, supervisor, proc, killer, known, halted>>

\* StartEnabled records the error.
BootFails(q) ==
    /\ at[q] = "bootfail"
    /\ state' = [state EXCEPT !.status = "error"]
    /\ Goto(q, "idle", NoRun)
    /\ UNCHANGED <<cfg, supervisor, worker, known, halted>>

-----------------------------------------------------------------------------
(* Stop(id) and Restart(id) *)

AfterStop(q) == IF op[q] = "restart" THEN "poll" ELSE "idle"

\* Under the lock: the job is marked and its failures are forgotten.
StopSignal(q) ==
    /\ at[q] = "signal"
    /\ job # NoRun
    /\ stopping' = [stopping EXCEPT ![job] = TRUE]
    /\ tracker' = 0
    /\ Goto(q, "mark", job)
    /\ UNCHANGED <<stored, job, worker, known, halted>>

\* No job; GetRelay after the unlock: an error if there is no relay, else nil.
StopNothing(q) ==
    /\ at[q] = "signal"
    /\ job = NoRun
    /\ Goto(q, "lookup", NoRun)
    /\ UNCHANGED <<stored, supervisor, worker, known, halted>>

StopLookup(q) ==
    /\ at[q] = "lookup"
    /\ IF Exists(cfg)
         THEN Goto(q, AfterStop(q), NoRun) /\ Answers(q)
         ELSE Goto(q, "idle", NoRun) /\ UNCHANGED halted
    /\ UNCHANGED <<stored, supervisor, worker, known>>

\* UpdateState, SIGTERM, and a timer that kills the process in five seconds.
StopMark_NoTimer(q) ==
    /\ at[q] = "mark"
    /\ state' = [state EXCEPT !.status = "stopping"]
    /\ proc' = [proc EXCEPT ![held[q]] = IF @ = "alive" THEN "ending" ELSE @]
    /\ Goto(q, AfterStop(q), NoRun)
    /\ Answers(q)
    /\ UNCHANGED <<cfg, supervisor, killer, reader, known>>
StopMark(q) ==
    /\ at[q] = "mark"
    /\ state' = [state EXCEPT !.status = "stopping"]
    /\ proc' = [proc EXCEPT ![held[q]] = IF @ = "alive" THEN "ending" ELSE @]
    /\ killer' = [killer EXCEPT ![held[q]] = TRUE]
    /\ Goto(q, AfterStop(q), NoRun)
    /\ Answers(q)
    /\ UNCHANGED <<cfg, supervisor, reader, known>>

\* The timer fires: the process is killed if its job is still registered.
KillTimer(r) ==
    /\ killer[r]
    /\ killer' = [killer EXCEPT ![r] = FALSE]
    /\ proc' = [proc EXCEPT ![r] = IF job = r /\ @ \in Living THEN "killed" ELSE @]
    /\ UNCHANGED <<stored, supervisor, reader, known, threads, halted>>

\* Restart polls for the end of the job, then calls Start.
Poll(q) ==
    /\ at[q] = "poll"
    /\ job = NoRun
    /\ Goto(q, "start", NoRun)
    /\ UNCHANGED <<stored, supervisor, worker, known, halted>>

\* Six seconds have passed: "SRT relay did not stop in time".
PollTimeout(q) ==
    /\ at[q] = "poll"
    /\ job # NoRun
    /\ Goto(q, "idle", NoRun)
    /\ UNCHANGED <<stored, supervisor, worker, known, halted>>

-----------------------------------------------------------------------------
(* The worker process, and wait(id, job) *)

\* The worker ends: by itself, after SIGTERM, or killed.
Exit(r) ==
    /\ proc[r] \in Living
    /\ proc' = [proc EXCEPT ![r] = "exited"]
    /\ UNCHANGED <<stored, supervisor, killer, reader, known, threads, halted>>

\* cmd.Wait returns; under the lock the job is removed if it is this one.
Reap(r) ==
    /\ at[r] = "waiting"
    /\ proc[r] = "exited"
    /\ job' = IF job = r THEN NoRun ELSE job
    /\ Goto(r, IF job = r THEN "reaped" ELSE "ended", NoRun)
    /\ known' = known \ {r}
    /\ UNCHANGED <<stored, tracker, stopping, worker, halted>>

\* CloseRelaySessions (sessions are not modelled here) and UpdateState; a job
\* that was not stopped goes on to the restart.
Restarts_IgnoresStop(r) == TRUE
Restarts(r) == ~stopping[r]

Settle_KeepsPid(r) ==
    /\ at[r] = "reaped"
    /\ state' = [state EXCEPT !.status = IF stopping[r] THEN "stopped" ELSE "error"]
    /\ Goto(r, IF Restarts(r) THEN "settled" ELSE "ended", NoRun)
    /\ UNCHANGED <<cfg, supervisor, worker, known, halted>>
Settle(r) ==
    /\ at[r] = "reaped"
    /\ state' = [state EXCEPT !.status = IF stopping[r] THEN "stopped" ELSE "error", !.pid = NoRun]
    /\ Goto(r, IF Restarts(r) THEN "settled" ELSE "ended", NoRun)
    /\ UNCHANGED <<cfg, supervisor, worker, known, halted>>

Consider(r) ==
    /\ at[r] = "settled"
    /\ Goto(r, IF Enabled(cfg) THEN "tally" ELSE "ended", NoRun)
    /\ UNCHANGED <<stored, supervisor, worker, known, halted>>

\* allowRestart, under the lock; all counts above MaxRestarts are alike.
Tally(r) ==
    /\ at[r] = "tally"
    /\ \E elapsed \in {FALSE, WindowElapses} :
          LET base == IF elapsed THEN 0 ELSE tracker
          IN  tracker' = IF base > MaxRestarts THEN base ELSE base + 1
    /\ Goto(r, IF tracker' > MaxRestarts THEN "giveup" ELSE "announce", NoRun)
    /\ UNCHANGED <<stored, job, stopping, worker, known, halted>>

\* UpdateState and the timer of restartBackoff, which calls start.
Announce(r) ==
    /\ at[r] = "announce"
    /\ state' = [state EXCEPT !.status = "restarting"]
    /\ Enter(r, "backoff", "restart", NoRun)
    /\ UNCHANGED <<cfg, supervisor, worker, known, halted>>

\* UpdateState and the timer of flappingBackoff, which calls retryFlapping.
GiveUp_NoTimer(r) ==
    /\ at[r] \in {"giveup", "refail"}
    /\ state' = [state EXCEPT !.status = "flapping", !.flapping = TRUE]
    /\ Enter(r, IF at[r] = "giveup" THEN "cooling" ELSE "ended", "retry", NoRun)
    /\ UNCHANGED <<cfg, supervisor, worker, known, halted>>
GiveUp(r) ==
    /\ at[r] \in {"giveup", "refail"}
    /\ state' = [state EXCEPT !.status = "flapping", !.flapping = TRUE]
    /\ Enter(r, "cooling", "retry", NoRun)
    /\ UNCHANGED <<cfg, supervisor, worker, known, halted>>

-----------------------------------------------------------------------------
(* retryFlapping(id) *)

\* GetRelay: still there, enabled and flapping?
RetryFlapping(r) ==
    /\ at[r] = "cooling"
    /\ Goto(r, IF Enabled(cfg) /\ state.status = "flapping" THEN "clear" ELSE "ended", NoRun)
    /\ UNCHANGED <<stored, supervisor, worker, known, halted>>

\* Under the lock.
RetryClears(r) ==
    /\ at[r] = "clear"
    /\ tracker' = 0
    /\ Goto(r, IF job = NoRun THEN "revive" ELSE "ended", NoRun)
    /\ UNCHANGED <<stored, job, stopping, worker, known, halted>>

RetryAnnounces(r) ==
    /\ at[r] = "revive"
    /\ state' = [state EXCEPT !.status = "restarting", !.flapping = FALSE]
    /\ Goto(r, "start", NoRun)
    /\ UNCHANGED <<cfg, supervisor, worker, known, halted>>

-----------------------------------------------------------------------------
(* readEvents: what ApplyWorkerEvent does to the state for an event of a run's
   worker (no worker sends relay_error).  The reader works through what it has
   buffered even after the worker has gone. *)

RelayReady(r) ==
    /\ "ready" \in Events /\ reader[r] = "fresh"
    /\ reader' = [reader EXCEPT ![r] = "on"]
    /\ state' = [state EXCEPT !.status = "running"]
    /\ UNCHANGED <<cfg, supervisor, proc, killer, known, threads, halted>>

\* relay_metrics with a reason; an audit event is written on a transition.
MetricsStalled(r) ==
    /\ "metrics" \in Events /\ reader[r] = "on"
    /\ state.status # "degraded"
    /\ state' = [state EXCEPT !.status = "degraded"]
    /\ UNCHANGED <<cfg, supervisor, proc, killer, reader, known, threads, halted>>

\* relay_metrics without one.
MetricsRestored(r) ==
    /\ "metrics" \in Events /\ reader[r] = "on"
    /\ state.status = "degraded"
    /\ state' = [state EXCEPT !.status = "running"]
    /\ UNCHANGED <<cfg, supervisor, proc, killer, reader, known, threads, halted>>

\* The pipe is at its end, or closed by cmd.Wait.
ReaderEnds(r) ==
    /\ reader[r] # "off"
    /\ proc[r] \notin Living
    /\ reader' = [reader EXCEPT ![r] = "off"]
    /\ UNCHANGED <<stored, supervisor, proc, killer, known, threads, halted>>

\* Nothing refers to the job any more: its slot is used again.
Retire(r) ==
    /\ at[r] = "ended"
    /\ reader[r] = "off" /\ ~killer[r]
    /\ \A t \in Threads : held[t] # r
    /\ at' = [at EXCEPT ![r] = "idle"]
    /\ proc' = [proc EXCEPT ![r] = "free"]
    /\ stopping' = [stopping EXCEPT ![r] = FALSE]
    /\ UNCHANGED <<stored, job, tracker, killer, reader, known, op, held, halted>>

-----------------------------------------------------------------------------
RequestStep(q) ==
    Check(q) \/ SaveRefused(q) \/ SaveRelay(q) \/ SaveAccess(q) \/ Apply(q) \/ Choose(q) \/ Erase(q)

StartStep(t) == ReadConfig(t) \/ ReadSecrets(t) \/ SpawnFails(t) \/ Spawn(t) \/ Publish(t)

StopStep(q) == StopSignal(q) \/ StopNothing(q) \/ StopLookup(q) \/ StopMark(q) \/ Poll(q) \/ PollTimeout(q) \/ BootFails(q)

WaitStep(r) ==
    \/ Reap(r) \/ Settle(r) \/ Consider(r) \/ Tally(r) \/ Announce(r) \/ GiveUp(r)
    \/ RetryFlapping(r) \/ RetryClears(r) \/ RetryAnnounces(r)

EventStep(r) ==
    RelayReady(r) \/ MetricsStalled(r) \/ MetricsRestored(r)

Next ==
    \/ \E t \in Threads : StartStep(t)
    \/ \E q \in Requests : Begin(q) \/ RequestStep(q) \/ StopStep(q)
    \/ \E r \in Runs :
          WaitStep(r) \/ EventStep(r) \/ ReaderEnds(r) \/ KillTimer(r) \/ Exit(r) \/ Retire(r)

Spec == Init /\ [][Next]_vars

\* Goroutines run, timers fire, SIGKILL ends a process, and a reader comes to
\* the end of a dead worker's pipe.  Nothing makes a request arrive, a worker
\* fail, obey SIGTERM or send an event.
Fairness ==
    /\ \A t \in Threads : WF_vars(StartStep(t))
    /\ \A q \in Requests : WF_vars(RequestStep(q)) /\ WF_vars(StopStep(q))
    /\ \A r \in Runs :
          /\ WF_vars(WaitStep(r))
          /\ WF_vars(KillTimer(r))
          /\ WF_vars(proc[r] = "killed" /\ Exit(r))
          /\ WF_vars(ReaderEnds(r))
          /\ WF_vars(Retire(r))

FairSpec == Spec /\ Fairness

-----------------------------------------------------------------------------
(* Properties *)

\* Every variable has its type (the fields of Manager, relayJob, RelayState).
TypeOK ==
    /\ cfg \in {"absent", "disabled", "enabled"}
    /\ state \in [status : Statuses, pid : Runs \cup {NoRun}, flapping : BOOLEAN]
    /\ job \in Runs \cup {NoRun}
    /\ tracker \in 0..(MaxRestarts + 1)
    /\ stopping \in [Runs -> BOOLEAN]
    /\ proc \in [Runs -> {"free", "exited"} \cup Living]
    /\ killer \in [Runs -> BOOLEAN]
    /\ reader \in [Runs -> {"off", "fresh", "on"}]
    /\ known \subseteq Threads
    /\ at \in [Threads -> Steps]
    /\ op \in [Threads -> Ops]
    /\ held \in [Threads -> Runs \cup {NoRun}]
    /\ halted \in BOOLEAN

\* A living worker is the registered job of its relay, whatever requests,
\* restart timers and flapping retries race: so there is at most one, the
\* listener's port has one owner, and Stop can reach it.
NoLostWorker == \A r \in Runs : proc[r] \in Living => job = r

\* The relay manager supervises the relay's worker as Supervised says: start, the
\* restart timers and retryFlapping never run a second worker beside a living one or
\* in place of a job that wait has still to remove, Stop marks whatever lives, and
\* only a run that has ended unmarked is restarted or retried.
Supervision ==
    INSTANCE Supervised WITH
        None     <- NoRun,
        owner    <- job,
        alive    <- {r \in Runs : proc[r] \in Living},
        marked   <- {r \in Runs : stopping[r]},
        retrying <- {r \in Runs : at[r] \in RetrySteps \cup StartSteps}
IsSupervised == Supervision!Spec

\* A worker that Stop has marked is not restarted, even if it failed by itself
\* before the signal reached it.
StoppedStaysDown == \A r \in Runs : stopping[r] => at[r] \notin RetrySteps \cup StartSteps

\* The invariant that carries the others: a job is in the map exactly while its
\* wait has not removed it (so the test jobs[id] != job of wait is never true),
\* only one goroutine is between the start of a process and its wait, and a
\* marked job has been registered.
JobLifecycle ==
    /\ \A r \in Runs : job = r <=> at[r] \in {"born", "waiting"}
    /\ \A r \in Runs : proc[r] \in Living => at[r] \in {"born", "waiting"}
    /\ \A r \in Runs : stopping[r] => at[r] \in {"born", "waiting", "reaped", "ended"}
    /\ \A t \in Threads : at[t] = "publish" => held[t] \in Runs /\ at[held[t]] = "born"
    /\ \A t, u \in Threads : at[t] = "publish" /\ at[u] = "publish" => t = u
    /\ \A q \in Requests : at[q] = "mark" => held[q] \in Runs

\* The PID in the state belongs to a run whose wait has still to write its
\* result: a PID never outlives its worker.
PidIsOwned == \A r \in Runs : state.pid = r => at[r] \in {"waiting", "reaped"}

\* A relay that is reported flapping, and has been neither disabled nor deleted,
\* has a worker after all or a goroutine that will change the state: failed
\* retries, manual starts and old timers never leave it without a retry.
FlappingIsRetried ==
    Enabled(cfg) /\ state.status = "flapping" =>
        \/ job # NoRun
        \/ \E r \in Runs : at[r] \in {"reaped", "cooling", "clear", "revive"}

\* A worker that Stop has marked goes away in the end, also if it ignores
\* SIGTERM (the kill timer).
StoppedIsReaped == \A r \in Runs : stopping[r] ~> job # r

\* No goroutine is in the middle of an operation: only timers are pending.
AtRest == \A t \in Threads : at[t] \in {"idle", "ended", "waiting", "backoff", "cooling"}

\* ... not even a timer, and no event or signal is on its way.
AllQuiet ==
    /\ \A t \in Threads : at[t] \in {"idle", "ended", "waiting"}
    /\ \A r \in Runs : ~killer[r] /\ (at[r] = "ended" => reader[r] = "off")

(* What the repository says of the code and the code does not do: no run has *)
(* these; TLC refutes each with the constants given in README, section 5.     *)

\* README.md:1148: changes to an access client restart its running relays "so
\* the new ACL, key, or encryption mode cannot remain unapplied in an old
\* worker".
AccessIsApplied == AtRest => \A r \in Runs : proc[r] = "alive" => r \in known

\* manager_test.go:51: after a Stop no worker is registered until somebody
\* starts one.
StopIsObeyed == [][\A r \in Runs : Spawn(r) => ~halted]_vars

\* store.go:196 refuses to delete a relay because it "must be stopped": a relay
\* that has no worker, and nobody who will start one, can be deleted.
DownIsDeletable == AllQuiet /\ job = NoRun => Deletable(state)

=============================================================================

------------------------------ MODULE StreamJobs ------------------------------
(***************************************************************************)
(* Supervision of the FFmpeg process of ONE stream: JobManager of          *)
(* internal/streams/jobs.go, the part of the store it reads and writes     *)
(* (the stream's configuration and its State record) and the HTTP handlers *)
(* that call it.  JobManager keys everything by stream id and no operation *)
(* relates two ids, so one id shows every interleaving.                    *)
(*                                                                         *)
(* Each goroutine is a program counter.  A step runs from one lock section *)
(* (of the manager's mutex or of the store's) to the next.  A run r is one *)
(* job object with its process, the goroutine wait(id, cmd), which later   *)
(* becomes the backoff goroutine of maybeRestart, its readers and its      *)
(* monitor.  Runs are recycled once nothing refers to them.                *)
(***************************************************************************)
EXTENDS Naturals, FiniteSets

CONSTANTS
    Runs,          \* slots for job objects
    NoRun,         \* a nil job, or PID 0
    Requests,      \* concurrent API requests
    MaxAttempts,   \* RestartPolicy.MaxAttempts
    WindowElapses, \* may a restart window end while restarts are going on?
    Observers,     \* BOUND: the side goroutines of a run that are followed
    Edits          \* BOUND: the configurations an operator saves

ASSUME NoRunAssumption == NoRun \notin Runs
ASSUME ThreadsAssumption == Runs \cap Requests = {}
ASSUME MaxAttemptsAssumption == MaxAttempts \in Nat
ASSUME WindowAssumption == WindowElapses \in BOOLEAN
ASSUME ObserversAssumption == Observers \subseteq {"reader", "monitor"}
ASSUME EditsAssumption == Edits \subseteq {"disabled", "manual", "automatic"}

VARIABLES
    cfg,       \* store.streams[id], as supervision tells it apart
    state,     \* store.states[id]
    job,       \* manager.jobs[id]: a run, or NoRun when there is no entry
    tracker,   \* manager.restarts[id]: attempts since firstFailure; 0 = no entry
    stopping,  \* job.stopping
    done,      \* job.done is closed
    proc,      \* the operating-system process of each run
    reader,    \* is captureStderr of the run alive?
    monitor,   \* monitorProcess of the run
    at,        \* where each goroutine is
    op,        \* the handler a request is executing
    held       \* the job a goroutine keeps in a local variable

supervisor == <<job, tracker, stopping, done>>
system == <<proc, reader, monitor>>
threads == <<at, op, held>>
vars == <<cfg, state, supervisor, system, threads>>

Threads == Runs \cup Requests

\* What supervision tells apart in a configuration: no stream, a disabled one,
\* an enabled one without and with a restart policy that is enabled.
Configs == {"absent", "disabled", "manual", "automatic"}

Statuses == {"stopped", "running", "stopping", "error", "restarting", "flapping"}

\* ErrorCode: none, one that classifyError found, process_exit, watchdog.
Codes == {"none", "classified", "process_exit", "watchdog"}

DefaultState == [status |-> "stopped", pid |-> NoRun, code |-> "none", flapping |-> FALSE]

StartSteps == {"start", "spawn", "fail", "publish"}
StopSteps == {"signal", "mark", "await", "erase"}
ReapSteps == {"waiting", "reaped"}
RetrySteps == {"settled", "tally", "announce", "giveup", "backoff"}
Living == {"alive", "doomed"}  \* doomed: its context has been cancelled
Exited == {"failed", "clean"}  \* cmd.Wait returns an error, or nil

Steps == {"idle", "born", "ended"} \cup StartSteps \cup StopSteps \cup ReapSteps \cup RetrySteps

-----------------------------------------------------------------------------
(* Helpers *)

\* The cancel function of a run's context: the process is going to be killed.
Cancel_Nothing(r) == proc
Cancel(r) == [proc EXCEPT ![r] = IF @ = "alive" THEN "doomed" ELSE @]

Exists(c) == c # "absent"

\* Config.Enabled, read by the backoff goroutine.
Enabled(c) == c \in {"manual", "automatic"}

\* An automatic restart of this stream is wanted (maybeRestart's first test).
Restartable(c) == c = "automatic"

Free == {r \in Runs : at[r] = "idle"}

\* The runs and requests that hold, or are about to take, a run slot.
Claims == {r \in Runs : at[r] \notin {"idle", "ended"}}
            \cup {q \in Requests : op[q] \in {"start", "restart"}}

\* BOUND: a request that starts the stream arrives only while there are fewer
\* claims than slots.  A goroutine that then finds no free slot fails to start.
RoomToStart == Cardinality(Claims) < Cardinality(Runs)

\* What a goroutine does when start(id, restarted) has returned an error: a
\* request answers, the backoff goroutine logs and calls maybeRestart again.
AfterFailedStart_NoRetry(t) == IF t \in Requests THEN "idle" ELSE "ended"
AfterFailedStart(t) == IF t \in Requests THEN "idle" ELSE "settled"

AfterStart(t) == IF t \in Requests THEN "idle" ELSE "ended"

\* What a handler does when Stop has returned (its error is ignored by
\* restartStream and deleteStream).
AfterStop(q) ==
    CASE op[q] = "restart" -> "start"
      [] op[q] = "delete"  -> "erase"
      [] OTHER             -> "idle"

\* Moves goroutine t to step s, with job r in its local variable.
Goto(t, s, r) ==
    /\ at' = [at EXCEPT ![t] = s]
    /\ held' = [held EXCEPT ![t] = r]
    /\ op' = IF s = "idle" /\ t \in Requests THEN [op EXCEPT ![t] = "none"] ELSE op

Init ==
    /\ cfg \in Edits \cup {"absent"}
    /\ state = DefaultState
    /\ job = NoRun
    /\ tracker = 0
    /\ stopping = [r \in Runs |-> FALSE]
    /\ done = [r \in Runs |-> FALSE]
    /\ proc = [r \in Runs |-> "free"]
    /\ reader = [r \in Runs |-> FALSE]
    /\ monitor = [r \in Runs |-> "off"]
    /\ at = [t \in Threads |-> "idle"]
    /\ op = [q \in Requests |-> "none"]
    /\ held = [t \in Threads |-> NoRun]

-----------------------------------------------------------------------------
(* API requests *)

\* Store.Upsert from upsertStream: a new configuration, the state stays.
Upsert ==
    /\ cfg' \in Edits \ {cfg}
    /\ UNCHANGED <<state, supervisor, system, threads>>

\* startStream, stopStream, restartStream and deleteStream enter their handler.
Begin(q) ==
    /\ at[q] = "idle"
    /\ \E o \in {"start", "stop", "restart", "delete"} :
          /\ o \in {"start", "restart"} => RoomToStart
          /\ op' = [op EXCEPT ![q] = o]
          /\ at' = [at EXCEPT ![q] = IF o = "start" THEN "start" ELSE "signal"]
    /\ UNCHANGED <<cfg, state, supervisor, system, held>>

\* Store.Delete in deleteStream.
Erase(q) ==
    /\ at[q] = "erase"
    /\ IF Exists(cfg)
         THEN cfg' = "absent" /\ state' = DefaultState
         ELSE UNCHANGED <<cfg, state>>
    /\ Goto(q, "idle", NoRun)
    /\ UNCHANGED <<supervisor, system>>

-----------------------------------------------------------------------------
(* start(id, restarted): restarted is t \in Runs *)

\* Get, GetProfile and BuildArgs: start fails or goes on with what it read.
ReadConfig(t) ==
    /\ at[t] = "start"
    /\ \/ Exists(cfg) /\ Goto(t, "spawn", NoRun)
       \/ Goto(t, AfterFailedStart(t), NoRun)
    /\ UNCHANGED <<cfg, state, supervisor, system>>

\* The exists test, under the lock.
NotRunning_Unchecked == TRUE
NotRunning == job = NoRun

\* Under the lock: the stream already has a job, or a pipe cannot be made.
RefuseSpawn(t) ==
    /\ at[t] = "spawn"
    /\ Goto(t, AfterFailedStart(t), NoRun)
    /\ UNCHANGED <<cfg, state, supervisor, system>>

\* Under the lock: cmd.Start fails; the state is written after the unlock.
FailSpawn(t) ==
    /\ at[t] = "spawn"
    /\ NotRunning
    /\ Goto(t, "fail", NoRun)
    /\ UNCHANGED <<cfg, state, supervisor, system>>

PublishFailure(t) ==
    /\ at[t] = "fail"
    /\ state' = [state EXCEPT !.status = "error", !.code = "classified"]
    /\ Goto(t, AfterFailedStart(t), NoRun)
    /\ UNCHANGED <<cfg, supervisor, system>>

\* Under the lock: the process starts and its job is registered.  A manual
\* start forgets earlier failures.
Spawn(t) ==
    /\ at[t] = "spawn"
    /\ NotRunning
    /\ \E r \in Free :
          /\ job' = r
          /\ proc' = [proc EXCEPT ![r] = "alive"]
          /\ at' = [at EXCEPT ![t] = "publish", ![r] = "born"]
          /\ held' = [held EXCEPT ![t] = r]
    /\ tracker' = IF t \in Runs THEN tracker ELSE 0
    /\ UNCHANGED <<cfg, state, stopping, done, reader, monitor, op>>

\* The state written for a started process with PID r.
Started(r) == [status |-> "running", pid |-> r, code |-> "none", flapping |-> FALSE]

\* UpdateState, then the goroutines of the run.
Publish(t) ==
    /\ at[t] = "publish"
    /\ LET r == held[t] IN
          /\ state' = Started(r)
          /\ reader' = [reader EXCEPT ![r] = "reader" \in Observers]
          /\ monitor' = [monitor EXCEPT ![r] = IF "monitor" \in Observers THEN "idle" ELSE "off"]
          /\ at' = [at EXCEPT ![t] = AfterStart(t), ![r] = "waiting"]
    /\ held' = [held EXCEPT ![t] = NoRun]
    /\ op' = IF t \in Requests THEN [op EXCEPT ![t] = "none"] ELSE op
    /\ UNCHANGED <<cfg, supervisor, proc>>

-----------------------------------------------------------------------------
(* Stop(id) *)

\* Under the lock: mark the job and forget its failures; then cancel it.
\* (Cancelling only lets the process end, so it needs no step of its own.)
StopSignal(q) ==
    /\ at[q] = "signal"
    /\ job # NoRun
    /\ stopping' = [stopping EXCEPT ![job] = TRUE]
    /\ proc' = Cancel(job)
    /\ tracker' = 0
    /\ Goto(q, "mark", job)
    /\ UNCHANGED <<cfg, state, job, done, reader, monitor>>

\* "stream not running".
StopNothing(q) ==
    /\ at[q] = "signal"
    /\ job = NoRun
    /\ Goto(q, AfterStop(q), NoRun)
    /\ UNCHANGED <<cfg, state, supervisor, system>>

StopMark(q) ==
    /\ at[q] = "mark"
    /\ state' = [state EXCEPT !.status = "stopping"]
    /\ Goto(q, "await", held[q])
    /\ UNCHANGED <<cfg, supervisor, system>>

\* <-running.done: Stop returns nil.
StopDone_NoWait(q) ==
    /\ at[q] = "await"
    /\ Goto(q, AfterStop(q), NoRun)
    /\ UNCHANGED <<cfg, state, supervisor, system>>

StopDone(q) ==
    /\ at[q] = "await"
    /\ done[held[q]]
    /\ Goto(q, AfterStop(q), NoRun)
    /\ UNCHANGED <<cfg, state, supervisor, system>>

\* time.After(5 * time.Second): Stop returns an error, the job stays.
StopTimeout_Unmarks(q) ==
    /\ at[q] = "await"
    /\ ~done[held[q]]
    /\ stopping' = [stopping EXCEPT ![held[q]] = FALSE]
    /\ Goto(q, AfterStop(q), NoRun)
    /\ UNCHANGED <<cfg, state, job, tracker, done, system>>

StopTimeout(q) ==
    /\ at[q] = "await"
    /\ ~done[held[q]]
    /\ Goto(q, AfterStop(q), NoRun)
    /\ UNCHANGED <<cfg, state, supervisor, system>>

-----------------------------------------------------------------------------
(* The process, and wait(id, cmd) *)

\* The process ends, on its own or because its context was cancelled; Wait
\* then returns an error or nil.
Exit(r) ==
    /\ proc[r] \in Living
    /\ \E outcome \in Exited : proc' = [proc EXCEPT ![r] = outcome]
    /\ UNCHANGED <<cfg, state, supervisor, reader, monitor, threads>>

\* cmd.Wait returns; under the lock the job is removed if it is this run's;
\* then done is closed (which only lets goroutines waiting for it go on).
\* `current' is kept: its stopping flag is read later.
Reap(r) ==
    /\ at[r] = "waiting"
    /\ proc[r] \in Exited
    /\ job' = IF job = r THEN NoRun ELSE job
    /\ done' = IF job # NoRun THEN [done EXCEPT ![job] = TRUE] ELSE done
    /\ Goto(r, "reaped", job)
    /\ UNCHANGED <<cfg, state, tracker, stopping, system>>

\* The state that wait writes for a run that failed or not, stopped or not.
Settled_KeepsPid(s, failed, manualStop) ==
    IF failed /\ ~manualStop
      THEN [s EXCEPT !.status = "error",
                     !.code = IF s.code = "none" THEN "process_exit" ELSE s.code]
      ELSE [s EXCEPT !.status = "stopped", !.code = "none"]

Settled_NoCode(s, failed, manualStop) ==
    IF failed /\ ~manualStop
      THEN [s EXCEPT !.status = "error", !.pid = NoRun]
      ELSE [s EXCEPT !.status = "stopped", !.pid = NoRun, !.code = "none"]

Settled(s, failed, manualStop) ==
    IF failed /\ ~manualStop
      THEN [s EXCEPT !.status = "error", !.pid = NoRun,
                     !.code = IF s.code = "none" THEN "process_exit" ELSE s.code]
      ELSE [s EXCEPT !.status = "stopped", !.pid = NoRun, !.code = "none"]

\* wait calls maybeRestart.
NeedsRestart_IgnoresStop(failed, manualStop) == failed
NeedsRestart(failed, manualStop) == failed /\ ~manualStop

\* UpdateState, then maybeRestart if the run failed and nobody stopped it.
Settle(r) ==
    /\ at[r] = "reaped"
    /\ LET manualStop == held[r] # NoRun /\ stopping[held[r]]
           failed == proc[r] = "failed" IN
          /\ state' = Settled(state, failed, manualStop)
          /\ Goto(r, IF NeedsRestart(failed, manualStop) THEN "settled" ELSE "ended", NoRun)
    /\ UNCHANGED <<cfg, supervisor, system>>

-----------------------------------------------------------------------------
(* maybeRestart(id, reason) *)

Consider(r) ==
    /\ at[r] = "settled"
    /\ Goto(r, IF Restartable(cfg) THEN "tally" ELSE "ended", NoRun)
    /\ UNCHANGED <<cfg, state, supervisor, system>>

\* The attempts counted after one more failure; all counts above MaxAttempts
\* are alike.  elapsed: the failure is outside the window of the first one.
Counted(n, elapsed) ==
    LET base == IF elapsed THEN 0 ELSE n
    IN  IF base > MaxAttempts THEN base ELSE base + 1

Tally(r) ==
    /\ at[r] = "tally"
    /\ \E elapsed \in {FALSE, WindowElapses} : tracker' = Counted(tracker, elapsed)
    /\ Goto(r, IF tracker' > MaxAttempts THEN "giveup" ELSE "announce", NoRun)
    /\ UNCHANGED <<cfg, state, job, stopping, done, system>>

GiveUp(r) ==
    /\ at[r] = "giveup"
    /\ state' = [state EXCEPT !.status = "flapping", !.flapping = TRUE, !.code = "process_exit"]
    /\ Goto(r, "ended", NoRun)
    /\ UNCHANGED <<cfg, supervisor, system>>

Announce(r) ==
    /\ at[r] = "announce"
    /\ state' = [state EXCEPT !.status = "restarting", !.code = "process_exit"]
    /\ Goto(r, "backoff", NoRun)
    /\ UNCHANGED <<cfg, supervisor, system>>

\* The backoff has passed: the stream may have been removed or disabled.
Wake(r) ==
    /\ at[r] = "backoff"
    /\ Goto(r, IF Enabled(cfg) THEN "start" ELSE "ended", NoRun)
    /\ UNCHANGED <<cfg, state, supervisor, system>>

-----------------------------------------------------------------------------
(* captureStderr, captureProgress and monitorProcess *)

\* A line that classifyError recognises.  The reader works through what it
\* has buffered even after the process has gone.
StderrLine(r) ==
    /\ reader[r]
    /\ state' = [state EXCEPT !.code = "classified"]
    /\ UNCHANGED <<cfg, supervisor, system, threads>>

\* A reader stops on a scanner error and kills the process, which would
\* otherwise block on a full pipe.
ReaderFails(r) ==
    /\ reader[r]
    /\ reader' = [reader EXCEPT ![r] = FALSE]
    /\ proc' = Cancel(r)
    /\ UNCHANGED <<cfg, state, supervisor, monitor, threads>>

ReaderEnds(r) ==
    /\ reader[r]
    /\ proc[r] \notin Living
    /\ reader' = [reader EXCEPT ![r] = FALSE]
    /\ UNCHANGED <<cfg, state, supervisor, proc, monitor, threads>>

\* A tick finds the process (it has not been reaped) and the stream, and
\* watchdogAction gives a reason.
WatchdogDecides(r) ==
    /\ monitor[r] = "idle"
    /\ at[r] \in {"born", "waiting"}
    /\ Exists(cfg)
    /\ monitor' = [monitor EXCEPT ![r] = "acting"]
    /\ UNCHANGED <<cfg, state, supervisor, proc, reader, threads>>

WatchdogKills(r) ==
    /\ monitor[r] = "acting"
    /\ state' = [state EXCEPT !.status = "error", !.code = "watchdog"]
    /\ proc' = Cancel(r)
    /\ monitor' = [monitor EXCEPT ![r] = "off"]
    /\ UNCHANGED <<cfg, supervisor, reader, threads>>

\* done is closed, or a tick does not find the process.
MonitorEnds(r) ==
    /\ monitor[r] = "idle"
    /\ done[r] \/ at[r] \notin {"born", "waiting"}
    /\ monitor' = [monitor EXCEPT ![r] = "off"]
    /\ UNCHANGED <<cfg, state, supervisor, proc, reader, threads>>

\* Nothing refers to the job object any more: its slot is used again.
Retire(r) ==
    /\ at[r] = "ended"
    /\ ~reader[r]
    /\ monitor[r] = "off"
    /\ \A t \in Threads : held[t] # r
    /\ at' = [at EXCEPT ![r] = "idle"]
    /\ proc' = [proc EXCEPT ![r] = "free"]
    /\ stopping' = [stopping EXCEPT ![r] = FALSE]
    /\ done' = [done EXCEPT ![r] = FALSE]
    /\ UNCHANGED <<cfg, state, job, tracker, reader, monitor, op, held>>

-----------------------------------------------------------------------------
StartStep(t) ==
    ReadConfig(t) \/ RefuseSpawn(t) \/ FailSpawn(t) \/ PublishFailure(t) \/ Spawn(t) \/ Publish(t)

StopStep(q) ==
    StopSignal(q) \/ StopNothing(q) \/ StopMark(q) \/ StopDone(q) \/ StopTimeout(q) \/ Erase(q)

WaitStep(r) ==
    Reap(r) \/ Settle(r) \/ Consider(r) \/ Tally(r) \/ GiveUp(r) \/ Announce(r) \/ Wake(r)

ReaderStep(r) == StderrLine(r) \/ ReaderFails(r) \/ ReaderEnds(r)

MonitorStep(r) == WatchdogDecides(r) \/ WatchdogKills(r) \/ MonitorEnds(r)

Next ==
    \/ Upsert
    \/ \E t \in Threads : StartStep(t)
    \/ \E q \in Requests : Begin(q) \/ StopStep(q)
    \/ \E r \in Runs : Exit(r) \/ WaitStep(r) \/ ReaderStep(r) \/ MonitorStep(r) \/ Retire(r)

Spec == Init /\ [][Next]_vars

\* A goroutine that can take a step takes it, a cancelled process is killed
\* (exec.CommandContext), and a reader sees the end of a dead process's pipe.
\* Nothing makes a request arrive, a process fail, a line appear or a watchdog
\* give a reason.
Fairness ==
    /\ \A t \in Threads : WF_vars(StartStep(t))
    /\ \A q \in Requests : WF_vars(StopStep(q))
    /\ \A r \in Runs :
          /\ WF_vars(WaitStep(r))
          /\ WF_vars(proc[r] = "doomed" /\ Exit(r))
          /\ WF_vars(ReaderEnds(r))
          /\ WF_vars(WatchdogKills(r))
          /\ WF_vars(MonitorEnds(r))
          /\ WF_vars(Retire(r))

FairSpec == Spec /\ Fairness
-----------------------------------------------------------------------------
(* Properties *)

\* Every variable has its type (the fields of JobManager, job and State).
TypeOK ==
    /\ cfg \in Configs
    /\ state \in [status : Statuses, pid : Runs \cup {NoRun}, code : Codes, flapping : BOOLEAN]
    /\ job \in Runs \cup {NoRun}
    /\ tracker \in 0..(MaxAttempts + 1)
    /\ stopping \in [Runs -> BOOLEAN]
    /\ done \in [Runs -> BOOLEAN]
    /\ proc \in [Runs -> {"free"} \cup Living \cup Exited]
    /\ reader \in [Runs -> BOOLEAN]
    /\ monitor \in [Runs -> {"off", "idle", "acting"}]
    /\ at \in [Threads -> Steps]
    /\ op \in [Requests -> {"none", "start", "stop", "restart", "delete"}]
    /\ held \in [Threads -> Runs \cup {NoRun}]

\* A living FFmpeg process is the registered job of its stream, whatever
\* requests and restarts race: so there is at most one, and Stop can reach it
\* (the exists test of start, the delete in wait).
NoLostProcess == \A r \in Runs : proc[r] \in Living => job = r

\* When wait removes a job it is its own, and nobody has closed its done
\* channel before: close(current.done) cannot panic and cannot release the
\* Stop of another run.
ReaperOwnsJob == \A r \in Runs : at[r] \in {"born", "waiting"} => job = r /\ ~done[r]

\* The job manager supervises the stream's process as Supervised says: start never
\* runs a second process beside a living one or in place of a job that wait has
\* still to remove, Stop reaches whatever lives, and maybeRestart follows only a run
\* that has ended by itself.
Supervision ==
    INSTANCE Supervised WITH
        None     <- NoRun,
        owner    <- job,
        alive    <- {r \in Runs : proc[r] \in Living},
        marked   <- {r \in Runs : stopping[r]},
        retrying <- {r \in Runs : at[r] \in RetrySteps \cup StartSteps}
IsSupervised == Supervision!Spec

\* The PID in the state belongs to a run whose wait has still to write its
\* result, so a PID never stays behind its process, and the status "running"
\* always comes with such a PID.
RunningHasPid ==
    /\ state.status = "running" => state.pid # NoRun
    /\ \A r \in Runs : state.pid = r => at[r] \in ReapSteps

\* A run that Stop has signalled never starts a restart chain, even if its
\* process failed by itself just before (manualStop in wait).
ManualStopIsFinal == \A r \in Runs : stopping[r] => at[r] \notin RetrySteps \cup StartSteps

\* A Stop that is answered without a timeout leaves a process that has exited
\* and a stream that can be started at once: the job was removed before done
\* was closed.
StopMeansDead ==
    [][\A q \in Requests :
          StopDone(q) => proc[held[q]] \in Exited /\ job # held[q]]_vars

\* A stream reported as failed, restarting or flapping always says why: no
\* interleaving of a late wait, a stderr line and a restart leaves it without
\* an error code.
FailureIsExplained ==
    state.status \in {"error", "restarting", "flapping"} => state.code # "none"

\* A run that was asked to stop is reaped in the end (Stop may time out, the
\* cancelled context still kills the process).
StoppedIsReaped == \A r \in Runs : stopping[r] ~> job # r

\* A failure counts as answered once the stream has a process again, is marked
\* flapping, or its configuration forbids the restart.
Answered == job # NoRun \/ state.flapping \/ ~Restartable(cfg)

\* From some time on no failure comes after the window of the first one: the
\* tracker is not reset any more (now.Sub(firstFailure) > window in maybeRestart).
\* normalizeRestartPolicy does not ensure this: a policy whose backoffs outlast
\* its window resets the tracker for ever.
WindowsHold == <>[][\A r \in Runs : Tally(r) => tracker' = Counted(tracker, FALSE)]_vars

\* A failed run is answered, and so is every restart that fails.  Whatever the
\* policy, the goroutine that maybeRestart left goes on to another start, unless
\* the failure has been answered.  If windows do not keep ending between the
\* failures, this comes to an end: the stream runs again or is marked flapping,
\* unless its configuration forbids the restart at some time.
CrashIsAnswered ==
    /\ \A r \in Runs : at[r] = "settled" ~> at[r] = "start" \/ Answered
    /\ WindowsHold => \A r \in Runs : at[r] = "settled" ~> Answered

\* The invariant that the proofs carry from step to step.  It says which steps
\* the job of the map, a closed done channel, a stopping flag and a goroutine's
\* local variable allow: a job is in the map exactly while its wait has not
\* removed it; the goroutine that starts a run is the only one that does, and
\* its run has no wait yet; wait keeps its own job as `current'.
JobLifecycle ==
    /\ \A r \in Runs : job = r <=> at[r] \in {"born", "waiting"}
    /\ \A r \in Runs : proc[r] \in Living => at[r] \in {"born", "waiting"}
    /\ \A r \in Runs : done[r] => at[r] \notin {"idle", "born", "waiting"} /\ proc[r] \in Exited
    /\ \A r \in Runs : stopping[r] => at[r] \in {"born", "waiting", "reaped", "ended"}
    /\ \A r \in Runs : at[r] = "reaped" => held[r] = r
    /\ \A t \in Threads : at[t] = "publish" => held[t] \in Runs /\ at[held[t]] = "born"
    /\ \A t, u \in Threads : at[t] = "publish" /\ at[u] = "publish" => t = u
    /\ \A q \in Requests : at[q] \in {"mark", "await"} => held[q] \in Runs

(* What the repository says of the code and the code does not do: no run has *)
(* these; TLC refutes each with the constants given in README, section 5.     *)

\* README.md:81: the state tracks status and PID.  A living process whose
\* stream no goroutine is working on is reported running with its PID.
LiveIsReported ==
    \A r \in Runs :
        /\ proc[r] = "alive"
        /\ at[r] = "waiting"
        /\ \A t \in Threads \ {r} : at[t] \in {"idle", "ended", "backoff"}
        => state.status = "running" /\ state.pid = r

\* README.md:913: a flapping stream is not restarted automatically.
FlappingIsLeftAlone == [][\A r \in Runs : Spawn(r) => ~state.flapping]_vars

\* README.md:911-913: a process that exceeds max_attempts inside window_seconds
\* makes its stream flapping.  So one that keeps failing would be answered in the
\* end; but no policy is refused whose backoffs alone outlast its window.
FlappingIsReached == \A r \in Runs : at[r] = "settled" ~> Answered
=============================================================================

-------------------------- MODULE StreamJobsProofs --------------------------
(***************************************************************************)
(* Proofs about StreamJobs, for any number of runs and requests and any    *)
(* restart limit.  TypeOK is inductive by itself; the safety properties    *)
(* follow from TypeOK, JobLifecycle and two facts about the state record,  *)
(* and with them each step is one of Supervised or a stutter.              *)
(***************************************************************************)
EXTENDS StreamJobs, TLAPS

\* The sets the type invariant is made of.
USE DEF Threads, Steps, StartSteps, StopSteps, ReapSteps, RetrySteps

-----------------------------------------------------------------------------
(* Types *)

\* Moving a goroutine keeps the types of the goroutines' variables (the
\* program counters and locals of every goroutine of JobManager).
LEMMA GotoType ==
    ASSUME TypeOK, NEW t \in Threads, NEW s \in Steps, NEW r \in Runs \cup {NoRun}, Goto(t, s, r)
    PROVE  /\ at' \in [Threads -> Steps]
           /\ op' \in [Requests -> {"none", "start", "stop", "restart", "delete"}]
           /\ held' \in [Threads -> Runs \cup {NoRun}]
  BY DEF TypeOK, Goto

\* The continuations of start and Stop are steps.
LEMMA ContinuationType ==
    \A t : AfterFailedStart(t) \in Steps /\ AfterStart(t) \in Steps /\ AfterStop(t) \in Steps
  BY DEF AfterFailedStart, AfterStart, AfterStop

\* The types hold at first.
LEMMA TypeInit == Init => TypeOK
  BY EditsAssumption, MaxAttemptsAssumption
  DEF Init, TypeOK, DefaultState, Statuses, Codes, Configs

\* Every step of start keeps the types.
LEMMA TypeStart ==
    ASSUME TypeOK, NEW t \in Threads, StartStep(t)
    PROVE  TypeOK'
  <1>1. CASE ReadConfig(t) \/ RefuseSpawn(t) \/ FailSpawn(t) \/ PublishFailure(t)
    <2>1. PICK s \in Steps : Goto(t, s, NoRun)
      BY <1>1, ContinuationType DEF ReadConfig, RefuseSpawn, FailSpawn, PublishFailure
    <2>2. UNCHANGED <<cfg, supervisor, system>>
      BY <1>1 DEF ReadConfig, RefuseSpawn, FailSpawn, PublishFailure
    <2>3. state' \in [status : Statuses, pid : Runs \cup {NoRun}, code : Codes, flapping : BOOLEAN]
      BY <1>1 DEF TypeOK, ReadConfig, RefuseSpawn, FailSpawn, PublishFailure, Statuses, Codes
    <2> QED
      BY <2>1, <2>2, <2>3, GotoType DEF TypeOK, supervisor, system
  <1>2. CASE Spawn(t)
    BY <1>2, MaxAttemptsAssumption DEF Spawn, TypeOK, Free, Living, Exited
  <1>3. CASE Publish(t)
    <2>1. held[t] \in Runs \/ held[t] = NoRun
      BY DEF TypeOK
    <2>2. state' \in [status : Statuses, pid : Runs \cup {NoRun}, code : Codes, flapping : BOOLEAN]
      BY <1>3, <2>1 DEF Publish, Started, Statuses, Codes
    <2>3. at' \in [Threads -> Steps]
      BY <1>3, ContinuationType DEF Publish, TypeOK
    <2>4. monitor' \in [Runs -> {"off", "idle", "acting"}]
      BY <1>3 DEF Publish, TypeOK
    <2>5. reader' \in [Runs -> BOOLEAN]
      <3>1. ("reader" \in Observers) \in BOOLEAN
        OBVIOUS
      <3> QED
        BY <1>3, <3>1, Zenon DEF Publish, TypeOK
    <2> QED
      BY <1>3, <2>2, <2>3, <2>4, <2>5 DEF Publish, TypeOK, supervisor
  <1> QED
    BY <1>1, <1>2, <1>3 DEF StartStep

\* Every step of a handler and of Stop keeps the types.
LEMMA TypeRequest ==
    ASSUME TypeOK, NEW q \in Requests, Begin(q) \/ StopStep(q)
    PROVE  TypeOK'
  <1>1. CASE Begin(q)
    BY <1>1 DEF Begin, TypeOK, supervisor, system
  <1>2. CASE StopSignal(q)
    <2>1. job \in Runs
      BY <1>2 DEF StopSignal, TypeOK
    <2>2. /\ at' \in [Threads -> Steps]
          /\ op' \in [Requests -> {"none", "start", "stop", "restart", "delete"}]
          /\ held' \in [Threads -> Runs \cup {NoRun}]
      BY <1>2, <2>1, GotoType DEF StopSignal
    <2>3. proc' \in [Runs -> {"free"} \cup Living \cup Exited]
      BY <1>2, <2>1 DEF StopSignal, TypeOK, Cancel, Living
    <2>4. tracker' \in 0..(MaxAttempts + 1)
      BY <1>2, MaxAttemptsAssumption DEF StopSignal
    <2>5. stopping' \in [Runs -> BOOLEAN]
      BY <1>2 DEF StopSignal, TypeOK
    <2>6. UNCHANGED <<cfg, state, job, done, reader, monitor>>
      BY <1>2 DEF StopSignal
    <2> QED
      BY <2>2, <2>3, <2>4, <2>5, <2>6 DEF TypeOK
  <1>3. CASE StopNothing(q) \/ StopMark(q) \/ StopDone(q) \/ StopTimeout(q) \/ Erase(q)
    <2>1. PICK s \in Steps, r \in Runs \cup {NoRun} : Goto(q, s, r)
      BY <1>3, ContinuationType DEF StopNothing, StopMark, StopDone, StopTimeout, Erase, TypeOK
    <2>2. UNCHANGED <<supervisor, system>>
      BY <1>3 DEF StopNothing, StopMark, StopDone, StopTimeout, Erase
    <2>3. /\ state' \in [status : Statuses, pid : Runs \cup {NoRun}, code : Codes, flapping : BOOLEAN]
          /\ cfg' \in Configs
      <3>1. CASE StopNothing(q) \/ StopDone(q) \/ StopTimeout(q)
        BY <3>1 DEF StopNothing, StopDone, StopTimeout, TypeOK
      <3>2. CASE StopMark(q)
        BY <3>2 DEF StopMark, TypeOK, Statuses
      <3>3. CASE Erase(q)
        <4>1. DefaultState \in [status : Statuses, pid : Runs \cup {NoRun}, code : Codes, flapping : BOOLEAN]
          BY DEF DefaultState, Statuses, Codes
        <4>2. "absent" \in Configs
          BY DEF Configs
        <4> QED
          BY <3>3, <4>1, <4>2 DEF Erase, TypeOK
      <3> QED
        BY <1>3, <3>1, <3>2, <3>3
    <2> QED
      BY <2>1, <2>2, <2>3, GotoType DEF TypeOK, supervisor, system
  <1> QED
    BY <1>1, <1>2, <1>3 DEF StopStep

\* Every step of wait and of maybeRestart keeps the types.
LEMMA TypeWait ==
    ASSUME TypeOK, NEW r \in Runs, WaitStep(r)
    PROVE  TypeOK'
  <1>1. CASE Reap(r)
    <2>1. /\ at' \in [Threads -> Steps]
          /\ op' \in [Requests -> {"none", "start", "stop", "restart", "delete"}]
          /\ held' \in [Threads -> Runs \cup {NoRun}]
      BY <1>1, GotoType DEF Reap, TypeOK
    <2> QED
      BY <1>1, <2>1 DEF Reap, TypeOK, system
  <1>2. CASE Settle(r) \/ Consider(r) \/ GiveUp(r) \/ Announce(r) \/ Wake(r)
    <2>1. PICK s \in Steps : Goto(r, s, NoRun)
      BY <1>2 DEF Settle, Consider, GiveUp, Announce, Wake
    <2>2. UNCHANGED <<cfg, supervisor, system>>
      BY <1>2 DEF Settle, Consider, GiveUp, Announce, Wake
    <2>3. state' \in [status : Statuses, pid : Runs \cup {NoRun}, code : Codes, flapping : BOOLEAN]
      <3>1. CASE Consider(r) \/ Wake(r)
        BY <3>1 DEF Consider, Wake, TypeOK
      <3>2. CASE Settle(r)
        BY <3>2 DEF Settle, Settled, TypeOK, Statuses, Codes
      <3>3. CASE GiveUp(r)
        BY <3>3 DEF GiveUp, TypeOK, Statuses, Codes
      <3>4. CASE Announce(r)
        BY <3>4 DEF Announce, TypeOK, Statuses, Codes
      <3> QED
        BY <1>2, <3>1, <3>2, <3>3, <3>4
    <2> QED
      BY <2>1, <2>2, <2>3, GotoType DEF TypeOK, supervisor, system
  <1>3. CASE Tally(r)
    <2>1. tracker' \in 0..(MaxAttempts + 1)
      BY <1>3, MaxAttemptsAssumption, WindowAssumption DEF Tally, Counted, TypeOK
    <2>2. PICK s \in Steps : Goto(r, s, NoRun)
      BY <1>3 DEF Tally
    <2> QED
      BY <1>3, <2>1, <2>2, GotoType DEF Tally, TypeOK, system
  <1> QED
    BY <1>1, <1>2, <1>3 DEF WaitStep

\* The process, the readers, the monitor and a recycled slot keep the types.
LEMMA TypeSide ==
    ASSUME TypeOK, NEW r \in Runs, Exit(r) \/ ReaderStep(r) \/ MonitorStep(r) \/ Retire(r)
    PROVE  TypeOK'
  <1>1. CASE Exit(r)
    BY <1>1 DEF Exit, TypeOK, supervisor, threads
  <1>2. CASE ReaderStep(r)
    <2>1. CASE StderrLine(r)
      BY <2>1 DEF StderrLine, TypeOK, Codes, supervisor, system, threads
    <2>2. CASE ReaderFails(r)
      BY <2>2 DEF ReaderFails, TypeOK, Cancel, Living, supervisor, threads
    <2>3. CASE ReaderEnds(r)
      BY <2>3 DEF ReaderEnds, TypeOK, supervisor, threads
    <2> QED
      BY <1>2, <2>1, <2>2, <2>3 DEF ReaderStep
  <1>3. CASE MonitorStep(r)
    <2>1. CASE WatchdogDecides(r) \/ MonitorEnds(r)
      BY <2>1 DEF WatchdogDecides, MonitorEnds, TypeOK, supervisor, threads
    <2>2. CASE WatchdogKills(r)
      BY <2>2 DEF WatchdogKills, TypeOK, Cancel, Codes, Statuses, Living, supervisor, threads
    <2> QED
      BY <1>3, <2>1, <2>2 DEF MonitorStep
  <1>4. CASE Retire(r)
    BY <1>4 DEF Retire, TypeOK
  <1> QED
    BY <1>1, <1>2, <1>3, <1>4

\* The types are kept by every step.
LEMMA TypeNext == TypeOK /\ [Next]_vars => TypeOK'
  <1> SUFFICES ASSUME TypeOK, [Next]_vars PROVE TypeOK'
    OBVIOUS
  <1>1. CASE Upsert
    BY <1>1, EditsAssumption DEF Upsert, TypeOK, Configs, supervisor, system, threads
  <1>2. CASE UNCHANGED vars
    BY <1>2 DEF vars, TypeOK, supervisor, system, threads
  <1> QED
    BY <1>1, <1>2, TypeStart, TypeRequest, TypeWait, TypeSide DEF Next

\* The manager's and the store's variables keep their types in every
\* behaviour: TypeOK of the run stream_safety, for all constants.
THEOREM TypeCorrect == Spec => []TypeOK
  BY TypeInit, TypeNext, PTL DEF Spec

-----------------------------------------------------------------------------
(* The life of a job *)

\* The initial states have no job.
LEMMA LifecycleInit == Init => JobLifecycle
  BY NoRunAssumption DEF Init, JobLifecycle, Living

\* A goroutine that leaves the registered jobs alone and does not enter a step
\* that JobLifecycle speaks of keeps it (most steps of start, Stop and wait).
LEMMA LifecycleMove ==
    ASSUME TypeOK, JobLifecycle,
           NEW t \in Threads, NEW s \in Steps, Goto(t, s, NoRun),
           UNCHANGED <<job, done, stopping, proc>>,
           at[t] \notin {"born", "waiting"},
           s \notin {"born", "waiting", "reaped", "publish", "mark", "await"},
           t \in Runs => s # "idle" /\ (stopping[t] => s = "ended")
    PROVE  JobLifecycle'
  <1>1. \A u \in Threads : /\ at'[u] = IF u = t THEN s ELSE at[u]
                           /\ held'[u] = IF u = t THEN NoRun ELSE held[u]
    BY DEF Goto, TypeOK
  <1> QED
    BY <1>1 DEF JobLifecycle

\* Starting a run keeps the life cycle (start).
LEMMA LifecycleStart ==
    ASSUME TypeOK, JobLifecycle, NEW t \in Threads, StartStep(t)
    PROVE  JobLifecycle'
  <1>1. CASE ReadConfig(t) \/ RefuseSpawn(t) \/ FailSpawn(t) \/ PublishFailure(t)
    <2>1. at[t] \in {"start", "spawn", "fail"} /\ UNCHANGED <<job, done, stopping, proc>>
      BY <1>1 DEF ReadConfig, RefuseSpawn, FailSpawn, PublishFailure, supervisor, system
    <2>2. PICK s \in {"spawn", "fail", AfterFailedStart(t)} : Goto(t, s, NoRun)
      BY <1>1 DEF ReadConfig, RefuseSpawn, FailSpawn, PublishFailure
    <2>3. t \in Runs => ~stopping[t] /\ AfterFailedStart(t) = "settled"
      BY <2>1, ThreadsAssumption DEF AfterFailedStart, JobLifecycle
    <2>4. AfterFailedStart(t) \in {"idle", "settled"}
      BY DEF AfterFailedStart
    <2> QED
      BY <2>1, <2>2, <2>3, <2>4, LifecycleMove
  <1>2. CASE Spawn(t)
    <2>1. PICK r \in Runs : /\ at[r] = "idle" /\ job' = r
                            /\ proc' = [proc EXCEPT ![r] = "alive"]
                            /\ at' = [at EXCEPT ![t] = "publish", ![r] = "born"]
                            /\ held' = [held EXCEPT ![t] = r]
      BY <1>2 DEF Spawn, Free
    <2>2. at[t] = "spawn" /\ job = NoRun /\ UNCHANGED <<stopping, done>>
      BY <1>2 DEF Spawn, NotRunning
    <2>3. \A u \in Threads : /\ at'[u] = IF u = r THEN "born" ELSE IF u = t THEN "publish" ELSE at[u]
                             /\ held'[u] = IF u = t THEN r ELSE held[u]
      BY <2>1, <2>2 DEF TypeOK
    <2>4. \A u \in Runs : at[u] \notin {"born", "waiting"}
      BY <2>2, NoRunAssumption DEF JobLifecycle
    <2>5. \A u \in Threads : at[u] # "publish"
      BY <2>4 DEF JobLifecycle
    <2>6. \A u \in Runs : proc'[u] = IF u = r THEN "alive" ELSE proc[u]
      BY <2>1 DEF TypeOK
    <2>7. job' = r /\ at[r] = "idle" /\ r # t /\ ~done[r] /\ UNCHANGED <<stopping, done>>
      BY <2>1, <2>2 DEF JobLifecycle
    <2>11. \A u \in Runs : job' = u <=> at'[u] \in {"born", "waiting"}
      BY <2>2, <2>3, <2>4, <2>5, <2>6, <2>7, NoRunAssumption DEF JobLifecycle
    <2>12. \A u \in Runs : proc'[u] \in Living => at'[u] \in {"born", "waiting"}
      BY <2>2, <2>3, <2>4, <2>5, <2>6, <2>7 DEF JobLifecycle, Living
    <2>13. \A u \in Runs : done'[u] => at'[u] \notin {"idle", "born", "waiting"} /\ proc'[u] \in Exited
      BY <2>2, <2>3, <2>4, <2>5, <2>6, <2>7 DEF JobLifecycle
    <2>14. \A u \in Runs : stopping'[u] => at'[u] \in {"born", "waiting", "reaped", "ended"}
      BY <2>2, <2>3, <2>4, <2>5, <2>6, <2>7 DEF JobLifecycle
    <2>15. \A u \in Runs : at'[u] = "reaped" => held'[u] = u
      BY <2>2, <2>3, <2>4, <2>5, <2>6, <2>7 DEF JobLifecycle
    <2>16. \A u \in Threads : at'[u] = "publish" => held'[u] \in Runs /\ at'[held'[u]] = "born"
      BY <2>2, <2>3, <2>4, <2>5, <2>6, <2>7 DEF JobLifecycle
    <2>17. \A u, v \in Threads : at'[u] = "publish" /\ at'[v] = "publish" => u = v
      BY <2>2, <2>3, <2>4, <2>5, <2>6, <2>7 DEF JobLifecycle
    <2>18. \A q \in Requests : at'[q] \in {"mark", "await"} => held'[q] \in Runs
      BY <2>2, <2>3, <2>4, <2>5, <2>6, <2>7 DEF JobLifecycle
    <2> QED
      BY <2>11, <2>12, <2>13, <2>14, <2>15, <2>16, <2>17, <2>18 DEF JobLifecycle
  <1>3. CASE Publish(t)
    <2>1. at[t] = "publish" /\ held[t] \in Runs /\ at[held[t]] = "born"
      BY <1>3 DEF Publish, JobLifecycle
    <2>2. UNCHANGED <<job, done, stopping, proc>>
      BY <1>3 DEF Publish, supervisor
    <2>3. \A u \in Threads : /\ at'[u] = IF u = held[t] THEN "waiting"
                                         ELSE IF u = t THEN AfterStart(t) ELSE at[u]
                             /\ held'[u] = IF u = t THEN NoRun ELSE held[u]
      BY <1>3, <2>1 DEF Publish, TypeOK
    <2>4. AfterStart(t) \in {"idle", "ended"} /\ (t \in Runs => AfterStart(t) = "ended")
      BY ThreadsAssumption DEF AfterStart
    <2>5. \A u \in Threads : at'[u] # "publish"
      BY <2>1, <2>3, <2>4 DEF JobLifecycle
    <2>6. t # held[t] /\ (t \in Runs => ~stopping[t])
      BY <2>1 DEF JobLifecycle
    <2> QED
      BY <2>1, <2>2, <2>3, <2>4, <2>5, <2>6 DEF JobLifecycle
  <1> QED
    BY <1>1, <1>2, <1>3 DEF StartStep

\* Cancelling a context keeps the life cycle if nothing else changes but the
\* step of a request (Stop, a reader that fails, the watchdog).
LEMMA LifecycleCancel ==
    ASSUME TypeOK, JobLifecycle, NEW r \in Runs, proc' = Cancel(r)
    PROVE  \A u \in Runs : (proc'[u] \in Living <=> proc[u] \in Living) /\ (proc'[u] \in Exited <=> proc[u] \in Exited)
  BY DEF TypeOK, Cancel, Living, Exited

\* Requests keep the life cycle (the handlers and Stop).
LEMMA LifecycleRequest ==
    ASSUME TypeOK, JobLifecycle, NEW q \in Requests, Begin(q) \/ StopStep(q)
    PROVE  JobLifecycle'
  <1>1. q \notin Runs
    BY ThreadsAssumption
  <1>2. CASE Begin(q)
    <2>1. UNCHANGED <<job, done, stopping, proc, held>>
      BY <1>2 DEF Begin, supervisor, system
    <2>2. PICK s \in {"start", "signal"} : at' = [at EXCEPT ![q] = s]
      BY <1>2 DEF Begin
    <2>3. \A u \in Threads : at'[u] = IF u = q THEN s ELSE at[u]
      BY <2>2 DEF TypeOK
    <2> QED
      BY <1>1, <2>1, <2>3 DEF JobLifecycle
  <1>3. CASE StopSignal(q)
    <2>1. /\ job \in Runs /\ Goto(q, "mark", job)
          /\ stopping' = [stopping EXCEPT ![job] = TRUE] /\ proc' = Cancel(job)
          /\ UNCHANGED <<job, done>>
      BY <1>3 DEF StopSignal, TypeOK
    <2>2. \A u \in Threads : /\ at'[u] = IF u = q THEN "mark" ELSE at[u]
                             /\ held'[u] = IF u = q THEN job ELSE held[u]
      BY <2>1 DEF Goto, TypeOK
    <2>3. \A u \in Runs : stopping'[u] => stopping[u] \/ u = job
      BY <2>1 DEF TypeOK
    <2>4. at[q] # "born"
      BY <1>3 DEF StopSignal
    <2> QED
      BY <1>1, <2>1, <2>2, <2>3, <2>4, LifecycleCancel DEF JobLifecycle
  <1>4. CASE StopMark(q)
    <2>1. Goto(q, "await", held[q]) /\ at[q] = "mark" /\ UNCHANGED <<job, done, stopping, proc>>
      BY <1>4 DEF StopMark, supervisor, system
    <2>2. \A u \in Threads : at'[u] = (IF u = q THEN "await" ELSE at[u]) /\ held'[u] = held[u]
      BY <2>1 DEF Goto, TypeOK
    <2> QED
      BY <1>1, <2>1, <2>2 DEF JobLifecycle
  <1>5. CASE StopNothing(q) \/ StopDone(q) \/ StopTimeout(q) \/ Erase(q)
    <2>1. /\ at[q] \in {"signal", "await", "erase"}
          /\ UNCHANGED <<job, done, stopping, proc>>
      BY <1>5 DEF StopNothing, StopDone, StopTimeout, Erase, supervisor, system
    <2>2. PICK s \in {"idle", AfterStop(q)} : Goto(q, s, NoRun)
      BY <1>5 DEF StopNothing, StopDone, StopTimeout, Erase
    <2>3. AfterStop(q) \in {"idle", "start", "erase"}
      BY DEF AfterStop
    <2> QED
      BY <1>1, <2>1, <2>2, <2>3, LifecycleMove
  <1> QED
    BY <1>2, <1>3, <1>4, <1>5 DEF StopStep

\* wait and maybeRestart keep the life cycle.
LEMMA LifecycleWait ==
    ASSUME TypeOK, JobLifecycle, NEW r \in Runs, WaitStep(r)
    PROVE  JobLifecycle'
  <1>1. CASE Reap(r)
    <2>1. job = r /\ at[r] = "waiting" /\ proc[r] \in Exited
      BY <1>1 DEF Reap, JobLifecycle
    <2>2. /\ job' = NoRun /\ done' = [done EXCEPT ![r] = TRUE]
          /\ Goto(r, "reaped", r) /\ UNCHANGED <<stopping, proc>>
      BY <1>1, <2>1, NoRunAssumption DEF Reap, system
    <2>3. \A u \in Threads : /\ at'[u] = IF u = r THEN "reaped" ELSE at[u]
                             /\ held'[u] = IF u = r THEN r ELSE held[u]
      BY <2>2 DEF Goto, TypeOK
    <2>4. \A u \in Runs : done'[u] = IF u = r THEN TRUE ELSE done[u]
      BY <2>2 DEF TypeOK
    <2>5. proc[r] \notin Living
      BY <2>1 DEF Living, Exited
    <2> QED
      BY <2>1, <2>2, <2>3, <2>4, <2>5, NoRunAssumption DEF JobLifecycle
  <1>2. CASE Settle(r)
    <2>1. at[r] = "reaped" /\ held[r] = r /\ UNCHANGED <<job, done, stopping, proc>>
      BY <1>2 DEF Settle, JobLifecycle, supervisor, system
    <2>2. PICK s \in {"settled", "ended"} : Goto(r, s, NoRun) /\ (stopping[r] => s = "ended")
      BY <1>2, <2>1, NoRunAssumption DEF Settle, NeedsRestart
    <2> QED
      BY <2>1, <2>2, LifecycleMove
  <1>3. CASE Consider(r) \/ Tally(r) \/ GiveUp(r) \/ Announce(r) \/ Wake(r)
    <2>1. /\ at[r] \in {"settled", "tally", "giveup", "announce", "backoff"}
          /\ UNCHANGED <<job, done, stopping, proc>>
      BY <1>3 DEF Consider, Tally, GiveUp, Announce, Wake, supervisor, system
    <2>2. PICK s \in {"tally", "ended", "giveup", "announce", "backoff", "start"} : Goto(r, s, NoRun)
      BY <1>3 DEF Consider, Tally, GiveUp, Announce, Wake
    <2>3. ~stopping[r]
      BY <2>1 DEF JobLifecycle
    <2> QED
      BY <2>1, <2>2, <2>3, LifecycleMove
  <1> QED
    BY <1>1, <1>2, <1>3 DEF WaitStep

\* The process, its observers and a recycled slot keep the life cycle.
LEMMA LifecycleSide ==
    ASSUME TypeOK, JobLifecycle, NEW r \in Runs,
           Exit(r) \/ ReaderStep(r) \/ MonitorStep(r) \/ Retire(r)
    PROVE  JobLifecycle'
  <1>1. CASE Exit(r)
    <2>1. /\ UNCHANGED <<job, done, stopping, at, held>>
          /\ \A u \in Runs : proc'[u] \in Living => proc[u] \in Living
          /\ \A u \in Runs : proc[u] \in Exited => proc'[u] \in Exited
      BY <1>1 DEF Exit, TypeOK, supervisor, threads, Living, Exited
    <2> QED
      BY <2>1 DEF JobLifecycle
  <1>2. CASE ReaderStep(r) \/ MonitorStep(r)
    <2>1. UNCHANGED <<job, done, stopping, at, held>> /\ (proc' = proc \/ proc' = Cancel(r))
      BY <1>2
      DEF ReaderStep, StderrLine, ReaderFails, ReaderEnds, MonitorStep, WatchdogDecides,
          WatchdogKills, MonitorEnds, supervisor, threads, system
    <2> QED
      BY <2>1, LifecycleCancel DEF JobLifecycle
  <1>3. CASE Retire(r)
    <2>1. /\ at[r] = "ended" /\ \A t \in Threads : held[t] # r
          /\ UNCHANGED <<job, held>>
          /\ \A u \in Threads : at'[u] = IF u = r THEN "idle" ELSE at[u]
          /\ \A u \in Runs : /\ proc'[u] = IF u = r THEN "free" ELSE proc[u]
                             /\ stopping'[u] = IF u = r THEN FALSE ELSE stopping[u]
                             /\ done'[u] = IF u = r THEN FALSE ELSE done[u]
      BY <1>3 DEF Retire, TypeOK
    <2>11. \A u \in Runs : job' = u <=> at'[u] \in {"born", "waiting"}
      BY <2>1, NoRunAssumption DEF JobLifecycle
    <2>12. \A u \in Runs : proc'[u] \in Living => at'[u] \in {"born", "waiting"}
      BY <2>1 DEF JobLifecycle, Living
    <2>13. \A u \in Runs : done'[u] => at'[u] \notin {"idle", "born", "waiting"} /\ proc'[u] \in Exited
      BY <2>1 DEF JobLifecycle
    <2>14. \A u \in Runs : stopping'[u] => at'[u] \in {"born", "waiting", "reaped", "ended"}
      BY <2>1 DEF JobLifecycle
    <2>15. \A u \in Runs : at'[u] = "reaped" => held'[u] = u
      BY <2>1 DEF JobLifecycle
    <2>16. \A u \in Threads : at'[u] = "publish" => held'[u] \in Runs /\ at'[held'[u]] = "born"
      BY <2>1 DEF JobLifecycle
    <2>17. \A u, v \in Threads : at'[u] = "publish" /\ at'[v] = "publish" => u = v
      BY <2>1 DEF JobLifecycle
    <2>18. \A q \in Requests : at'[q] \in {"mark", "await"} => held'[q] \in Runs
      BY <2>1 DEF JobLifecycle
    <2> QED
      BY <2>11, <2>12, <2>13, <2>14, <2>15, <2>16, <2>17, <2>18 DEF JobLifecycle
  <1> QED
    BY <1>1, <1>2, <1>3

\* The life cycle is kept by every step.
LEMMA LifecycleNext == TypeOK /\ JobLifecycle /\ [Next]_vars => JobLifecycle'
  <1> SUFFICES ASSUME TypeOK, JobLifecycle, [Next]_vars PROVE JobLifecycle'
    OBVIOUS
  <1>1. CASE Upsert \/ UNCHANGED vars
    BY <1>1 DEF Upsert, vars, JobLifecycle, supervisor, system, threads
  <1> QED
    BY <1>1, LifecycleStart, LifecycleRequest, LifecycleWait, LifecycleSide DEF Next

\* Every job goes through its life in order in every behaviour.
THEOREM LifecycleCorrect == Spec => []JobLifecycle
  BY TypeInit, TypeNext, LifecycleInit, LifecycleNext, PTL DEF Spec

\* One living process at most, always the registered job: the exists test of
\* start and the delete in wait keep an FFmpeg process from being lost.
THEOREM NoProcessIsLost == Spec => []NoLostProcess
  <1>1. JobLifecycle => NoLostProcess
    BY DEF JobLifecycle, NoLostProcess
  <1> QED
    BY <1>1, LifecycleCorrect, PTL

\* wait removes its own job and closes an open done channel.
THEOREM ReaperIsOwner == Spec => []ReaperOwnsJob
  <1>1. JobLifecycle => ReaperOwnsJob
    BY DEF JobLifecycle, ReaperOwnsJob
  <1> QED
    BY <1>1, LifecycleCorrect, PTL

\* A run that Stop has signalled does not enter maybeRestart.
THEOREM ManualStopEndsRun == Spec => []ManualStopIsFinal
  <1>1. JobLifecycle => ManualStopIsFinal
    BY DEF JobLifecycle, ManualStopIsFinal
  <1> QED
    BY <1>1, LifecycleCorrect, PTL

\* When Stop returns nil the process has exited and its job is gone.
THEOREM StopIsEffective == Spec => StopMeansDead
  <1>1. ASSUME TypeOK, JobLifecycle, NEW q \in Requests, StopDone(q)
        PROVE  proc[held[q]] \in Exited /\ job # held[q]
    BY <1>1 DEF StopDone, JobLifecycle
  <1>2. TypeOK /\ JobLifecycle /\ [Next]_vars
          => [\A q \in Requests : StopDone(q) => proc[held[q]] \in Exited /\ job # held[q]]_vars
    BY <1>1
  <1> QED
    BY <1>2, TypeCorrect, LifecycleCorrect, PTL DEF StopMeansDead, Spec

-----------------------------------------------------------------------------
(* What the state record reports *)

\* The status and the PID agree and every failure has a code.
Report == RunningHasPid /\ FailureIsExplained

\* A stopped stream is reported at first.
LEMMA ReportInit == Init => Report
  BY NoRunAssumption DEF Init, DefaultState, Report, RunningHasPid, FailureIsExplained

\* A step keeps the report if it does not make the stream running, does not
\* set a PID, explains a failure, and moves no run out of its wait.
LEMMA ReportKept ==
    ASSUME Report,
           state'.status = "running" => state.status = "running" /\ state'.pid = state.pid,
           state'.pid \in {state.pid, NoRun},
           state'.code = "none" => \/ state'.status \in {"stopped", "running"}
                                   \/ state'.status = "stopping"
                                   \/ state' = state,
           \A r \in Runs : at[r] \in ReapSteps => at'[r] \in ReapSteps \/ state'.pid = NoRun
    PROVE  Report'
  BY NoRunAssumption DEF Report, RunningHasPid, FailureIsExplained

\* Steps that only move a goroutine that is not in its wait.
LEMMA ReportMove ==
    ASSUME TypeOK, Report, NEW t \in Threads, NEW s, NEW r, Goto(t, s, r), UNCHANGED state,
           at[t] \notin ReapSteps
    PROVE  Report'
  <1>1. \A u \in Runs : at[u] \in ReapSteps => at'[u] = at[u]
    BY DEF Goto, TypeOK
  <1> QED
    BY <1>1 DEF Report, RunningHasPid, FailureIsExplained

\* start keeps the report.
LEMMA ReportStart ==
    ASSUME TypeOK, JobLifecycle, Report, NEW t \in Threads, StartStep(t)
    PROVE  Report'
  <1>1. CASE ReadConfig(t) \/ RefuseSpawn(t) \/ FailSpawn(t)
    BY <1>1, ReportMove DEF ReadConfig, RefuseSpawn, FailSpawn
  <1>2. CASE PublishFailure(t)
    <2>1. state'.status = "error" /\ state'.pid = state.pid /\ state'.code = "classified"
      BY <1>2 DEF PublishFailure, TypeOK
    <2>2. \A u \in Runs : at[u] \in ReapSteps => at'[u] = at[u]
      BY <1>2 DEF PublishFailure, Goto, TypeOK
    <2> QED
      BY <2>1, <2>2, ReportKept
  <1>3. CASE Spawn(t)
    <2>1. PICK r \in Runs : at[r] = "idle" /\ at' = [at EXCEPT ![t] = "publish", ![r] = "born"]
      BY <1>3 DEF Spawn, Free
    <2>2. at[t] = "spawn" /\ UNCHANGED state
      BY <1>3 DEF Spawn
    <2>3. \A u \in Runs : at[u] \in ReapSteps => at'[u] = at[u]
      BY <2>1, <2>2 DEF TypeOK
    <2> QED
      BY <2>2, <2>3 DEF Report, RunningHasPid, FailureIsExplained
  <1>4. CASE Publish(t)
    <2>1. held[t] \in Runs /\ at[held[t]] = "born" /\ at[t] = "publish"
      BY <1>4 DEF Publish, JobLifecycle
    <2>2. state'.status = "running" /\ state'.pid = held[t]
      BY <1>4 DEF Publish, Started
    <2>3. at'[held[t]] = "waiting"
      BY <1>4, <2>1 DEF Publish, TypeOK
    <2> QED
      BY <2>1, <2>2, <2>3, NoRunAssumption DEF Report, RunningHasPid, FailureIsExplained
  <1> QED
    BY <1>1, <1>2, <1>3, <1>4 DEF StartStep

\* Requests keep the report.
LEMMA ReportRequest ==
    ASSUME TypeOK, JobLifecycle, Report, NEW q \in Requests, Begin(q) \/ StopStep(q)
    PROVE  Report'
  <1>1. \A u \in Runs : at'[u] = at[u]
    <2>1. q \notin Runs
      BY ThreadsAssumption
    <2>2. PICK s : at' = [at EXCEPT ![q] = s]
      BY DEF Begin, StopStep, StopSignal, StopNothing, StopMark, StopDone, StopTimeout, Erase, Goto
    <2> QED
      BY <2>1, <2>2 DEF TypeOK
  <1>2. CASE Begin(q) \/ StopSignal(q) \/ StopNothing(q) \/ StopDone(q) \/ StopTimeout(q)
    <2>1. UNCHANGED state
      BY <1>2 DEF Begin, StopSignal, StopNothing, StopDone, StopTimeout
    <2> QED
      BY <1>1, <2>1 DEF Report, RunningHasPid, FailureIsExplained
  <1>3. CASE StopMark(q)
    <2>1. state'.status = "stopping" /\ state'.pid = state.pid
      BY <1>3 DEF StopMark, TypeOK
    <2> QED
      BY <1>1, <2>1, ReportKept
  <1>4. CASE Erase(q)
    <2>1. state' = state \/ (state'.status = "stopped" /\ state'.pid = NoRun)
      BY <1>4 DEF Erase, DefaultState
    <2> QED
      BY <1>1, <2>1, ReportKept
  <1> QED
    BY <1>2, <1>3, <1>4 DEF StopStep

\* wait and maybeRestart keep the report.
LEMMA ReportWait ==
    ASSUME TypeOK, JobLifecycle, Report, NEW r \in Runs, WaitStep(r)
    PROVE  Report'
  <1>1. CASE Reap(r)
    <2>1. UNCHANGED state /\ \A u \in Runs : at'[u] = IF u = r THEN "reaped" ELSE at[u]
      BY <1>1 DEF Reap, Goto, TypeOK
    <2> QED
      BY <2>1 DEF Report, RunningHasPid, FailureIsExplained
  <1>2. CASE Settle(r)
    <2>1. state' = Settled(state, proc[r] = "failed", held[r] # NoRun /\ stopping[held[r]])
      BY <1>2 DEF Settle
    <2>2. /\ state'.pid = NoRun
          /\ state'.status = "stopped" \/ (state'.status = "error" /\ state'.code # "none")
      BY <2>1 DEF Settled, TypeOK
    <2> QED
      BY <2>2, ReportKept
  <1>3. CASE Consider(r) \/ Tally(r) \/ Wake(r)
    BY <1>3, ReportMove DEF Consider, Tally, Wake
  <1>4. CASE GiveUp(r) \/ Announce(r)
    <2>1. /\ state'.status \in {"flapping", "restarting"} /\ state'.pid = state.pid
          /\ state'.code = "process_exit"
      BY <1>4 DEF GiveUp, Announce, TypeOK
    <2>2. \A u \in Runs : at[u] \in ReapSteps => at'[u] = at[u]
      BY <1>4 DEF GiveUp, Announce, Goto, TypeOK
    <2> QED
      BY <2>1, <2>2, ReportKept
  <1> QED
    BY <1>1, <1>2, <1>3, <1>4 DEF WaitStep

\* The process and its observers keep the report, however late they write.
LEMMA ReportSide ==
    ASSUME TypeOK, JobLifecycle, Report, NEW r \in Runs,
           Exit(r) \/ ReaderStep(r) \/ MonitorStep(r) \/ Retire(r)
    PROVE  Report'
  <1>1. CASE StderrLine(r)
    <2>1. state'.status = state.status /\ state'.pid = state.pid /\ state'.code = "classified" /\ at' = at
      BY <1>1 DEF StderrLine, TypeOK, threads
    <2> QED
      BY <2>1, ReportKept
  <1>2. CASE WatchdogKills(r)
    <2>1. state'.status = "error" /\ state'.pid = state.pid /\ state'.code = "watchdog" /\ at' = at
      BY <1>2 DEF WatchdogKills, TypeOK, threads
    <2> QED
      BY <2>1, ReportKept
  <1>3. CASE Exit(r) \/ ReaderFails(r) \/ ReaderEnds(r) \/ WatchdogDecides(r) \/ MonitorEnds(r)
    <2>1. UNCHANGED <<state, at>>
      BY <1>3 DEF Exit, ReaderFails, ReaderEnds, WatchdogDecides, MonitorEnds, threads
    <2> QED
      BY <2>1 DEF Report, RunningHasPid, FailureIsExplained
  <1>4. CASE Retire(r)
    <2>1. UNCHANGED state /\ \A u \in Runs : at[u] \in ReapSteps => at'[u] = at[u]
      BY <1>4 DEF Retire, TypeOK
    <2> QED
      BY <2>1 DEF Report, RunningHasPid, FailureIsExplained
  <1> QED
    BY <1>1, <1>2, <1>3, <1>4 DEF ReaderStep, MonitorStep

\* The report is kept by every step.
LEMMA ReportNext == TypeOK /\ JobLifecycle /\ Report /\ [Next]_vars => Report'
  <1> SUFFICES ASSUME TypeOK, JobLifecycle, Report, [Next]_vars PROVE Report'
    OBVIOUS
  <1>1. CASE Upsert \/ UNCHANGED vars
    BY <1>1 DEF Upsert, vars, Report, RunningHasPid, FailureIsExplained, threads
  <1> QED
    BY <1>1, ReportStart, ReportRequest, ReportWait, ReportSide DEF Next

\* A reported PID belongs to a run whose wait has not written its result, and
\* "running" never comes without one.
THEOREM PidIsLive == Spec => []RunningHasPid
  <1>1. Report => RunningHasPid
    BY DEF Report
  <1> QED
    BY <1>1, TypeCorrect, LifecycleCorrect, ReportInit, ReportNext, PTL DEF Spec

\* A failed, restarting or flapping stream always has an error code.
THEOREM FailuresAreExplained == Spec => []FailureIsExplained
  <1>1. Report => FailureIsExplained
    BY DEF Report
  <1> QED
    BY <1>1, TypeCorrect, LifecycleCorrect, ReportInit, ReportNext, PTL DEF Spec

-----------------------------------------------------------------------------
(* The abstract supervisor *)

\* What the refinement mapping takes from the state.
Alive == {r \in Runs : proc[r] \in Living}
Marked == {r \in Runs : stopping[r]}
Retrying == {r \in Runs : at[r] \in RetrySteps \cup StartSteps}

\* The mapping takes a step of Supervised, or stutters.
Simulates == [Supervision!Next]_(Supervision!vars)

\* The steps of Supervised in terms of the mapping.
LEMMA Simulation ==
    /\ job' = job /\ Alive' = Alive /\ Marked' = Marked /\ Retrying' = Retrying => Simulates
    /\ \A r \in Runs :
          /\ job = NoRun /\ Alive = {} /\ r \notin Marked \cup Retrying
          /\ job' = r /\ Alive' = {r} /\ Marked' = Marked /\ Retrying' = Retrying
          => Simulates
    /\ /\ job # NoRun /\ Marked' = Marked \cup {job}
       /\ job' = job /\ Alive' = Alive /\ Retrying' = Retrying
       => Simulates
    /\ \A r \in Runs :
          /\ r \in Alive /\ Alive' = Alive \ {r}
          /\ job' = job /\ Marked' = Marked /\ Retrying' = Retrying
          => Simulates
    /\ /\ job # NoRun /\ job \notin Alive /\ job' = NoRun
       /\ Alive' = Alive /\ Marked' = Marked /\ Retrying' = Retrying
       => Simulates
    /\ \A r \in Runs :
          /\ r # job /\ r \notin Alive \cup Marked /\ Retrying' = Retrying \cup {r}
          /\ job' = job /\ Alive' = Alive /\ Marked' = Marked
          => Simulates
    /\ \A r \in Runs :
          /\ r \in Retrying /\ Retrying' = Retrying \ {r}
          /\ job' = job /\ Alive' = Alive /\ Marked' = Marked
          => Simulates
    /\ \A r \in Runs :
          /\ r # job /\ r \notin Alive \cup Retrying /\ Marked' = Marked \ {r}
          /\ job' = job /\ Alive' = Alive /\ Retrying' = Retrying
          => Simulates
  BY Zenon
  DEF Simulates, Supervision!Next, Supervision!vars, Supervision!Start, Supervision!Stop,
      Supervision!Die, Supervision!Release, Supervision!Retry, Supervision!Rest,
      Supervision!Forget, Alive, Marked, Retrying

\* A goroutine moves and nothing else that the mapping looks at changes.
LEMMA SimulateMove ==
    ASSUME TypeOK, NEW t \in Threads, NEW s \in Steps, NEW x, Goto(t, s, x),
           UNCHANGED <<job, stopping, proc>>,
           t \in Runs => \/ at[t] \in RetrySteps \cup StartSteps
                         \/ s \notin RetrySteps \cup StartSteps
                         \/ t # job /\ proc[t] \notin Living /\ ~stopping[t]
    PROVE  Simulates
  <1>1. \A u \in Threads : at'[u] = IF u = t THEN s ELSE at[u]
    BY DEF Goto, TypeOK
  <1>2. job' = job /\ Alive' = Alive /\ Marked' = Marked
    BY DEF Alive, Marked
  <1>3. CASE t \notin Runs
    <2>1. Retrying' = Retrying
      BY <1>1, <1>3 DEF Retrying
    <2> QED
      BY <1>2, <2>1, Simulation
  <1>4. CASE t \in Runs /\ at[t] \in RetrySteps \cup StartSteps
    <2>1. CASE s \in RetrySteps \cup StartSteps
      <3>1. Retrying' = Retrying
        BY <1>1, <1>4, <2>1 DEF Retrying
      <3> QED
        BY <1>2, <3>1, Simulation
    <2>2. CASE s \notin RetrySteps \cup StartSteps
      <3>1. t \in Retrying /\ Retrying' = Retrying \ {t}
        BY <1>1, <1>4, <2>2 DEF Retrying
      <3> QED
        BY <1>2, <1>4, <3>1, Simulation
    <2> QED
      BY <2>1, <2>2
  <1>5. CASE t \in Runs /\ at[t] \notin RetrySteps \cup StartSteps
    <2>1. CASE s \notin RetrySteps \cup StartSteps
      <3>1. Retrying' = Retrying
        BY <1>1, <1>5, <2>1 DEF Retrying
      <3> QED
        BY <1>2, <3>1, Simulation
    <2>2. CASE s \in RetrySteps \cup StartSteps
      <3>1. Retrying' = Retrying \cup {t}
        BY <1>1, <1>5, <2>2 DEF Retrying
      <3>2. t # job /\ t \notin Alive \cup Marked
        BY <1>5, <2>2 DEF Alive, Marked
      <3> QED
        BY <1>2, <1>5, <3>1, <3>2, Simulation
    <2> QED
      BY <2>1, <2>2
  <1> QED
    BY <1>3, <1>4, <1>5

\* start.
LEMMA SimulateStart ==
    ASSUME TypeOK, JobLifecycle, NEW t \in Threads, StartStep(t)
    PROVE  Simulates
  <1>1. CASE ReadConfig(t) \/ RefuseSpawn(t) \/ FailSpawn(t) \/ PublishFailure(t)
    <2>1. at[t] \in StartSteps /\ UNCHANGED <<job, stopping, proc>>
      BY <1>1 DEF ReadConfig, RefuseSpawn, FailSpawn, PublishFailure, supervisor, system
    <2>2. PICK s \in {"spawn", "fail", AfterFailedStart(t)} : Goto(t, s, NoRun)
      BY <1>1 DEF ReadConfig, RefuseSpawn, FailSpawn, PublishFailure
    <2>3. s \in Steps
      BY <2>2, ContinuationType
    <2> QED
      BY <2>1, <2>2, <2>3, SimulateMove
  <1>2. CASE Spawn(t)
    <2>1. PICK r \in Runs : /\ at[r] = "idle" /\ job' = r
                            /\ proc' = [proc EXCEPT ![r] = "alive"]
                            /\ at' = [at EXCEPT ![t] = "publish", ![r] = "born"]
      BY <1>2 DEF Spawn, Free
    <2>2. at[t] = "spawn" /\ job = NoRun /\ UNCHANGED stopping
      BY <1>2 DEF Spawn, NotRunning
    <2>3. \A u \in Threads : at'[u] = IF u = r THEN "born" ELSE IF u = t THEN "publish" ELSE at[u]
      BY <2>1, <2>2 DEF TypeOK
    <2>4. \A u \in Runs : proc[u] \notin Living
      BY <2>2, NoRunAssumption DEF JobLifecycle
    <2>5. \A u \in Runs : proc'[u] = IF u = r THEN "alive" ELSE proc[u]
      BY <2>1 DEF TypeOK
    <2>6. Alive = {} /\ Alive' = {r}
      BY <2>4, <2>5 DEF Alive, Living
    <2>7. r \notin Marked \cup Retrying /\ Marked' = Marked
      BY <2>1, <2>2 DEF JobLifecycle, Marked, Retrying
    <2>8. Retrying' = Retrying
      <3>1. at[r] = "idle" /\ at[t] = "spawn"
        BY <2>1, <2>2
      <3>2. ASSUME NEW u \in Runs
            PROVE  at'[u] \in RetrySteps \cup StartSteps <=> at[u] \in RetrySteps \cup StartSteps
        BY <2>3, <3>1
      <3> QED
        BY <3>2 DEF Retrying
    <2> QED
      BY <2>1, <2>2, <2>6, <2>7, <2>8, Simulation
  <1>3. CASE Publish(t)
    <2>1. at[t] = "publish" /\ held[t] \in Runs /\ at[held[t]] = "born"
      BY <1>3 DEF Publish, JobLifecycle
    <2>2. job' = job /\ Alive' = Alive /\ Marked' = Marked
      BY <1>3 DEF Publish, supervisor, Alive, Marked
    <2>3. \A u \in Threads : at'[u] = IF u = held[t] THEN "waiting"
                                      ELSE IF u = t THEN AfterStart(t) ELSE at[u]
      BY <1>3, <2>1 DEF Publish, TypeOK
    <2>4. AfterStart(t) \in {"idle", "ended"}
      BY DEF AfterStart
    <2>5. CASE t \in Runs
      <3>1. t \in Retrying /\ Retrying' = Retrying \ {t}
        BY <2>1, <2>3, <2>4, <2>5 DEF Retrying
      <3> QED
        BY <2>2, <2>5, <3>1, Simulation
    <2>6. CASE t \notin Runs
      <3>1. Retrying' = Retrying
        BY <2>1, <2>3, <2>6 DEF Retrying
      <3> QED
        BY <2>2, <3>1, Simulation
    <2> QED
      BY <2>5, <2>6
  <1> QED
    BY <1>1, <1>2, <1>3 DEF StartStep

\* The handlers and Stop.
LEMMA SimulateRequest ==
    ASSUME TypeOK, JobLifecycle, NEW q \in Requests, Begin(q) \/ StopStep(q)
    PROVE  Simulates
  <1>1. q \notin Runs /\ q \in Threads
    BY ThreadsAssumption
  <1>2. CASE Begin(q)
    <2>1. UNCHANGED <<job, stopping, proc>>
      BY <1>2 DEF Begin, supervisor, system
    <2>2. \A u \in Runs : at'[u] = at[u]
      BY <1>1, <1>2 DEF Begin, TypeOK
    <2>3. job' = job /\ Alive' = Alive /\ Marked' = Marked /\ Retrying' = Retrying
      BY <2>1, <2>2 DEF Alive, Marked, Retrying
    <2> QED
      BY <2>3, Simulation
  <1>3. CASE StopSignal(q)
    <2>1. /\ job \in Runs /\ Goto(q, "mark", job) /\ job' = job
          /\ stopping' = [stopping EXCEPT ![job] = TRUE] /\ proc' = Cancel(job)
      BY <1>3 DEF StopSignal, TypeOK
    <2>2. \A u \in Runs : at'[u] = at[u]
      BY <1>1, <2>1 DEF Goto, TypeOK
    <2>3. Alive' = Alive /\ Retrying' = Retrying
      BY <2>1, <2>2, LifecycleCancel DEF Alive, Retrying
    <2>4. Marked' = Marked \cup {job}
      BY <2>1 DEF Marked, TypeOK
    <2>5. job # NoRun
      BY <2>1, NoRunAssumption
    <2> QED
      BY <2>1, <2>3, <2>4, <2>5, Simulation
  <1>4. CASE StopNothing(q) \/ StopMark(q) \/ StopDone(q) \/ StopTimeout(q) \/ Erase(q)
    <2>1. UNCHANGED <<job, stopping, proc>>
      BY <1>4 DEF StopNothing, StopMark, StopDone, StopTimeout, Erase, supervisor, system
    <2>2. PICK s \in {"idle", "await", AfterStop(q)}, x \in {NoRun, held[q]} : Goto(q, s, x)
      BY <1>4 DEF StopNothing, StopMark, StopDone, StopTimeout, Erase
    <2>3. s \in Steps
      BY <2>2, ContinuationType
    <2> QED
      BY <1>1, <2>1, <2>2, <2>3, SimulateMove
  <1> QED
    BY <1>2, <1>3, <1>4 DEF StopStep

\* wait and maybeRestart.
LEMMA SimulateWait ==
    ASSUME TypeOK, JobLifecycle, NEW r \in Runs, WaitStep(r)
    PROVE  Simulates
  <1>1. CASE Reap(r)
    <2>1. at[r] = "waiting" /\ proc[r] \in Exited /\ job = r
      BY <1>1 DEF Reap, JobLifecycle
    <2>2. job' = NoRun /\ Goto(r, "reaped", job) /\ UNCHANGED <<stopping, proc>>
      BY <1>1, <2>1 DEF Reap, system
    <2>3. \A u \in Threads : at'[u] = IF u = r THEN "reaped" ELSE at[u]
      BY <2>2 DEF Goto, TypeOK
    <2>4. Alive' = Alive /\ Marked' = Marked /\ Retrying' = Retrying
      BY <2>1, <2>2, <2>3 DEF Alive, Marked, Retrying
    <2>5. job # NoRun /\ job \notin Alive
      BY <2>1, NoRunAssumption DEF Alive, Living, Exited
    <2> QED
      BY <2>2, <2>4, <2>5, Simulation
  <1>2. CASE Settle(r)
    <2>1. at[r] = "reaped" /\ held[r] = r /\ UNCHANGED <<job, stopping, proc>>
      BY <1>2 DEF Settle, supervisor, system, JobLifecycle
    <2>2. job # r /\ proc[r] \notin Living /\ r # NoRun
      BY <2>1, NoRunAssumption DEF JobLifecycle
    <2>3. CASE stopping[r]
      <3>1. Goto(r, "ended", NoRun)
        BY <1>2, <2>1, <2>2, <2>3 DEF Settle, NeedsRestart
      <3> QED
        BY <2>1, <3>1, SimulateMove
    <2>4. CASE ~stopping[r]
      <3>1. PICK s \in {"settled", "ended"} : Goto(r, s, NoRun)
        BY <1>2 DEF Settle
      <3> QED
        BY <2>1, <2>2, <2>4, <3>1, SimulateMove
    <2> QED
      BY <2>3, <2>4
  <1>3. CASE Consider(r) \/ Tally(r) \/ GiveUp(r) \/ Announce(r) \/ Wake(r)
    <2>1. at[r] \in RetrySteps /\ UNCHANGED <<job, stopping, proc>>
      BY <1>3 DEF Consider, Tally, GiveUp, Announce, Wake, supervisor, system
    <2>2. PICK s \in Steps : Goto(r, s, NoRun)
      BY <1>3 DEF Consider, Tally, GiveUp, Announce, Wake
    <2> QED
      BY <2>1, <2>2, SimulateMove
  <1> QED
    BY <1>1, <1>2, <1>3 DEF WaitStep

\* The process, its readers and monitor, and the recycling of slots.
LEMMA SimulateSide ==
    ASSUME TypeOK, JobLifecycle, NEW r \in Runs,
           Exit(r) \/ ReaderStep(r) \/ MonitorStep(r) \/ Retire(r)
    PROVE  Simulates
  <1>1. CASE Exit(r)
    <2>1. PICK outcome \in Exited : proc' = [proc EXCEPT ![r] = outcome]
      BY <1>1 DEF Exit
    <2>2. proc[r] \in Living /\ UNCHANGED <<job, stopping, at>>
      BY <1>1 DEF Exit, supervisor, threads
    <2>3. \A u \in Runs : proc'[u] = IF u = r THEN outcome ELSE proc[u]
      BY <2>1 DEF TypeOK
    <2>4. r \in Alive /\ Alive' = Alive \ {r}
      BY <2>2, <2>3 DEF Alive, Living, Exited
    <2>5. Marked' = Marked /\ Retrying' = Retrying
      BY <2>2 DEF Marked, Retrying
    <2> QED
      BY <2>2, <2>4, <2>5, Simulation
  <1>2. CASE ReaderStep(r) \/ MonitorStep(r)
    <2>1. proc' = Cancel(r) \/ proc' = proc
      BY <1>2 DEF ReaderStep, StderrLine, ReaderFails, ReaderEnds, system,
                  MonitorStep, WatchdogDecides, WatchdogKills, MonitorEnds
    <2>2. UNCHANGED <<job, stopping, at>>
      BY <1>2 DEF ReaderStep, StderrLine, ReaderFails, ReaderEnds, supervisor, threads,
                  MonitorStep, WatchdogDecides, WatchdogKills, MonitorEnds
    <2>3. Alive' = Alive
      BY <2>1, LifecycleCancel DEF Alive
    <2>4. Marked' = Marked /\ Retrying' = Retrying
      BY <2>2 DEF Marked, Retrying
    <2> QED
      BY <2>2, <2>3, <2>4, Simulation
  <1>3. CASE Retire(r)
    <2>1. /\ at[r] = "ended" /\ at' = [at EXCEPT ![r] = "idle"] /\ job' = job
          /\ proc' = [proc EXCEPT ![r] = "free"] /\ stopping' = [stopping EXCEPT ![r] = FALSE]
      BY <1>3 DEF Retire
    <2>2. \A u \in Runs : /\ at'[u] = IF u = r THEN "idle" ELSE at[u]
                          /\ proc'[u] = IF u = r THEN "free" ELSE proc[u]
                          /\ stopping'[u] = IF u = r THEN FALSE ELSE stopping[u]
      BY <2>1 DEF TypeOK
    <2>3. r # job /\ proc[r] \notin Living
      BY <2>1 DEF JobLifecycle
    <2>4. r \notin Alive \cup Retrying /\ Alive' = Alive /\ Retrying' = Retrying
      BY <2>1, <2>2, <2>3 DEF Alive, Retrying, Living
    <2>5. Marked' = Marked \ {r}
      BY <2>2 DEF Marked
    <2> QED
      BY <2>1, <2>3, <2>4, <2>5, Simulation
  <1> QED
    BY <1>1, <1>2, <1>3

LEMMA SimulateNext == TypeOK /\ JobLifecycle /\ [Next]_vars => Simulates
  <1> SUFFICES ASSUME TypeOK, JobLifecycle, [Next]_vars PROVE Simulates
    OBVIOUS
  <1>1. CASE Upsert \/ UNCHANGED vars
    <2>1. job' = job /\ Alive' = Alive /\ Marked' = Marked /\ Retrying' = Retrying
      BY <1>1 DEF Upsert, vars, supervisor, system, threads, Alive, Marked, Retrying
    <2> QED
      BY <2>1, Simulation
  <1> QED
    BY <1>1, SimulateStart, SimulateRequest, SimulateWait, SimulateSide DEF Next

\* The job manager implements Supervised, for any number of runs and requests: one
\* FFmpeg process at a time (the exists test of start), registered until it is dead
\* (wait), and no restart of a run that Stop has marked (manualStop of wait,
\* maybeRestart).
THEOREM StreamIsSupervised == Spec => IsSupervised
  <1>1. Init => Supervision!Init
    BY DEF Init, Supervision!Init, Living
  <1>2. TypeOK /\ JobLifecycle /\ [Next]_vars => [Supervision!Next]_(Supervision!vars)
    BY SimulateNext DEF Simulates
  <1> QED
    BY <1>1, <1>2, TypeCorrect, LifecycleCorrect, PTL DEF Spec, IsSupervised, Supervision!Spec
=============================================================================

------------------------- MODULE RelayManagerProofs -------------------------
(***************************************************************************)
(* Proofs about RelayManager, for any number of runs and requests and any  *)
(* restart limit.  TypeOK is inductive by itself, JobLifecycle with it;    *)
(* the safety properties and the refinement of Supervised follow,          *)
(* PidIsOwned and FlappingIsRetried by an induction of their own.          *)
(***************************************************************************)
EXTENDS RelayManager, TLAPS

\* The sets the type invariant is made of.
USE DEF Threads, Steps, StartSteps, RetrySteps, RequestSteps, Ops

StateType == [status : Statuses, pid : Runs \cup {NoRun}, flapping : BOOLEAN]

-----------------------------------------------------------------------------
(* Types *)

\* Moving a goroutine keeps the types of the goroutines' variables.
LEMMA EnterType ==
    ASSUME TypeOK, NEW t \in Threads, NEW s \in Steps, NEW o \in Ops,
           NEW r \in Runs \cup {NoRun}, Enter(t, s, o, r)
    PROVE  /\ at' \in [Threads -> Steps]
           /\ op' \in [Threads -> Ops]
           /\ held' \in [Threads -> Runs \cup {NoRun}]
  BY DEF TypeOK, Enter

\* The same for a goroutine that stays in its operation.
LEMMA GotoType ==
    ASSUME TypeOK, NEW t \in Threads, NEW s \in Steps, NEW r \in Runs \cup {NoRun}, Goto(t, s, r)
    PROVE  /\ at' \in [Threads -> Steps]
           /\ op' \in [Threads -> Ops]
           /\ held' \in [Threads -> Runs \cup {NoRun}]
  <1>1. op[t] \in Ops
    BY DEF TypeOK
  <1> QED
    BY <1>1, EnterType DEF Goto

\* The continuations of start and Stop are steps.
LEMMA ContinuationType ==
    \A t : AfterFailedStart(t) \in Steps /\ AfterStart(t) \in Steps /\ AfterStop(t) \in Steps
  BY DEF AfterFailedStart, AfterStart, AfterStop

\* The types hold at first.
LEMMA TypeInit == Init => TypeOK
  <1> SUFFICES ASSUME Init PROVE TypeOK
    OBVIOUS
  <1>1. PICK b \in Requests :
          /\ at = [t \in Threads |-> IF t = b /\ Enabled(cfg) THEN "start" ELSE "idle"]
          /\ op = [t \in Threads |-> IF t = b /\ Enabled(cfg) THEN "boot" ELSE "none"]
    BY DEF Init
  <1>2. at \in [Threads -> Steps] /\ op \in [Threads -> Ops]
    BY <1>1
  <1>3. state \in StateType
    BY DEF Init, DefaultState, StateType, Statuses
  <1>4. /\ stopping \in [Runs -> BOOLEAN]
        /\ killer \in [Runs -> BOOLEAN]
        /\ halted \in BOOLEAN
    BY DEF Init
  <1>5. /\ proc \in [Runs -> {"free", "exited"} \cup Living]
        /\ reader \in [Runs -> {"off", "fresh", "on"}]
        /\ held \in [Threads -> Runs \cup {NoRun}]
    BY DEF Init
  <1>6. tracker \in 0..(MaxRestarts + 1)
    BY MaxRestartsAssumption DEF Init
  <1>7. /\ cfg \in {"absent", "disabled", "enabled"}
        /\ job \in Runs \cup {NoRun}
        /\ known \subseteq Threads
    BY DEF Init
  <1> QED
    BY <1>2, <1>3, <1>4, <1>5, <1>6, <1>7 DEF TypeOK, StateType

\* The handlers keep the types (server.go and the store's changes).
LEMMA TypeRequest ==
    ASSUME TypeOK, NEW q \in Requests, Begin(q) \/ RequestStep(q)
    PROVE  TypeOK'
  <1>1. CASE Begin(q)
    <2>1. PICK o \in Handlers : Enter(q, FirstStep(o), o, NoRun) /\ halted' = (halted /\ o \in {"stop", "delete"})
      BY <1>1 DEF Begin
    <2>2. o \in Ops /\ FirstStep(o) \in Steps
      BY HandlersAssumption DEF FirstStep
    <2>3. halted' \in BOOLEAN
      BY <2>1
    <2>4. /\ at' \in [Threads -> Steps]
          /\ op' \in [Threads -> Ops]
          /\ held' \in [Threads -> Runs \cup {NoRun}]
      BY <2>1, <2>2, EnterType
    <2>5. UNCHANGED <<stored, supervisor, worker, known>>
      BY <1>1 DEF Begin
    <2> QED
      BY <2>3, <2>4, <2>5 DEF TypeOK, stored, supervisor, worker
  <1>2. CASE Check(q) \/ SaveRefused(q) \/ Apply(q) \/ Choose(q)
    <2>1. PICK s \in Steps, o \in Ops : Enter(q, s, o, NoRun)
      <3>1. op[q] \in Ops
        BY DEF TypeOK
      <3> QED
        BY <1>2, <3>1 DEF Check, SaveRefused, Apply, Choose, Goto
    <2>2. UNCHANGED <<stored, supervisor, worker, known, halted>>
      BY <1>2 DEF Check, SaveRefused, Apply, Choose
    <2>3. /\ at' \in [Threads -> Steps]
          /\ op' \in [Threads -> Ops]
          /\ held' \in [Threads -> Runs \cup {NoRun}]
      BY <2>1, EnterType
    <2> QED
      BY <2>1, <2>2, <2>3 DEF TypeOK, stored, supervisor, worker
  <1>3. CASE SaveRelay(q) \/ SaveAccess(q)
    <2>1. PICK s \in Steps, o \in Ops : Enter(q, s, o, NoRun)
      <3>1. op[q] \in Ops
        BY DEF TypeOK
      <3> QED
        BY <1>3, <3>1 DEF SaveRelay, SaveAccess, Goto
    <2>2. known' \subseteq Threads /\ cfg' \in {"absent", "disabled", "enabled"}
      BY <1>3 DEF SaveRelay, SaveAccess, stored, TypeOK
    <2>3. UNCHANGED <<state, supervisor, worker, halted>>
      BY <1>3 DEF SaveRelay, SaveAccess, stored
    <2>4. /\ at' \in [Threads -> Steps]
          /\ op' \in [Threads -> Ops]
          /\ held' \in [Threads -> Runs \cup {NoRun}]
      BY <2>1, EnterType
    <2> QED
      BY <2>1, <2>2, <2>3, <2>4 DEF TypeOK, supervisor, worker
  <1>4. CASE Erase(q)
    <2>1. state' \in StateType /\ cfg' \in {"absent", "disabled", "enabled"}
      <3>1. DefaultState \in StateType
        BY DEF DefaultState, StateType, Statuses
      <3> QED
        BY <1>4, <3>1 DEF Erase, TypeOK, StateType
    <2>2. /\ at' \in [Threads -> Steps]
          /\ op' \in [Threads -> Ops]
          /\ held' \in [Threads -> Runs \cup {NoRun}]
      BY <1>4, GotoType DEF Erase
    <2> QED
      BY <1>4, <2>1, <2>2 DEF Erase, TypeOK, StateType, supervisor, worker
  <1> QED
    BY <1>1, <1>2, <1>3, <1>4 DEF RequestStep

\* start keeps the types.
LEMMA TypeStart ==
    ASSUME TypeOK, NEW t \in Threads, StartStep(t)
    PROVE  TypeOK'
  <1>1. CASE ReadConfig(t) \/ ReadSecrets(t) \/ SpawnFails(t)
    <2>1. PICK s \in Steps : Goto(t, s, NoRun)
      BY <1>1, ContinuationType DEF ReadConfig, ReadSecrets, SpawnFails
    <2>2. UNCHANGED <<stored, supervisor, worker, halted>>
      BY <1>1 DEF ReadConfig, ReadSecrets, SpawnFails
    <2>3. known' \subseteq Threads
      BY <1>1 DEF ReadConfig, ReadSecrets, SpawnFails, TypeOK
    <2>4. /\ at' \in [Threads -> Steps]
          /\ op' \in [Threads -> Ops]
          /\ held' \in [Threads -> Runs \cup {NoRun}]
      BY <2>1, GotoType
    <2> QED
      BY <2>1, <2>2, <2>3, <2>4 DEF TypeOK, stored, supervisor, worker
  <1>2. CASE Spawn(t)
    BY <1>2, MaxRestartsAssumption DEF Spawn, TypeOK, Free, Living, stored
  <1>3. CASE Publish(t)
    <2>1. held[t] \in Runs \cup {NoRun}
      BY DEF TypeOK
    <2>2. state' \in StateType
      BY <1>3, <2>1 DEF Publish, Started, StateType, Statuses
    <2>3. at' \in [Threads -> Steps]
      BY <1>3, ContinuationType DEF Publish, TypeOK
    <2>4. reader' \in [Runs -> {"off", "fresh", "on"}]
      BY <1>3 DEF Publish, TypeOK
    <2> QED
      BY <1>3, <2>2, <2>3, <2>4 DEF Publish, TypeOK, StateType, supervisor
  <1> QED
    BY <1>1, <1>2, <1>3 DEF StartStep

\* Stop, Restart and StartEnabled keep the types.
LEMMA TypeStop ==
    ASSUME TypeOK, NEW q \in Requests, StopStep(q)
    PROVE  TypeOK'
  <1>1. CASE StopSignal(q)
    <2>1. job \in Runs
      BY <1>1 DEF StopSignal, TypeOK
    <2>2. tracker' \in 0..(MaxRestarts + 1) /\ stopping' \in [Runs -> BOOLEAN]
      BY <1>1, MaxRestartsAssumption DEF StopSignal, TypeOK
    <2>3. /\ at' \in [Threads -> Steps]
          /\ op' \in [Threads -> Ops]
          /\ held' \in [Threads -> Runs \cup {NoRun}]
      BY <1>1, <2>1, GotoType DEF StopSignal
    <2> QED
      BY <1>1, <2>1, <2>2, <2>3 DEF StopSignal, TypeOK, stored, worker
  <1>2. CASE StopNothing(q) \/ StopLookup(q)
    <2>1. PICK s \in Steps : Goto(q, s, NoRun)
      BY <1>2, ContinuationType DEF StopNothing, StopLookup
    <2>2. halted' \in BOOLEAN
      BY <1>2 DEF StopNothing, StopLookup, Answers, TypeOK
    <2>3. UNCHANGED <<stored, supervisor, worker, known>>
      BY <1>2 DEF StopNothing, StopLookup
    <2>4. /\ at' \in [Threads -> Steps]
          /\ op' \in [Threads -> Ops]
          /\ held' \in [Threads -> Runs \cup {NoRun}]
      BY <2>1, GotoType
    <2> QED
      BY <2>1, <2>2, <2>3, <2>4 DEF TypeOK, stored, supervisor, worker
  <1>3. CASE StopMark(q)
    <2>1. PICK s \in Steps : Goto(q, s, NoRun)
      BY <1>3, ContinuationType DEF StopMark
    <2>2. halted' \in BOOLEAN
      BY <1>3 DEF StopMark, Answers, TypeOK
    <2>3. state' \in StateType
      BY <1>3 DEF StopMark, TypeOK, StateType, Statuses
    <2>4. proc' \in [Runs -> {"free", "exited"} \cup Living] /\ killer' \in [Runs -> BOOLEAN]
      BY <1>3 DEF StopMark, TypeOK, Living
    <2>5. /\ at' \in [Threads -> Steps]
          /\ op' \in [Threads -> Ops]
          /\ held' \in [Threads -> Runs \cup {NoRun}]
      BY <2>1, GotoType
    <2> QED
      BY <1>3, <2>1, <2>2, <2>3, <2>4, <2>5 DEF StopMark, TypeOK, StateType, supervisor
  <1>4. CASE Poll(q) \/ PollTimeout(q) \/ BootFails(q)
    <2>1. PICK s \in Steps : Goto(q, s, NoRun)
      BY <1>4 DEF Poll, PollTimeout, BootFails
    <2>2. state' \in StateType
      BY <1>4 DEF Poll, PollTimeout, BootFails, stored, TypeOK, StateType, Statuses
    <2>3. UNCHANGED <<cfg, supervisor, worker, known, halted>>
      BY <1>4 DEF Poll, PollTimeout, BootFails, stored
    <2>4. /\ at' \in [Threads -> Steps]
          /\ op' \in [Threads -> Ops]
          /\ held' \in [Threads -> Runs \cup {NoRun}]
      BY <2>1, GotoType
    <2> QED
      BY <2>1, <2>2, <2>3, <2>4 DEF TypeOK, StateType, supervisor, worker
  <1> QED
    BY <1>1, <1>2, <1>3, <1>4 DEF StopStep

\* wait and retryFlapping keep the types.
LEMMA TypeWait ==
    ASSUME TypeOK, NEW r \in Runs, WaitStep(r)
    PROVE  TypeOK'
  <1>1. CASE Reap(r)
    <2>1. PICK s \in Steps : Goto(r, s, NoRun)
      BY <1>1 DEF Reap
    <2>2. known' \subseteq Threads /\ job' \in Runs \cup {NoRun}
      BY <1>1 DEF Reap, TypeOK
    <2>3. /\ at' \in [Threads -> Steps]
          /\ op' \in [Threads -> Ops]
          /\ held' \in [Threads -> Runs \cup {NoRun}]
      BY <2>1, GotoType
    <2> QED
      BY <1>1, <2>1, <2>2, <2>3 DEF Reap, TypeOK, stored, worker
  <1>2. CASE Settle(r) \/ Consider(r) \/ Announce(r) \/ GiveUp(r) \/ RetryFlapping(r) \/ RetryAnnounces(r)
    <2>1. PICK s \in Steps, o \in Ops : Enter(r, s, o, NoRun)
      <3>1. op[r] \in Ops
        BY DEF TypeOK
      <3> QED
        BY <1>2, <3>1 DEF Settle, Consider, Announce, GiveUp, RetryFlapping, RetryAnnounces, Goto
    <2>2. state' \in StateType
      <3>1. CASE Consider(r) \/ RetryFlapping(r)
        BY <3>1 DEF Consider, RetryFlapping, stored, TypeOK, StateType
      <3>2. CASE Settle(r)
        BY <3>2 DEF Settle, TypeOK, StateType, Statuses
      <3>3. CASE Announce(r) \/ GiveUp(r) \/ RetryAnnounces(r)
        BY <3>3 DEF Announce, GiveUp, RetryAnnounces, TypeOK, StateType, Statuses
      <3> QED
        BY <1>2, <3>1, <3>2, <3>3
    <2>3. UNCHANGED <<cfg, supervisor, worker, known, halted>>
      BY <1>2 DEF Settle, Consider, Announce, GiveUp, RetryFlapping, RetryAnnounces, stored, TypeOK
    <2>4. /\ at' \in [Threads -> Steps]
          /\ op' \in [Threads -> Ops]
          /\ held' \in [Threads -> Runs \cup {NoRun}]
      BY <2>1, EnterType
    <2> QED
      BY <2>1, <2>2, <2>3, <2>4 DEF TypeOK, StateType, supervisor, worker
  <1>3. CASE Tally(r) \/ RetryClears(r)
    <2>1. tracker' \in 0..(MaxRestarts + 1)
      BY <1>3, MaxRestartsAssumption, SwitchesAssumption DEF Tally, RetryClears, TypeOK
    <2>2. PICK s \in Steps : Goto(r, s, NoRun)
      BY <1>3 DEF Tally, RetryClears
    <2>3. UNCHANGED <<stored, job, stopping, worker, known, halted>>
      BY <1>3 DEF Tally, RetryClears
    <2>4. /\ at' \in [Threads -> Steps]
          /\ op' \in [Threads -> Ops]
          /\ held' \in [Threads -> Runs \cup {NoRun}]
      BY <2>2, GotoType
    <2> QED
      BY <2>1, <2>2, <2>3, <2>4 DEF TypeOK, stored, worker
  <1> QED
    BY <1>1, <1>2, <1>3 DEF WaitStep

\* The worker, its events and timers, and a recycled slot keep the types.
LEMMA TypeSide ==
    ASSUME TypeOK, NEW r \in Runs,
           EventStep(r) \/ ReaderEnds(r) \/ KillTimer(r) \/ Exit(r) \/ Retire(r)
    PROVE  TypeOK'
  <1>1. CASE RelayReady(r)
    BY <1>1 DEF RelayReady, TypeOK, Statuses, supervisor, threads
  <1>2. CASE MetricsStalled(r) \/ MetricsRestored(r)
    BY <1>2 DEF MetricsStalled, MetricsRestored, TypeOK, Statuses, supervisor, threads
  <1>3. CASE ReaderEnds(r)
    BY <1>3 DEF ReaderEnds, TypeOK, stored, supervisor, threads
  <1>4. CASE KillTimer(r)
    BY <1>4 DEF KillTimer, TypeOK, Living, stored, supervisor, threads
  <1>5. CASE Exit(r)
    BY <1>5 DEF Exit, TypeOK, stored, supervisor, threads
  <1>6. CASE Retire(r)
    BY <1>6 DEF Retire, TypeOK, stored
  <1> QED
    BY <1>1, <1>2, <1>3, <1>4, <1>5, <1>6 DEF EventStep

\* The types are kept by every step.
LEMMA TypeNext == TypeOK /\ [Next]_vars => TypeOK'
  <1> SUFFICES ASSUME TypeOK, [Next]_vars PROVE TypeOK'
    OBVIOUS
  <1>1. CASE UNCHANGED vars
    BY <1>1 DEF vars, TypeOK, stored, supervisor, worker, threads
  <1> QED
    BY <1>1, TypeStart, TypeRequest, TypeStop, TypeWait, TypeSide DEF Next

\* The variables of the manager and of the store keep their types in every
\* behaviour: TypeOK of the run relay_safety, for all constants.
THEOREM TypeCorrect == Spec => []TypeOK
  BY TypeInit, TypeNext, PTL DEF Spec

-----------------------------------------------------------------------------
(* The life of a job *)

\* The initial states have no job (NewManager).
LEMMA LifecycleInit == Init => JobLifecycle
  <1> SUFFICES ASSUME Init PROVE JobLifecycle
    OBVIOUS
  <1>1. \A t \in Threads : at[t] \in {"start", "idle"}
    BY DEF Init
  <1>2. \A t \in Runs : proc[t] = "free" /\ ~stopping[t]
    BY DEF Init
  <1>3. job = NoRun
    BY DEF Init
  <1> QED
    BY <1>1, <1>2, <1>3, NoRunAssumption DEF JobLifecycle, Living

\* A goroutine that leaves the registered jobs alone and does not enter a step
\* that JobLifecycle speaks of keeps it (most steps of start, Stop and wait).
LEMMA LifecycleMove ==
    ASSUME TypeOK, JobLifecycle,
           NEW t \in Threads, NEW s \in Steps, NEW o, Enter(t, s, o, NoRun),
           UNCHANGED <<job, stopping>>,
           \A u \in Runs : proc'[u] \in Living => proc[u] \in Living,
           at[t] \notin {"born", "waiting"},
           s \notin {"born", "waiting", "publish", "mark"},
           t \in Runs /\ stopping[t] => s = "ended"
    PROVE  JobLifecycle'
  <1>1. \A u \in Threads : /\ at'[u] = IF u = t THEN s ELSE at[u]
                           /\ held'[u] = IF u = t THEN NoRun ELSE held[u]
    BY DEF Enter, TypeOK
  <1> QED
    BY <1>1 DEF JobLifecycle

\* The handlers keep the life cycle (server.go and the store's changes).
LEMMA LifecycleRequest ==
    ASSUME TypeOK, JobLifecycle, NEW q \in Requests, Begin(q) \/ RequestStep(q)
    PROVE  JobLifecycle'
  <1>1. q \notin Runs
    BY ThreadsAssumption
  <1>2. at[q] \in {"idle", "check", "save", "apply", "choose", "erase"}
    BY DEF Begin, RequestStep, Check, SaveRefused, SaveRelay, SaveAccess, Apply, Choose, Erase
  <1>3. UNCHANGED <<job, stopping, proc>>
    BY DEF Begin, RequestStep, Check, SaveRefused, SaveRelay, SaveAccess, Apply, Choose, Erase,
           supervisor, worker
  <1>4. PICK s \in {"idle", "start", "signal", "check", "save", "apply", "choose", "erase"} :
          \E o : Enter(q, s, o, NoRun)
    <2>1. CASE Begin(q)
      <3>1. \A o \in Handlers : FirstStep(o) \in {"start", "signal", "check", "save"}
        BY HandlersAssumption DEF FirstStep
      <3> QED
        BY <2>1, <3>1 DEF Begin
    <2>2. CASE RequestStep(q)
      BY <2>2 DEF RequestStep, Check, SaveRefused, SaveRelay, SaveAccess, Apply, Choose, Erase, Goto
    <2> QED
      BY <2>1, <2>2
  <1>5. PICK o : Enter(q, s, o, NoRun)
    BY <1>4
  <1> QED
    BY <1>1, <1>2, <1>3, <1>5, LifecycleMove

\* Starting a worker keeps the life cycle (start).
LEMMA LifecycleStart ==
    ASSUME TypeOK, JobLifecycle, NEW t \in Threads, StartStep(t)
    PROVE  JobLifecycle'
  <1>1. CASE ReadConfig(t) \/ ReadSecrets(t) \/ SpawnFails(t)
    <2>1. at[t] \in {"start", "backoff", "secrets", "spawn"} /\ UNCHANGED <<job, stopping, proc>>
      BY <1>1 DEF ReadConfig, ReadSecrets, SpawnFails, supervisor, worker
    <2>2. PICK s \in {"secrets", "spawn", AfterFailedStart(t)} : Enter(t, s, op[t], NoRun)
      BY <1>1 DEF ReadConfig, ReadSecrets, SpawnFails, Goto
    <2>3. AfterFailedStart(t) \in {"bootfail", "refail", "idle", "ended"}
      BY DEF AfterFailedStart
    <2>4. t \in Runs => ~stopping[t]
      BY <2>1 DEF JobLifecycle
    <2> QED
      BY <2>1, <2>2, <2>3, <2>4, LifecycleMove
  <1>2. CASE Spawn(t)
    <2>1. PICK r \in Runs : /\ at[r] = "idle" /\ job' = r
                            /\ proc' = [proc EXCEPT ![r] = "alive"]
                            /\ at' = [at EXCEPT ![t] = "publish", ![r] = "born"]
                            /\ held' = [held EXCEPT ![t] = r]
      BY <1>2 DEF Spawn, Free
    <2>2. at[t] = "spawn" /\ job = NoRun /\ UNCHANGED stopping
      BY <1>2 DEF Spawn, NotRunning
    <2>3. \A u \in Threads : /\ at'[u] = IF u = r THEN "born" ELSE IF u = t THEN "publish" ELSE at[u]
                             /\ held'[u] = IF u = t THEN r ELSE held[u]
      BY <2>1, <2>2 DEF TypeOK
    <2>4. \A u \in Runs : at[u] \notin {"born", "waiting"}
      BY <2>2, NoRunAssumption DEF JobLifecycle
    <2>5. \A u \in Threads : at[u] # "publish"
      BY <2>4 DEF JobLifecycle
    <2>6. \A u \in Runs : proc'[u] = IF u = r THEN "alive" ELSE proc[u]
      BY <2>1 DEF TypeOK
    <2>7. job' = r /\ r # t /\ ~stopping[r] /\ (t \in Runs => ~stopping[t])
      BY <2>1, <2>2 DEF JobLifecycle
    <2>8. \A u \in Runs : job' = u <=> at'[u] \in {"born", "waiting"}
      BY <2>3, <2>4, <2>7
    <2>9. \A u \in Runs : proc'[u] \in Living => at'[u] \in {"born", "waiting"}
      BY <2>3, <2>4, <2>6 DEF JobLifecycle
    <2>10. \A u \in Runs : stopping'[u] => at'[u] \in {"born", "waiting", "reaped", "ended"}
      BY <2>2, <2>3, <2>7 DEF JobLifecycle
    <2>11. /\ \A u \in Threads : at'[u] = "publish" => held'[u] \in Runs /\ at'[held'[u]] = "born"
           /\ \A u, v \in Threads : at'[u] = "publish" /\ at'[v] = "publish" => u = v
      BY <2>3, <2>5, <2>7
    <2>12. \A q \in Requests : at'[q] = "mark" => held'[q] \in Runs
      BY <2>3 DEF JobLifecycle
    <2> QED
      BY <2>8, <2>9, <2>10, <2>11, <2>12 DEF JobLifecycle
  <1>3. CASE Publish(t)
    <2>1. at[t] = "publish" /\ held[t] \in Runs /\ at[held[t]] = "born"
      BY <1>3 DEF Publish, JobLifecycle
    <2>2. UNCHANGED <<job, stopping, proc>>
      BY <1>3 DEF Publish, supervisor
    <2>3. \A u \in Threads : /\ at'[u] = IF u = held[t] THEN "waiting"
                                         ELSE IF u = t THEN AfterStart(t) ELSE at[u]
                             /\ held'[u] = IF u = t THEN NoRun ELSE held[u]
      BY <1>3, <2>1 DEF Publish, TypeOK
    <2>4. AfterStart(t) \in {"idle", "ended"}
      BY DEF AfterStart
    <2>5. \A u \in Threads : at'[u] # "publish"
      BY <2>1, <2>3, <2>4 DEF JobLifecycle
    <2>6. t # held[t] /\ (t \in Runs => ~stopping[t])
      BY <2>1 DEF JobLifecycle
    <2> QED
      BY <2>1, <2>2, <2>3, <2>4, <2>5, <2>6 DEF JobLifecycle
  <1> QED
    BY <1>1, <1>2, <1>3 DEF StartStep

\* Stop, Restart and StartEnabled keep the life cycle.
LEMMA LifecycleStop ==
    ASSUME TypeOK, JobLifecycle, NEW q \in Requests, StopStep(q)
    PROVE  JobLifecycle'
  <1>1. q \notin Runs
    BY ThreadsAssumption
  <1>2. CASE StopSignal(q)
    <2>1. /\ job \in Runs /\ at[q] = "signal" /\ Enter(q, "mark", op[q], job)
          /\ stopping' = [stopping EXCEPT ![job] = TRUE]
          /\ UNCHANGED <<job, proc>>
      BY <1>2 DEF StopSignal, TypeOK, Goto, worker
    <2>2. \A u \in Threads : /\ at'[u] = IF u = q THEN "mark" ELSE at[u]
                             /\ held'[u] = IF u = q THEN job ELSE held[u]
      BY <2>1 DEF Enter, TypeOK
    <2>3. \A u \in Runs : stopping'[u] => stopping[u] \/ u = job
      BY <2>1 DEF TypeOK
    <2> QED
      BY <1>1, <2>1, <2>2, <2>3 DEF JobLifecycle
  <1>3. CASE StopMark(q)
    <2>1. at[q] = "mark" /\ UNCHANGED <<job, stopping>>
      BY <1>3 DEF StopMark, supervisor
    <2>2. \A u \in Runs : proc'[u] \in Living => proc[u] \in Living
      BY <1>3 DEF StopMark, TypeOK, Living
    <2>3. AfterStop(q) \in {"idle", "poll"} /\ Enter(q, AfterStop(q), op[q], NoRun)
      BY <1>3 DEF StopMark, Goto, AfterStop
    <2> QED
      BY <1>1, <2>1, <2>2, <2>3, LifecycleMove
  <1>4. CASE StopNothing(q) \/ StopLookup(q) \/ Poll(q) \/ PollTimeout(q) \/ BootFails(q)
    <2>1. at[q] \in {"signal", "lookup", "poll", "bootfail"} /\ UNCHANGED <<job, stopping, proc>>
      BY <1>4 DEF StopNothing, StopLookup, Poll, PollTimeout, BootFails, supervisor, worker
    <2>2. AfterStop(q) \in {"idle", "poll"}
      BY DEF AfterStop
    <2>3. PICK s \in {"idle", "start", "poll", "lookup"} : Enter(q, s, op[q], NoRun)
      BY <1>4, <2>2 DEF StopNothing, StopLookup, Poll, PollTimeout, BootFails, Goto
    <2> QED
      BY <1>1, <2>1, <2>3, LifecycleMove
  <1> QED
    BY <1>2, <1>3, <1>4 DEF StopStep

\* wait and retryFlapping keep the life cycle.
LEMMA LifecycleWait ==
    ASSUME TypeOK, JobLifecycle, NEW r \in Runs, WaitStep(r)
    PROVE  JobLifecycle'
  <1>1. CASE Reap(r)
    <2>1. job = r /\ at[r] = "waiting" /\ proc[r] = "exited"
      BY <1>1 DEF Reap, JobLifecycle
    <2>2. job' = NoRun /\ Enter(r, "reaped", op[r], NoRun) /\ UNCHANGED <<stopping, proc>>
      BY <1>1, <2>1 DEF Reap, Goto, worker
    <2>3. \A u \in Threads : /\ at'[u] = IF u = r THEN "reaped" ELSE at[u]
                             /\ held'[u] = IF u = r THEN NoRun ELSE held[u]
      BY <2>2 DEF Enter, TypeOK
    <2>4. proc[r] \notin Living
      BY <2>1 DEF Living
    <2> QED
      BY <2>1, <2>2, <2>3, <2>4, NoRunAssumption DEF JobLifecycle
  <1>2. CASE Settle(r)
    <2>1. at[r] = "reaped" /\ UNCHANGED <<job, stopping, proc>>
      BY <1>2 DEF Settle, supervisor, worker
    <2>2. PICK s \in {"settled", "ended"} : Enter(r, s, op[r], NoRun) /\ (stopping[r] => s = "ended")
      BY <1>2 DEF Settle, Restarts, Goto
    <2> QED
      BY <2>1, <2>2, LifecycleMove
  <1>3. CASE \/ Consider(r) \/ Tally(r) \/ Announce(r) \/ GiveUp(r)
             \/ RetryFlapping(r) \/ RetryClears(r) \/ RetryAnnounces(r)
    <2>1. at[r] \in RetrySteps /\ UNCHANGED <<job, stopping, proc>>
      BY <1>3 DEF Consider, Tally, Announce, GiveUp, RetryFlapping, RetryClears, RetryAnnounces,
                  supervisor, worker
    <2>2. PICK s \in RetrySteps \cup {"start", "ended"} : \E o : Enter(r, s, o, NoRun)
      BY <1>3 DEF Consider, Tally, Announce, GiveUp, RetryFlapping, RetryClears, RetryAnnounces, Goto
    <2>3. PICK o : Enter(r, s, o, NoRun)
      BY <2>2
    <2>4. ~stopping[r]
      BY <2>1 DEF JobLifecycle
    <2> QED
      BY <2>1, <2>3, <2>4, LifecycleMove
  <1> QED
    BY <1>1, <1>2, <1>3 DEF WaitStep

\* The worker, its events and timers, and a recycled slot keep the life cycle.
LEMMA LifecycleSide ==
    ASSUME TypeOK, JobLifecycle, NEW r \in Runs,
           EventStep(r) \/ ReaderEnds(r) \/ KillTimer(r) \/ Exit(r) \/ Retire(r)
    PROVE  JobLifecycle'
  <1>1. CASE EventStep(r) \/ ReaderEnds(r) \/ KillTimer(r) \/ Exit(r)
    <2>1. UNCHANGED <<job, stopping, at, held>>
      BY <1>1 DEF EventStep, RelayReady, MetricsStalled, MetricsRestored, ReaderEnds, KillTimer, Exit,
                  supervisor, threads
    <2>2. \A u \in Runs : proc'[u] \in Living => proc[u] \in Living
      BY <1>1 DEF EventStep, RelayReady, MetricsStalled, MetricsRestored, ReaderEnds, KillTimer, Exit,
                  TypeOK, Living
    <2> QED
      BY <2>1, <2>2 DEF JobLifecycle
  <1>2. CASE Retire(r)
    <2>1. /\ at[r] = "ended" /\ UNCHANGED <<job, held>>
          /\ \A u \in Threads : at'[u] = IF u = r THEN "idle" ELSE at[u]
          /\ \A u \in Runs : /\ proc'[u] = IF u = r THEN "free" ELSE proc[u]
                             /\ stopping'[u] = IF u = r THEN FALSE ELSE stopping[u]
      BY <1>2 DEF Retire, TypeOK
    <2> QED
      BY <2>1 DEF JobLifecycle, Living
  <1> QED
    BY <1>1, <1>2

\* The life cycle is kept by every step.
LEMMA LifecycleNext == TypeOK /\ JobLifecycle /\ [Next]_vars => JobLifecycle'
  <1> SUFFICES ASSUME TypeOK, JobLifecycle, [Next]_vars PROVE JobLifecycle'
    OBVIOUS
  <1>1. CASE UNCHANGED vars
    BY <1>1 DEF vars, JobLifecycle, supervisor, worker, threads
  <1> QED
    BY <1>1, LifecycleStart, LifecycleRequest, LifecycleStop, LifecycleWait, LifecycleSide DEF Next

\* Every job goes through its life in order in every behaviour, so the test
\* jobs[id] != job of wait is never true.
THEOREM LifecycleCorrect == Spec => []JobLifecycle
  BY TypeInit, TypeNext, LifecycleInit, LifecycleNext, PTL DEF Spec

\* One living worker at most, always the registered job: the exists test of
\* start and the delete in wait keep a worker from being lost.
THEOREM NoWorkerIsLost == Spec => []NoLostWorker
  <1>1. JobLifecycle => NoLostWorker
    BY DEF JobLifecycle, NoLostWorker
  <1> QED
    BY <1>1, LifecycleCorrect, PTL

\* A worker that Stop has marked reaches neither the restart nor the flapping
\* timer of wait.
THEOREM StopEndsRun == Spec => []StoppedStaysDown
  <1>1. JobLifecycle => StoppedStaysDown
    BY DEF JobLifecycle, StoppedStaysDown
  <1> QED
    BY <1>1, LifecycleCorrect, PTL

-----------------------------------------------------------------------------
(* The reported PID *)

\* At first no PID is reported.
LEMMA PidInit == Init => PidIsOwned
  BY NoRunAssumption DEF Init, DefaultState, PidIsOwned

\* A step keeps the property if it sets no PID and moves no run out of its wait.
LEMMA PidKept ==
    ASSUME PidIsOwned, state'.pid \in {state.pid, NoRun},
           \A u \in Runs : at[u] \in {"waiting", "reaped"} => at'[u] = at[u]
    PROVE  PidIsOwned'
  BY NoRunAssumption DEF PidIsOwned

\* The same for a step that moves one goroutine which is not in its wait.
LEMMA PidMove ==
    ASSUME TypeOK, PidIsOwned, NEW t \in Threads, NEW s, NEW o, NEW r, Enter(t, s, o, r),
           state'.pid \in {state.pid, NoRun}, at[t] \notin {"waiting", "reaped"}
    PROVE  PidIsOwned'
  <1>1. \A u \in Runs : at[u] \in {"waiting", "reaped"} => at'[u] = at[u]
    BY DEF Enter, TypeOK
  <1> QED
    BY <1>1, PidKept

\* Requests keep the PID owned (the handlers, Stop, Restart).
LEMMA PidRequest ==
    ASSUME TypeOK, PidIsOwned, NEW q \in Requests, Begin(q) \/ RequestStep(q) \/ StopStep(q)
    PROVE  PidIsOwned'
  <1>1. q \notin Runs
    BY ThreadsAssumption
  <1>2. PICK s, o, r : Enter(q, s, o, r)
    BY DEF Begin, RequestStep, Check, SaveRefused, SaveRelay, SaveAccess, Apply, Choose, Erase,
           StopStep, StopSignal, StopNothing, StopLookup, StopMark, Poll, PollTimeout, BootFails, Goto
  <1>3. \A u \in Runs : at'[u] = at[u]
    BY <1>1, <1>2 DEF Enter, TypeOK
  <1>4. state'.pid \in {state.pid, NoRun}
    <2>1. CASE Begin(q) \/ (RequestStep(q) /\ ~Erase(q))
      BY <2>1 DEF Begin, RequestStep, Check, SaveRefused, SaveRelay, SaveAccess, Apply, Choose, stored
    <2>2. CASE Erase(q)
      BY <2>2 DEF Erase, DefaultState
    <2>3. CASE StopMark(q) \/ BootFails(q)
      BY <2>3 DEF StopMark, BootFails, TypeOK
    <2>4. CASE StopSignal(q) \/ StopNothing(q) \/ StopLookup(q) \/ Poll(q) \/ PollTimeout(q)
      BY <2>4 DEF StopSignal, StopNothing, StopLookup, Poll, PollTimeout, stored
    <2> QED
      BY <2>1, <2>2, <2>3, <2>4 DEF StopStep
  <1> QED
    BY <1>3, <1>4, PidKept

\* start keeps the PID owned: it publishes the PID of a run that waits.
LEMMA PidStart ==
    ASSUME TypeOK, JobLifecycle, PidIsOwned, NEW t \in Threads, StartStep(t)
    PROVE  PidIsOwned'
  <1>1. CASE ReadConfig(t) \/ ReadSecrets(t) \/ SpawnFails(t)
    <2>1. at[t] \notin {"waiting", "reaped"} /\ UNCHANGED state
      BY <1>1 DEF ReadConfig, ReadSecrets, SpawnFails, stored
    <2>2. PICK s : Enter(t, s, op[t], NoRun)
      BY <1>1 DEF ReadConfig, ReadSecrets, SpawnFails, Goto
    <2> QED
      BY <2>1, <2>2, PidMove
  <1>2. CASE Spawn(t)
    <2>1. PICK r \in Runs : at[r] = "idle" /\ at' = [at EXCEPT ![t] = "publish", ![r] = "born"]
      BY <1>2 DEF Spawn, Free
    <2>2. at[t] = "spawn" /\ UNCHANGED state
      BY <1>2 DEF Spawn, stored
    <2>3. \A u \in Runs : at[u] \in {"waiting", "reaped"} => at'[u] = at[u]
      BY <2>1, <2>2 DEF TypeOK
    <2> QED
      BY <2>2, <2>3, PidKept
  <1>3. CASE Publish(t)
    <2>1. held[t] \in Runs /\ at[held[t]] = "born" /\ at[t] = "publish"
      BY <1>3 DEF Publish, JobLifecycle
    <2>2. state'.pid = held[t] /\ at'[held[t]] = "waiting"
      BY <1>3, <2>1 DEF Publish, Started, TypeOK
    <2> QED
      BY <2>1, <2>2 DEF PidIsOwned
  <1> QED
    BY <1>1, <1>2, <1>3 DEF StartStep

\* wait clears the PID when it writes the result of its run.
LEMMA PidWait ==
    ASSUME TypeOK, JobLifecycle, PidIsOwned, NEW r \in Runs, WaitStep(r)
    PROVE  PidIsOwned'
  <1>1. CASE Reap(r)
    <2>1. UNCHANGED state /\ job = r
      BY <1>1 DEF Reap, stored, JobLifecycle
    <2>2. \A u \in Runs : at'[u] = IF u = r THEN "reaped" ELSE at[u]
      BY <1>1, <2>1 DEF Reap, Goto, Enter, TypeOK
    <2> QED
      BY <2>1, <2>2 DEF PidIsOwned
  <1>2. CASE Settle(r)
    <2>1. state'.pid = NoRun
      BY <1>2 DEF Settle, TypeOK
    <2> QED
      BY <2>1, NoRunAssumption DEF PidIsOwned
  <1>3. CASE \/ Consider(r) \/ Tally(r) \/ Announce(r) \/ GiveUp(r)
             \/ RetryFlapping(r) \/ RetryClears(r) \/ RetryAnnounces(r)
    <2>1. at[r] \notin {"waiting", "reaped"}
      BY <1>3 DEF Consider, Tally, Announce, GiveUp, RetryFlapping, RetryClears, RetryAnnounces
    <2>2. PICK s, o : Enter(r, s, o, NoRun)
      BY <1>3 DEF Consider, Tally, Announce, GiveUp, RetryFlapping, RetryClears, RetryAnnounces, Goto
    <2>3. state'.pid = state.pid
      BY <1>3 DEF Consider, Tally, Announce, GiveUp, RetryFlapping, RetryClears, RetryAnnounces, stored, TypeOK
    <2> QED
      BY <2>1, <2>2, <2>3, PidMove
  <1> QED
    BY <1>1, <1>2, <1>3 DEF WaitStep

\* The worker and its late events keep the PID owned, and so does a recycled slot.
LEMMA PidSide ==
    ASSUME TypeOK, PidIsOwned, NEW r \in Runs,
           EventStep(r) \/ ReaderEnds(r) \/ KillTimer(r) \/ Exit(r) \/ Retire(r)
    PROVE  PidIsOwned'
  <1>1. state'.pid = state.pid
    BY DEF EventStep, RelayReady, MetricsStalled, MetricsRestored, ReaderEnds, KillTimer, Exit, Retire,
           stored, TypeOK
  <1>2. \A u \in Runs : at[u] \in {"waiting", "reaped"} => at'[u] = at[u]
    BY DEF EventStep, RelayReady, MetricsStalled, MetricsRestored, ReaderEnds, KillTimer, Exit, Retire,
           threads, TypeOK
  <1> QED
    BY <1>1, <1>2, PidKept

\* The PID stays owned in every step.
LEMMA PidNext == TypeOK /\ JobLifecycle /\ PidIsOwned /\ [Next]_vars => PidIsOwned'
  <1> SUFFICES ASSUME TypeOK, JobLifecycle, PidIsOwned, [Next]_vars PROVE PidIsOwned'
    OBVIOUS
  <1>1. CASE UNCHANGED vars
    BY <1>1 DEF vars, stored, threads, PidIsOwned
  <1> QED
    BY <1>1, PidStart, PidRequest, PidWait, PidSide DEF Next

\* A reported PID belongs to a run whose wait has not written its result,
\* however late the events of older workers are applied.
THEOREM PidNeverOutlives == Spec => []PidIsOwned
  BY TypeCorrect, LifecycleCorrect, PidInit, PidNext, PTL DEF Spec

-----------------------------------------------------------------------------
(* Retries: a flapping relay is not forgotten *)

\* The goroutines that will change the state of a flapping relay.
Unsettled == {"reaped", "cooling", "clear", "revive"}

\* A step that lets the goroutines of Unsettled go on, leaves the map of jobs
\* alone and writes no other state than before keeps the retry.
LEMMA RetryKept ==
    ASSUME FlappingIsRetried, Enabled(cfg') => Enabled(cfg),
           state'.status = "flapping" => state.status = "flapping",
           job # NoRun => job' # NoRun,
           \A u \in Runs : at[u] \in Unsettled => at'[u] = at[u]
    PROVE  FlappingIsRetried'
  BY DEF FlappingIsRetried, Unsettled

\* A request keeps the retry: it writes no "flapping" and moves no run.
LEMMA RetryRequest ==
    ASSUME TypeOK, FlappingIsRetried, Enabled(cfg') => Enabled(cfg),
           NEW q \in Requests, Begin(q) \/ RequestStep(q) \/ StopStep(q)
    PROVE  FlappingIsRetried'
  <1>1. q \notin Runs
    BY ThreadsAssumption
  <1>2. PICK s, o, r : Enter(q, s, o, r)
    BY DEF Begin, RequestStep, Check, SaveRefused, SaveRelay, SaveAccess, Apply, Choose, Erase,
           StopStep, StopSignal, StopNothing, StopLookup, StopMark, Poll, PollTimeout, BootFails, Goto
  <1>3. \A u \in Runs : at'[u] = at[u]
    BY <1>1, <1>2 DEF Enter, TypeOK
  <1>4. UNCHANGED job
    BY DEF Begin, RequestStep, Check, SaveRefused, SaveRelay, SaveAccess, Apply, Choose, Erase,
           StopStep, StopSignal, StopNothing, StopLookup, StopMark, Poll, PollTimeout, BootFails, supervisor
  <1>5. state'.status = "flapping" => state.status = "flapping"
    <2>1. CASE Begin(q) \/ (RequestStep(q) /\ ~Erase(q))
      BY <2>1 DEF Begin, RequestStep, Check, SaveRefused, SaveRelay, SaveAccess, Apply, Choose, stored
    <2>2. CASE Erase(q)
      BY <2>2 DEF Erase, DefaultState
    <2>3. CASE StopMark(q) \/ BootFails(q)
      BY <2>3 DEF StopMark, BootFails, TypeOK
    <2>4. CASE StopSignal(q) \/ StopNothing(q) \/ StopLookup(q) \/ Poll(q) \/ PollTimeout(q)
      BY <2>4 DEF StopSignal, StopNothing, StopLookup, Poll, PollTimeout, stored
    <2> QED
      BY <2>1, <2>2, <2>3, <2>4 DEF StopStep
  <1> QED
    BY <1>3, <1>4, <1>5, RetryKept

\* start keeps the retry: no goroutine of Unsettled is in start, and it is a
\* worker that a started relay has.
LEMMA RetryStart ==
    ASSUME TypeOK, JobLifecycle, FlappingIsRetried, NEW t \in Threads, StartStep(t)
    PROVE  FlappingIsRetried'
  <1>1. CASE ReadConfig(t) \/ ReadSecrets(t) \/ SpawnFails(t)
    <2>1. at[t] \notin Unsettled /\ UNCHANGED <<cfg, state, job>>
      BY <1>1 DEF ReadConfig, ReadSecrets, SpawnFails, stored, supervisor, Unsettled
    <2>2. PICK s : Enter(t, s, op[t], NoRun)
      BY <1>1 DEF ReadConfig, ReadSecrets, SpawnFails, Goto
    <2>3. \A u \in Runs : at[u] \in Unsettled => at'[u] = at[u]
      BY <2>1, <2>2 DEF Enter, TypeOK
    <2> QED
      BY <2>1, <2>3, RetryKept
  <1>2. CASE Spawn(t)
    BY <1>2, NoRunAssumption DEF Spawn, Free, FlappingIsRetried
  <1>3. CASE Publish(t)
    BY <1>3 DEF Publish, Started, FlappingIsRetried
  <1> QED
    BY <1>1, <1>2, <1>3 DEF StartStep

\* wait and retryFlapping hand the retry on: a job that is removed is settled,
\* who writes "flapping" sets the timer, and a timer that finds the relay
\* flapping goes on until it has written another state.
LEMMA RetryWait ==
    ASSUME TypeOK, JobLifecycle, FlappingIsRetried, NEW r \in Runs, WaitStep(r)
    PROVE  FlappingIsRetried'
  <1>1. CASE Reap(r)
    <2>1. job = r
      BY <1>1 DEF Reap, JobLifecycle
    <2>2. at'[r] = "reaped"
      BY <1>1, <2>1 DEF Reap, Goto, Enter, TypeOK
    <2> QED
      BY <2>2 DEF FlappingIsRetried
  <1>2. CASE Settle(r) \/ Announce(r) \/ RetryAnnounces(r)
    <2>1. state'.status # "flapping"
      BY <1>2 DEF Settle, Announce, RetryAnnounces, TypeOK
    <2> QED
      BY <2>1 DEF FlappingIsRetried
  <1>3. CASE GiveUp(r)
    <2>1. at'[r] = "cooling"
      BY <1>3 DEF GiveUp, Enter, TypeOK
    <2> QED
      BY <2>1 DEF FlappingIsRetried
  <1>4. CASE Consider(r) \/ Tally(r)
    <2>1. at[r] \notin Unsettled /\ UNCHANGED <<cfg, state, job>>
      BY <1>4 DEF Consider, Tally, stored, supervisor, Unsettled
    <2>2. PICK s, o : Enter(r, s, o, NoRun)
      BY <1>4 DEF Consider, Tally, Goto
    <2>3. \A u \in Runs : at[u] \in Unsettled => at'[u] = at[u]
      BY <2>1, <2>2 DEF Enter, TypeOK
    <2> QED
      BY <2>1, <2>3, RetryKept
  <1>5. CASE RetryFlapping(r)
    <2>1. UNCHANGED <<cfg, state>>
      BY <1>5 DEF RetryFlapping, stored
    <2>2. Enabled(cfg) /\ state.status = "flapping" => at'[r] = "clear"
      BY <1>5 DEF RetryFlapping, Goto, Enter, TypeOK
    <2> QED
      BY <2>1, <2>2 DEF FlappingIsRetried
  <1>6. CASE RetryClears(r)
    <2>1. UNCHANGED job
      BY <1>6 DEF RetryClears
    <2>2. job = NoRun => at'[r] = "revive"
      BY <1>6 DEF RetryClears, Goto, Enter, TypeOK
    <2> QED
      BY <2>1, <2>2 DEF FlappingIsRetried
  <1> QED
    BY <1>1, <1>2, <1>3, <1>4, <1>5, <1>6 DEF WaitStep

\* The worker, its late events and a recycled slot keep the retry: no event of
\* a worker makes a relay flapping.
LEMMA RetrySide ==
    ASSUME TypeOK, FlappingIsRetried, NEW r \in Runs,
           EventStep(r) \/ ReaderEnds(r) \/ KillTimer(r) \/ Exit(r) \/ Retire(r)
    PROVE  FlappingIsRetried'
  <1>1. UNCHANGED <<cfg, job>>
    BY DEF EventStep, RelayReady, MetricsStalled, MetricsRestored, ReaderEnds, KillTimer, Exit, Retire,
           stored, supervisor
  <1>2. state'.status = "flapping" => state.status = "flapping"
    BY DEF EventStep, RelayReady, MetricsStalled, MetricsRestored, ReaderEnds, KillTimer, Exit, Retire,
           stored, TypeOK
  <1>3. \A u \in Runs : at[u] \in Unsettled => at'[u] = at[u]
    BY DEF EventStep, RelayReady, MetricsStalled, MetricsRestored, ReaderEnds, KillTimer, Exit, Retire,
           threads, TypeOK, Unsettled
  <1> QED
    BY <1>1, <1>2, <1>3, RetryKept

\* Only a step that enables the relay can leave a flapping one without a retry.
LEMMA RetryNext ==
    ASSUME TypeOK, JobLifecycle, FlappingIsRetried, [Next]_vars, Enabled(cfg') => Enabled(cfg)
    PROVE  FlappingIsRetried'
  <1>1. CASE UNCHANGED vars
    BY <1>1 DEF vars, stored, supervisor, threads, FlappingIsRetried
  <1> QED
    BY <1>1, RetryStart, RetryRequest, RetryWait, RetrySide DEF Next

\* Whatever the handlers, timers and workers do, no step but saving a disabled
\* relay as enabled takes the retry from a flapping relay (retryFlapping gives
\* up for good when it finds the relay disabled).
THEOREM RetryOutlivesAllButEnabling ==
    Spec => [][FlappingIsRetried /\ (Enabled(cfg') => Enabled(cfg)) => FlappingIsRetried']_vars
  <1>1. TypeOK /\ JobLifecycle /\ [Next]_vars
        => [FlappingIsRetried /\ (Enabled(cfg') => Enabled(cfg)) => FlappingIsRetried']_vars
    BY RetryNext
  <1> QED
    BY <1>1, TypeCorrect, LifecycleCorrect, PTL DEF Spec

\* Where nobody saves the relay no request is on its way to save it.
NeverSaved ==
    \A q \in Requests : op[q] \notin {"upsert", "store"} /\ (at[q] = "check" => op[q] = "delete")

\* No request is on its way to save the relay at first.
LEMMA NeverSavedInit == Init => NeverSaved
  BY ThreadsAssumption DEF Init, NeverSaved

\* Moving goroutine t keeps NeverSaved when t itself does.
LEMMA NeverSavedMove ==
    ASSUME TypeOK, NeverSaved, NEW t \in Threads, NEW s, NEW o, NEW r, Enter(t, s, o, r),
           t \in Requests => s \in {"idle", "ended"} \/ (o \notin {"upsert", "store"} /\ (s = "check" => o = "delete"))
    PROVE  NeverSaved'
  BY DEF Enter, NeverSaved, TypeOK

\* A handler other than upsert does not lead to UpsertRelay.
LEMMA NeverSavedNext ==
    ASSUME "upsert" \notin Handlers, TypeOK, NeverSaved, [Next]_vars
    PROVE  NeverSaved' /\ (Enabled(cfg') => Enabled(cfg))
  <1>1. CASE UNCHANGED vars
    BY <1>1 DEF vars, stored, threads, NeverSaved
  <1>2. ASSUME NEW t \in Threads, StartStep(t)
        PROVE  NeverSaved' /\ UNCHANGED cfg
    <2>1. CASE ReadConfig(t) \/ ReadSecrets(t) \/ SpawnFails(t)
      <3>1. PICK s : Enter(t, s, op[t], NoRun) /\ s # "check"
        BY <2>1 DEF ReadConfig, ReadSecrets, SpawnFails, Goto, AfterFailedStart
      <3> QED
        BY <2>1, <3>1, NeverSavedMove DEF NeverSaved, ReadConfig, ReadSecrets, SpawnFails, stored
    <2>2. CASE Spawn(t)
      <3>1. PICK r \in Runs : at' = [at EXCEPT ![t] = "publish", ![r] = "born"]
        BY <2>2 DEF Spawn, Free
      <3>2. UNCHANGED <<op, cfg>>
        BY <2>2 DEF Spawn, stored
      <3> QED
        BY <3>1, <3>2 DEF NeverSaved, TypeOK
    <2>3. CASE Publish(t)
      <3>1. \A q \in Requests : at'[q] = "check" => at[q] = "check" /\ q # t
        BY <2>3 DEF Publish, AfterStart, TypeOK
      <3>2. op' = [op EXCEPT ![t] = "none"] /\ UNCHANGED cfg
        BY <2>3 DEF Publish
      <3> QED
        BY <3>1, <3>2 DEF NeverSaved, TypeOK
    <2> QED
      BY <1>2, <2>1, <2>2, <2>3 DEF StartStep
  <1>3. ASSUME NEW q \in Requests, Begin(q)
        PROVE  NeverSaved' /\ UNCHANGED cfg
    <2>1. PICK o \in Handlers : Enter(q, FirstStep(o), o, NoRun)
      BY <1>3 DEF Begin
    <2>2. o \notin {"upsert", "store"} /\ (FirstStep(o) = "check" => o = "delete")
      BY HandlersAssumption DEF FirstStep
    <2> QED
      BY <1>3, <2>1, <2>2, NeverSavedMove DEF Begin, stored
  <1>4. ASSUME NEW q \in Requests, RequestStep(q)
        PROVE  NeverSaved' /\ (Enabled(cfg') => Enabled(cfg))
    <2>1. ~SaveRelay(q)
      BY DEF SaveRelay, NeverSaved
    <2>2. PICK s, o : Enter(q, s, o, NoRun) /\ s # "check" /\ o \notin {"upsert", "store"}
      BY <1>4, <2>1 DEF RequestStep, Check, SaveRefused, SaveAccess, Apply, Choose, Erase, Goto, NeverSaved
    <2>3. Enabled(cfg') => Enabled(cfg)
      BY <1>4, <2>1 DEF RequestStep, Check, SaveRefused, SaveAccess, Apply, Choose, Erase, stored, Enabled
    <2> QED
      BY <2>2, <2>3, NeverSavedMove
  <1>5. ASSUME NEW q \in Requests, StopStep(q)
        PROVE  NeverSaved' /\ UNCHANGED cfg
    <2>1. PICK s, r : Enter(q, s, op[q], r) /\ s # "check"
      BY <1>5 DEF StopStep, StopSignal, StopNothing, StopLookup, StopMark, Poll, PollTimeout, BootFails,
                  AfterStop, Goto
    <2>2. UNCHANGED cfg
      BY <1>5 DEF StopStep, StopSignal, StopNothing, StopLookup, StopMark, Poll, PollTimeout, BootFails, stored
    <2> QED
      BY <2>1, <2>2, NeverSavedMove DEF NeverSaved
  <1>6. ASSUME NEW r \in Runs, WaitStep(r)
        PROVE  NeverSaved' /\ UNCHANGED cfg
    <2>1. PICK s, o : Enter(r, s, o, NoRun)
      BY <1>6 DEF WaitStep, Reap, Settle, Consider, Tally, Announce, GiveUp, RetryFlapping, RetryClears,
                  RetryAnnounces, Goto
    <2>2. UNCHANGED cfg
      BY <1>6 DEF WaitStep, Reap, Settle, Consider, Tally, Announce, GiveUp, RetryFlapping, RetryClears,
                  RetryAnnounces, stored
    <2>3. r \notin Requests
      BY ThreadsAssumption
    <2> QED
      BY <2>1, <2>2, <2>3, NeverSavedMove
  <1>7. ASSUME NEW r \in Runs, EventStep(r) \/ ReaderEnds(r) \/ KillTimer(r) \/ Exit(r) \/ Retire(r)
        PROVE  NeverSaved' /\ UNCHANGED cfg
    <2>1. UNCHANGED <<cfg, op>>
      BY <1>7 DEF EventStep, RelayReady, MetricsStalled, MetricsRestored, ReaderEnds, KillTimer, Exit, Retire,
                  stored, threads
    <2>2. \A q \in Requests : at'[q] = at[q]
      BY <1>7, ThreadsAssumption DEF EventStep, RelayReady, MetricsStalled, MetricsRestored, ReaderEnds,
                  KillTimer, Exit, Retire, threads, TypeOK
    <2> QED
      BY <2>1, <2>2 DEF NeverSaved
  <1> QED
    BY <1>1, <1>2, <1>3, <1>4, <1>5, <1>6, <1>7 DEF Next

\* The retry is there at first: no relay is flapping.
LEMMA RetryInit == Init => FlappingIsRetried
  BY DEF Init, DefaultState, FlappingIsRetried

\* As long as nobody saves the relay (starts, stops, restarts, key rotations,
\* client changes and a delete are all allowed) a flapping relay that is still
\* enabled has a worker, or a goroutine that will change its state.
THEOREM FlappingRelaysRetry == "upsert" \notin Handlers => (Spec => []FlappingIsRetried)
  <1> SUFFICES ASSUME "upsert" \notin Handlers PROVE Spec => []FlappingIsRetried
    OBVIOUS
  <1>1. TypeOK /\ NeverSaved /\ [Next]_vars => NeverSaved' /\ (Enabled(cfg') => Enabled(cfg))
    BY NeverSavedNext
  <1>2. TypeOK /\ JobLifecycle /\ NeverSaved /\ FlappingIsRetried /\ [Next]_vars => FlappingIsRetried'
    BY <1>1, RetryNext
  <1> QED
    BY <1>1, <1>2, NeverSavedInit, RetryInit, TypeCorrect, LifecycleCorrect, PTL DEF Spec

-----------------------------------------------------------------------------
(* The abstract supervisor *)

\* What the refinement mapping takes from the state.
Alive == {r \in Runs : proc[r] \in Living}
Marked == {r \in Runs : stopping[r]}
Retrying == {r \in Runs : at[r] \in RetrySteps \cup StartSteps}

\* The mapping takes a step of Supervised, or stutters.
Simulates == [Supervision!Next]_(Supervision!vars)

\* The steps of Supervised in terms of the mapping.
LEMMA Simulation ==
    /\ job' = job /\ Alive' = Alive /\ Marked' = Marked /\ Retrying' = Retrying => Simulates
    /\ \A r \in Runs :
          /\ job = NoRun /\ Alive = {} /\ r \notin Marked \cup Retrying
          /\ job' = r /\ Alive' = {r} /\ Marked' = Marked /\ Retrying' = Retrying
          => Simulates
    /\ /\ job # NoRun /\ Marked' = Marked \cup {job}
       /\ job' = job /\ Alive' = Alive /\ Retrying' = Retrying
       => Simulates
    /\ \A r \in Runs :
          /\ r \in Alive /\ Alive' = Alive \ {r}
          /\ job' = job /\ Marked' = Marked /\ Retrying' = Retrying
          => Simulates
    /\ /\ job # NoRun /\ job \notin Alive /\ job' = NoRun
       /\ Alive' = Alive /\ Marked' = Marked /\ Retrying' = Retrying
       => Simulates
    /\ \A r \in Runs :
          /\ r # job /\ r \notin Alive \cup Marked /\ Retrying' = Retrying \cup {r}
          /\ job' = job /\ Alive' = Alive /\ Marked' = Marked
          => Simulates
    /\ \A r \in Runs :
          /\ r \in Retrying /\ Retrying' = Retrying \ {r}
          /\ job' = job /\ Alive' = Alive /\ Marked' = Marked
          => Simulates
    /\ \A r \in Runs :
          /\ r # job /\ r \notin Alive \cup Retrying /\ Marked' = Marked \ {r}
          /\ job' = job /\ Alive' = Alive /\ Retrying' = Retrying
          => Simulates
  BY Zenon
  DEF Simulates, Supervision!Next, Supervision!vars, Supervision!Start, Supervision!Stop,
      Supervision!Die, Supervision!Release, Supervision!Retry, Supervision!Rest,
      Supervision!Forget, Alive, Marked, Retrying

\* A goroutine moves and nothing else that the mapping looks at changes.
LEMMA SimulateMove ==
    ASSUME TypeOK, NEW t \in Threads, NEW s \in Steps, NEW o, NEW x, Enter(t, s, o, x),
           UNCHANGED <<job, stopping>>, \A r \in Runs : proc'[r] \in Living <=> proc[r] \in Living,
           t \in Runs => \/ at[t] \in RetrySteps \cup StartSteps
                         \/ s \notin RetrySteps \cup StartSteps
                         \/ t # job /\ proc[t] \notin Living /\ ~stopping[t]
    PROVE  Simulates
  <1>1. \A u \in Threads : at'[u] = IF u = t THEN s ELSE at[u]
    BY DEF Enter, TypeOK
  <1>2. job' = job /\ Alive' = Alive /\ Marked' = Marked
    BY DEF Alive, Marked
  <1>3. CASE t \notin Runs
    <2>1. Retrying' = Retrying
      BY <1>1, <1>3 DEF Retrying
    <2> QED
      BY <1>2, <2>1, Simulation
  <1>4. CASE t \in Runs /\ at[t] \in RetrySteps \cup StartSteps
    <2>1. CASE s \in RetrySteps \cup StartSteps
      <3>1. Retrying' = Retrying
        BY <1>1, <1>4, <2>1 DEF Retrying
      <3> QED
        BY <1>2, <3>1, Simulation
    <2>2. CASE s \notin RetrySteps \cup StartSteps
      <3>1. t \in Retrying /\ Retrying' = Retrying \ {t}
        BY <1>1, <1>4, <2>2 DEF Retrying
      <3> QED
        BY <1>2, <1>4, <3>1, Simulation
    <2> QED
      BY <2>1, <2>2
  <1>5. CASE t \in Runs /\ at[t] \notin RetrySteps \cup StartSteps
    <2>1. CASE s \notin RetrySteps \cup StartSteps
      <3>1. Retrying' = Retrying
        BY <1>1, <1>5, <2>1 DEF Retrying
      <3> QED
        BY <1>2, <3>1, Simulation
    <2>2. CASE s \in RetrySteps \cup StartSteps
      <3>1. Retrying' = Retrying \cup {t}
        BY <1>1, <1>5, <2>2 DEF Retrying
      <3>2. t # job /\ t \notin Alive \cup Marked
        BY <1>5, <2>2 DEF Alive, Marked
      <3> QED
        BY <1>2, <1>5, <3>1, <3>2, Simulation
    <2> QED
      BY <2>1, <2>2
  <1> QED
    BY <1>3, <1>4, <1>5

\* start.
LEMMA SimulateStart ==
    ASSUME TypeOK, JobLifecycle, NEW t \in Threads, StartStep(t)
    PROVE  Simulates
  <1>1. CASE ReadConfig(t) \/ ReadSecrets(t) \/ SpawnFails(t)
    <2>1. at[t] \in RetrySteps \cup StartSteps /\ UNCHANGED <<job, stopping, proc>>
      BY <1>1 DEF ReadConfig, ReadSecrets, SpawnFails, supervisor, worker
    <2>2. PICK s \in {"secrets", "spawn", AfterFailedStart(t)} : Enter(t, s, op[t], NoRun)
      BY <1>1 DEF ReadConfig, ReadSecrets, SpawnFails, Goto
    <2>3. s \in Steps
      BY <2>2, ContinuationType
    <2> QED
      BY <2>1, <2>2, <2>3, SimulateMove
  <1>2. CASE Spawn(t)
    <2>1. PICK r \in Runs : /\ at[r] = "idle" /\ job' = r
                            /\ proc' = [proc EXCEPT ![r] = "alive"]
                            /\ at' = [at EXCEPT ![t] = "publish", ![r] = "born"]
      BY <1>2 DEF Spawn, Free
    <2>2. at[t] = "spawn" /\ job = NoRun /\ UNCHANGED stopping
      BY <1>2 DEF Spawn, NotRunning
    <2>3. \A u \in Threads : at'[u] = IF u = r THEN "born" ELSE IF u = t THEN "publish" ELSE at[u]
      BY <2>1, <2>2 DEF TypeOK
    <2>4. \A u \in Runs : proc[u] \notin Living
      BY <2>2, NoRunAssumption DEF JobLifecycle
    <2>5. \A u \in Runs : proc'[u] = IF u = r THEN "alive" ELSE proc[u]
      BY <2>1 DEF TypeOK
    <2>6. Alive = {} /\ Alive' = {r}
      BY <2>4, <2>5 DEF Alive, Living
    <2>7. r \notin Marked \cup Retrying /\ Marked' = Marked
      BY <2>1, <2>2 DEF JobLifecycle, Marked, Retrying
    <2>8. Retrying' = Retrying
      <3>1. at[r] = "idle" /\ at[t] = "spawn"
        BY <2>1, <2>2
      <3>2. ASSUME NEW u \in Runs
            PROVE  at'[u] \in RetrySteps \cup StartSteps <=> at[u] \in RetrySteps \cup StartSteps
        BY <2>3, <3>1
      <3> QED
        BY <3>2 DEF Retrying
    <2> QED
      BY <2>1, <2>2, <2>6, <2>7, <2>8, Simulation
  <1>3. CASE Publish(t)
    <2>1. at[t] = "publish" /\ held[t] \in Runs /\ at[held[t]] = "born"
      BY <1>3 DEF Publish, JobLifecycle
    <2>2. job' = job /\ Alive' = Alive /\ Marked' = Marked
      BY <1>3 DEF Publish, supervisor, Alive, Marked
    <2>3. \A u \in Threads : at'[u] = IF u = held[t] THEN "waiting"
                                      ELSE IF u = t THEN AfterStart(t) ELSE at[u]
      BY <1>3, <2>1 DEF Publish, TypeOK
    <2>4. AfterStart(t) \in {"idle", "ended"}
      BY DEF AfterStart
    <2>5. CASE t \in Runs
      <3>1. t \in Retrying /\ Retrying' = Retrying \ {t}
        BY <2>1, <2>3, <2>4, <2>5 DEF Retrying
      <3> QED
        BY <2>2, <2>5, <3>1, Simulation
    <2>6. CASE t \notin Runs
      <3>1. Retrying' = Retrying
        BY <2>1, <2>3, <2>6 DEF Retrying
      <3> QED
        BY <2>2, <3>1, Simulation
    <2> QED
      BY <2>5, <2>6
  <1> QED
    BY <1>1, <1>2, <1>3 DEF StartStep

\* The handlers, Stop, Restart and StartEnabled.
LEMMA SimulateRequest ==
    ASSUME TypeOK, JobLifecycle, NEW q \in Requests, Begin(q) \/ RequestStep(q) \/ StopStep(q)
    PROVE  Simulates
  <1>1. q \notin Runs /\ q \in Threads
    BY ThreadsAssumption
  <1>2. \A u \in Runs : at'[u] = at[u]
    <2>1. \E s, o, x : Enter(q, s, o, x)
      BY DEF Begin, RequestStep, Check, SaveRefused, SaveRelay, SaveAccess, Apply, Choose, Erase,
             StopStep, StopSignal, StopNothing, StopLookup, StopMark, Poll, PollTimeout, BootFails, Goto
    <2> QED
      BY <1>1, <2>1 DEF Enter, TypeOK
  <1>3. Retrying' = Retrying
    BY <1>2 DEF Retrying
  <1>4. CASE StopSignal(q)
    <2>1. job \in Runs /\ stopping' = [stopping EXCEPT ![job] = TRUE] /\ UNCHANGED <<job, proc>>
      BY <1>4 DEF StopSignal, TypeOK, worker
    <2>2. Alive' = Alive
      BY <2>1 DEF Alive
    <2>3. Marked' = Marked \cup {job}
      BY <2>1 DEF Marked, TypeOK
    <2>4. job # NoRun
      BY <2>1, NoRunAssumption
    <2> QED
      BY <1>3, <2>1, <2>2, <2>3, <2>4, Simulation
  <1>5. CASE StopMark(q)
    <2>1. UNCHANGED <<job, stopping>>
      BY <1>5 DEF StopMark, supervisor
    <2>2. \A u \in Runs : proc'[u] \in Living <=> proc[u] \in Living
      BY <1>5 DEF StopMark, TypeOK, Living
    <2>3. Alive' = Alive /\ Marked' = Marked
      BY <2>1, <2>2 DEF Alive, Marked
    <2> QED
      BY <1>3, <2>1, <2>3, Simulation
  <1>6. CASE \/ Begin(q) \/ RequestStep(q) \/ StopNothing(q) \/ StopLookup(q)
             \/ Poll(q) \/ PollTimeout(q) \/ BootFails(q)
    <2>1. UNCHANGED <<job, stopping, proc>>
      BY <1>6 DEF Begin, RequestStep, Check, SaveRefused, SaveRelay, SaveAccess, Apply, Choose, Erase,
                  StopNothing, StopLookup, Poll, PollTimeout, BootFails, supervisor, worker
    <2>2. Alive' = Alive /\ Marked' = Marked
      BY <2>1 DEF Alive, Marked
    <2> QED
      BY <1>3, <2>1, <2>2, Simulation
  <1> QED
    BY <1>4, <1>5, <1>6 DEF StopStep

\* wait and retryFlapping.
LEMMA SimulateWait ==
    ASSUME TypeOK, JobLifecycle, NEW r \in Runs, WaitStep(r)
    PROVE  Simulates
  <1>1. CASE Reap(r)
    <2>1. at[r] = "waiting" /\ proc[r] = "exited" /\ job = r
      BY <1>1 DEF Reap, JobLifecycle
    <2>2. job' = NoRun /\ Enter(r, "reaped", op[r], NoRun) /\ UNCHANGED <<stopping, proc>>
      BY <1>1, <2>1 DEF Reap, Goto, worker
    <2>3. \A u \in Threads : at'[u] = IF u = r THEN "reaped" ELSE at[u]
      BY <2>2 DEF Enter, TypeOK
    <2>4. Alive' = Alive /\ Marked' = Marked /\ Retrying' = Retrying
      BY <2>1, <2>2, <2>3 DEF Alive, Marked, Retrying
    <2>5. job # NoRun /\ job \notin Alive
      BY <2>1, NoRunAssumption DEF Alive, Living
    <2> QED
      BY <2>2, <2>4, <2>5, Simulation
  <1>2. CASE Settle(r)
    <2>1. at[r] = "reaped" /\ UNCHANGED <<job, stopping, proc>>
      BY <1>2 DEF Settle, supervisor, worker
    <2>2. job # r /\ proc[r] \notin Living
      BY <2>1 DEF JobLifecycle
    <2>3. PICK s \in {"settled", "ended"} : Enter(r, s, op[r], NoRun) /\ (stopping[r] => s = "ended")
      BY <1>2 DEF Settle, Restarts, Goto
    <2> QED
      BY <2>1, <2>2, <2>3, SimulateMove
  <1>3. CASE \/ Consider(r) \/ Tally(r) \/ Announce(r) \/ GiveUp(r)
             \/ RetryFlapping(r) \/ RetryClears(r) \/ RetryAnnounces(r)
    <2>1. at[r] \in RetrySteps /\ UNCHANGED <<job, stopping, proc>>
      BY <1>3 DEF Consider, Tally, Announce, GiveUp, RetryFlapping, RetryClears, RetryAnnounces,
                  supervisor, worker
    <2>2. PICK s \in RetrySteps \cup {"start", "ended"} : \E o : Enter(r, s, o, NoRun)
      BY <1>3 DEF Consider, Tally, Announce, GiveUp, RetryFlapping, RetryClears, RetryAnnounces, Goto
    <2>3. PICK o : Enter(r, s, o, NoRun)
      BY <2>2
    <2> QED
      BY <2>1, <2>3, SimulateMove
  <1> QED
    BY <1>1, <1>2, <1>3 DEF WaitStep

\* The worker, its events and timers, and the recycling of slots.
LEMMA SimulateSide ==
    ASSUME TypeOK, JobLifecycle, NEW r \in Runs,
           EventStep(r) \/ ReaderEnds(r) \/ KillTimer(r) \/ Exit(r) \/ Retire(r)
    PROVE  Simulates
  <1>1. CASE Exit(r)
    <2>1. proc[r] \in Living /\ UNCHANGED <<job, stopping, at>>
      BY <1>1 DEF Exit, supervisor, threads
    <2>2. \A u \in Runs : proc'[u] = IF u = r THEN "exited" ELSE proc[u]
      BY <1>1 DEF Exit, TypeOK
    <2>3. r \in Alive /\ Alive' = Alive \ {r}
      BY <2>1, <2>2 DEF Alive, Living
    <2>4. Marked' = Marked /\ Retrying' = Retrying
      BY <2>1 DEF Marked, Retrying
    <2> QED
      BY <2>1, <2>3, <2>4, Simulation
  <1>2. CASE EventStep(r) \/ ReaderEnds(r) \/ KillTimer(r)
    <2>1. UNCHANGED <<job, stopping, at>>
      BY <1>2 DEF EventStep, RelayReady, MetricsStalled, MetricsRestored, ReaderEnds, KillTimer,
                  supervisor, threads
    <2>2. \A u \in Runs : proc'[u] \in Living <=> proc[u] \in Living
      BY <1>2 DEF EventStep, RelayReady, MetricsStalled, MetricsRestored, ReaderEnds, KillTimer,
                  TypeOK, Living
    <2>3. Alive' = Alive /\ Marked' = Marked /\ Retrying' = Retrying
      BY <2>1, <2>2 DEF Alive, Marked, Retrying
    <2> QED
      BY <2>1, <2>3, Simulation
  <1>3. CASE Retire(r)
    <2>1. /\ at[r] = "ended" /\ at' = [at EXCEPT ![r] = "idle"] /\ job' = job
          /\ proc' = [proc EXCEPT ![r] = "free"] /\ stopping' = [stopping EXCEPT ![r] = FALSE]
      BY <1>3 DEF Retire
    <2>2. \A u \in Runs : /\ at'[u] = IF u = r THEN "idle" ELSE at[u]
                          /\ proc'[u] = IF u = r THEN "free" ELSE proc[u]
                          /\ stopping'[u] = IF u = r THEN FALSE ELSE stopping[u]
      BY <2>1 DEF TypeOK
    <2>3. r # job /\ proc[r] \notin Living
      BY <2>1 DEF JobLifecycle
    <2>4. r \notin Alive \cup Retrying /\ Alive' = Alive /\ Retrying' = Retrying
      BY <2>1, <2>2, <2>3 DEF Alive, Retrying, Living
    <2>5. Marked' = Marked \ {r}
      BY <2>2 DEF Marked
    <2> QED
      BY <2>1, <2>3, <2>4, <2>5, Simulation
  <1> QED
    BY <1>1, <1>2, <1>3

LEMMA SimulateNext == TypeOK /\ JobLifecycle /\ [Next]_vars => Simulates
  <1> SUFFICES ASSUME TypeOK, JobLifecycle, [Next]_vars PROVE Simulates
    OBVIOUS
  <1>1. CASE UNCHANGED vars
    <2>1. job' = job /\ Alive' = Alive /\ Marked' = Marked /\ Retrying' = Retrying
      BY <1>1 DEF vars, supervisor, worker, threads, Alive, Marked, Retrying
    <2> QED
      BY <2>1, Simulation
  <1> QED
    BY <1>1, SimulateStart, SimulateRequest, SimulateWait, SimulateSide DEF Next

\* The relay manager implements Supervised as well, for any number of runs and
\* requests: one worker at a time (the exists test of start), registered until it is
\* dead (wait), and neither a restart nor a flapping retry of a run that Stop has
\* marked.
THEOREM RelayIsSupervised == Spec => IsSupervised
  <1>1. Init => Supervision!Init
    <2> SUFFICES ASSUME Init PROVE Supervision!Init
      OBVIOUS
    <2>1. \A r \in Runs : proc[r] = "free" /\ ~stopping[r] /\ at[r] = "idle"
      BY ThreadsAssumption DEF Init
    <2> QED
      BY <2>1 DEF Init, Supervision!Init, Living
  <1>2. TypeOK /\ JobLifecycle /\ [Next]_vars => [Supervision!Next]_(Supervision!vars)
    BY SimulateNext DEF Simulates
  <1> QED
    BY <1>1, <1>2, TypeCorrect, LifecycleCorrect, PTL DEF Spec, IsSupervised, Supervision!Spec
=============================================================================

# Verification of neotranscoder

TLA+ specifications of neotranscoder, a Go daemon that supervises FFmpeg
processes (streams) and SRT worker processes (relays), the TLC models that check
them on small instances, and TLAPS proofs of the results that matter most.
Paths are relative to the repository; `PROJECT.json` maps every definition to
the lines it models.

## 1. The system

| component | code | state | operations |
|---|---|---|---|
| stream job manager | `internal/streams/jobs.go` | `jobs[id]` (process, `stopping`, `done`), `restarts[id]` (attempts since the first failure) | `start`, `Stop`, `wait`, `maybeRestart`, the stderr and progress readers, the process monitor with its watchdog |
| stream store | `internal/streams/store.go` | configurations, profiles, users, tokens, `State` per stream, logs, subscribers; a JSON file | get/upsert/delete, `UpdateState`, logs and pruning, `Subscribe`, load/save, normalisation |
| SRT relay manager | `internal/srtrelay/manager.go` | `jobs[id]`, `restarts[id]` | `start`, `Stop`, `Restart`, `StopAll`, `wait`, `retryFlapping`, `readEvents`, `StartEnabled` |
| SRT relay store | `internal/srtrelay/store.go` | relays, clients, secrets, relay `State`, sessions; a JSON file | upsert/rotate/delete relay, upsert/delete client, `ApplyWorkerEvent`, `CloseRelaySessions`, load/save |
| audit journal | `internal/srtrelay/audit.go` | one append-only file per day | `Append`, `List`, `Clear`, pruning |
| SRT worker | `internal/srtworker/` (its own process) | pending handshakes, reservations, sessions, event channel | `authorize`, `acceptLoop`, `sendLoop`, `broadcast`, `close`, `inputLoop`, `metricsLoop`, the shutdown of `Run` |
| HTTP API | `internal/server/server.go`, `internal/auth` | none of its own | handlers that call the managers and the stores, the SSE event stream |
| UI | `ui/lib` | cubits that mirror streams and relays | load lists, apply SSE events, reconnect |
| helpers | `internal/{ffmpeg,probe,doctor,installer,sysinfo,config,buildinfo}` | none that outlives a call | build arguments, run a probe, read `/proc`, install FFmpeg |

Interactions. A handler runs in its own goroutine and calls a manager; managers
read configuration from and write `State` to a store; each job has a goroutine
in `wait`, whose continuation is the restart, and side goroutines that write to
the same `State`. The relay manager talks to its worker process by a JSON
configuration on stdin, JSON events on stdout and SIGTERM. Stores push changes
to subscribers through bounded channels which drop when full. Nothing holds a
manager's lock and a store's lock together, so every operation is a chain of
short lock sections, and any two operations interleave between them.

What is hard here, and the properties that make each component correct:

* stream jobs: `start`, `Stop`, `wait` and the restart of one stream race. At
  most one process per stream, and a registered one; a stop is final and real;
  a crash is answered; status, PID and error code tell the truth.
* SRT worker: libsrt calls `authorize` from its own thread while the accept
  loop, timers, senders, the broadcaster and the shutdown work on the same maps.
  Limits hold at every moment; no reservation leaks; each session ends once and
  the daemon hears of it; shutdown ends.
* relay manager: as stream jobs, with a worker that must have loaded the current
  configuration and keys, events of an old worker that arrive late, and a
  flapping relay that is retried.
* stores: what a save returned as done is what a restart loads; a configuration
  that was accepted can be loaded again and is one a worker can start with; a
  key or a token is valid for as long as it should be.
* journal: an answered record is found until it is cleared or too old; a listing
  is the newest matches.
* events: bounded channels drop or block, and the reader must still end up with
  the right picture, in the daemon (worker events) and in the browser.

`PROJECT.json` lists every hazard at the line where it bites.

## 2. Modules

| module | what it is |
|---|---|
| `Supervised` | abstract specification of a supervised process: one at a time, registered while it lives, a stop is final |
| `StreamJobs` | supervision of one stream: job manager, the store fields it uses, the handlers; implements `Supervised` |
| `MCStreamJobs` | symmetry for its runs |
| `StreamJobsProofs` | theorems about `StreamJobs`, the refinement of `Supervised` included |
| `SrtWorker` | admission, session life cycle and shutdown of one worker |
| `MCSrtWorker` | values of the functional constants, symmetry |
| `SrtWorkerProofs` | theorems about `SrtWorker` |
| `RelayManager` | supervision of one SRT relay: manager, the store fields it uses, the handlers; implements `Supervised` |
| `MCRelayManager` | symmetry for its runs |
| `RelayManagerProofs` | theorems about `RelayManager`, the refinement of `Supervised` included |
| `DurableStore` | abstract specification of a store kept in one file: what is confirmed survives |
| `RelayStore` | relays, clients and keys of the SRT store, its file and its restart; implements `DurableStore` |
| `MCRelayStore` | the bodies of requests its runs use, symmetry |
| `RelayStoreProofs` | theorems about `RelayStore`, the refinement of `DurableStore` included |
| `StreamStore` | streams, profiles, users and tokens, their file and restart; implements `DurableStore` |
| `MCStreamStore` | the bodies of requests its run uses |
| `StreamStoreProofs` | theorems about `StreamStore`, the refinement of `DurableStore` included |
| `AuditJournal` | the SRT audit journal |
| `MCAuditJournal` | its filters |
| `AuditJournalProofs` | theorems about `AuditJournal` |
| `RelayEvents` | a worker's limiter, loops and event channel, and what the daemon makes of the events |
| `RelayEventsProofs` | theorems about `RelayEvents` |
| `EventFeed` | the stream store's subscribers and logs, the SSE connection and the streams page |
| `EventFeedProofs` | theorems about `EventFeed` |

An operator named `X_Y` just before an operator `X` is a plausible wrong version
of `X`; nothing uses it. Substituting it for `X` must break a property, which
shows that the property depends on that line of the code.

### Supervised

What both process managers promise of one stream or relay, with the state that
promise needs: the registered run (`owner`), the runs whose process lives, the
runs that were stopped, and the ended runs that are being tried again. A process
starts only when none is registered and none lives; a run gives up its
registration only when it is dead; only a dead, released and unstopped run is
retried. A stop of a run that is already being retried is not among its actions,
because `Stop` reaches only what is registered (section 5, `StopIsObeyed`).
`StreamJobs!IsSupervised` and `RelayManager!IsSupervised` are its specification
under a mapping from `job`, `proc`, `stopping` and the program counters of
`wait`.

### StreamJobs

`JobManager` keys everything by stream id and relates no two ids, so the module
follows one id. A step is a lock section (of the manager or of the store) with
the local computation after it.

* `cfg` is the stored configuration up to what supervision distinguishes:
  absent, disabled, enabled without or with a restart policy. `state` is the
  store's `State` (status, PID, error code, flapping).
* `job`, `tracker`, `stopping`, `done` are the manager's map entries and the
  fields of a job object. A *run* `r` is a job object with its process
  (`proc[r]`), its `wait` goroutine (`at[r]`), reader and monitor. The PID of a
  run is the run itself.
* A request (`at[q]`, `op[q]`) is a goroutine of one of the four handlers;
  `held` is the job a goroutine keeps in a local variable across an unlock. This
  is where stale values come from.

| code | actions |
|---|---|
| `upsertStream`, `deleteStream`'s `Store.Delete` | `Upsert`, `Erase` |
| `start` | `ReadConfig`, `RefuseSpawn`, `FailSpawn`, `PublishFailure`, `Spawn`, `Publish` |
| `Stop` | `StopSignal`, `StopNothing`, `StopMark`, `StopDone`, `StopTimeout` |
| `wait` | `Reap`, `Settle` |
| `maybeRestart` and its goroutine | `Consider`, `Tally`, `GiveUp`, `Announce`, `Wake` |
| readers, `monitorProcess` | `StderrLine`, `ReaderFails`, `ReaderEnds`, `WatchdogDecides`, `WatchdogKills`, `MonitorEnds` |

External: the process itself (`Exit`) and the recycling of slots (`Retire`).
The retry window is a nondeterministic `elapsed`. Left out: log lines, progress
figures, CPU and memory samples; `watchdogAction`'s thresholds become "a reason
was found".

### SrtWorker

`pending`, `reservations`, `sessions` are the worker's maps; `timers` counts the
`time.AfterFunc` calls of a key that have not fired, because an old timer of a
key is not cancelled and expires a newer attempt of the same key; `dialing` is
what libsrt may still return from `nativeAccept`; `closing[s]` splits
`closeOnce` into its lock section and its event, since other goroutines see the
time between them; `told[s]` is what the daemon heard of a session, in order.

| code | actions |
|---|---|
| `authorize`, `expireAttempt` | `AuthorizeAgain`, `Authorize`, `ExpireAttempt` |
| `acceptLoop` | `Accept`, `AcceptRefused`, `Register`, `Announce`, `AcceptFails` |
| `sendLoop`, `close`, the slow-client close of `broadcast` | `SendFails`, `SenderReturns`, `CloseDeletes`, `CloseTells`, `SlowClient` |
| `Run`, `closeAllSessions` | `Stop`, `Snapshot`, `CloseOne`, `ClosedOne`, `ClearPending`, `Finish` |

External: `HangUp` (libsrt), `Recycle` (slots). Left out: packets, queues,
continuity counters and Stream ID parsing; the attempt limiter and statistics
are in `RelayEvents`.

### RelayManager

One relay, for the same reason and with the same reading of runs and requests as
`StreamJobs`. The differences are those of the code: `Stop` does not wait but
sets a timer that kills (`killer`), `Restart` polls the map, a restart and a
flapping retry are timers whose work continues in the goroutine of the run that
failed, and configuration and secrets are read in two lock sections before the
job is registered. `known` is the set of goroutines, and of workers, that hold
the clients and keys as they are in the store now; `halted` is a history
variable: the last request that was answered is a stop.

| code | actions |
|---|---|
| `upsertSRTRelay`, `rotateSRTRelayKey`, client handlers with `restartSRTRelays`, `deleteSRTRelay` | `Begin`, `Check`, `SaveRefused`, `SaveRelay`, `SaveAccess`, `Apply`, `Choose`, `Erase` |
| `start`, `StartEnabled` | `ReadConfig`, `ReadSecrets`, `SpawnFails`, `Spawn`, `Publish`, `BootFails` |
| `Stop`, `Restart` | `StopSignal`, `StopNothing`, `StopLookup`, `StopMark`, `KillTimer`, `Poll`, `PollTimeout` |
| `wait`, `allowRestart` | `Reap`, `Settle`, `Consider`, `Tally`, `Announce`, `GiveUp` |
| `retryFlapping` | `RetryFlapping`, `RetryClears`, `RetryAnnounces` |
| `readEvents`, `ApplyWorkerEvent` | `RelayReady`, `MetricsStalled`, `MetricsRestored`, `ReaderEnds` |

External: `Exit`, `Retire`. Left out: figures, audit events and the restart
count. Sessions in the store are in `RelayEvents`; the reasons of `SaveRefused`
are the guards of `RelayStore`.

### DurableStore

`mem`, `disk` and a phase: a process that recovers has what the file holds; a
call changes memory, commits it to the file as a whole and is confirmed, or is
rejected with memory changed; a crash may come anywhere. No step confirms what
is not on disk. `RelayStore!IsDurable` and `StreamStore!IsDurable` are its
specification under a refinement mapping, where `mem` and `disk` are compared
after `load`, so that "a file is read back as what was saved" is part of it.

### RelayStore

Maps of relays and clients in memory and in the file, and the call in progress:
a method changes memory (its guards and `normalizeRelay`,
`normalizeClientLocked` as operators on bodies), `saveLocked` renames the new
file or fails, the handler answers or the process ends. A key is its version;
the history variable `told` records which versions were in a response, `lost`
which calls got none. A deletion does not erase `told`: the code creates a deleted id
again with key version 1, whose passphrase is derived from the id and the version
only, so the model must know what was told before. `anew` are the ids that were
created again and have not had a response since.

| code | actions |
|---|---|
| `UpsertRelay`, `RotateRelayKey`, `DeleteRelay` | the same names |
| `UpsertClient` and `CreateClient`, `RotateClientKey`, `DeleteClient` | `UpsertClient`, `RotateClientKey`, `DeleteClient` |
| `saveLocked`, the end of a handler | `SaveRenames`, `SaveFails`, `Reply` |
| `NewStore`, `load`, `server.New` with its fallback store | `NewStore`, `Crash` |

`NewWorkerAccepts` is `newWorker`'s validation of what `WorkerClients` hands it.
The guards on status and active sessions in the deletions are left open, since
they depend on `RelayManager` and `RelayEvents`: every deletion they would
refuse is allowed.

### StreamStore

The same shape for `internal/streams/store.go`: `Upsert`, `Delete`,
`UpsertProfile`, `DeleteProfile`, `CreateUser`, `DeleteUser`, `ChangePassword`,
with `Load` and `ensureAuth` (which saves) as the two steps of `NewStore`. A
file that `load` refuses ends the process. `login`, `refresh` and
`writeTokenPair` are the handlers: the user is read in one step and the token
issued in a later one. Passwords are stamps; expiry is left out.

### AuditJournal

`files` maps a day to its file: its lines, parsable or not, as a function of the
number of the event that each was written for (the order in the file), and which
line, if any, lacks its newline (`torn`). `Record` is `Append` with its pruning; `AppendBroken` (within it) leaves
any prefix of a line; `pruneLocked` leaves any set of the expired files behind, since
`Append` ignores its error and it ignores that of `os.Remove`, and the history
variable `stuck` names those files; `ClearStart`, `ClearFile`, `ClearFails`, `ClearEnd` are
`Clear` file by file with the `audit_cleared` record of the handler; `List` is an
operator, ring included, compared with its reference `Newest`. `Midnight` and
`Crash` are external. An event may carry the time of the day before.

### RelayEvents

One listener worker from its start to the end of its reader: `attempts` (the
limiter, with ages in seconds), `grants` (history: the attempts each address
was allowed in the last second, two seconds, and so on to a window), the handshakes
that were admitted and have not been accepted nor timed out (`pending`, and
`admitted` with those before), the sessions as the producers of events see them,
the ticker, `events` (channel, pipe and, beyond the capacity, the
goroutines that wait in `emit`), and the relay's status and sessions in the
store.

| code | actions |
|---|---|
| `allowConnectionAttempt`, `authorize`, `expireAttempt` | `Refuse`, `Attempt`, `ExpireAttempt` |
| `acceptLoop`, `close` | `AcceptRefused`, `Register`, `Announce`, `CloseDeletes`, `CloseTells` |
| `Run`, `inputLoop`, `metricsLoop` | `Ready`, `Packet`, `Second`, `SessionStats`, `RelayMetrics` |
| `readEvents`, `ApplyWorkerEvent`, `pruneSessionsLocked` | `readEvents` |
| `wait`, `CloseRelaySessions` | `wait` |

External: `Exit` (which loses what was not written), `PipeCloses`. A timer that
emits after `Run` has closed the channel panics and so ends the process: that is
an `Exit`. `expireAttempt` removes the handshake and emits in one step, since
nothing else reads `pending` between the two. Left out: audit records, and the
times by which `pruneSessionsLocked` sorts (any ended session may be the oldest).

### EventFeed

The store's streams, states and logs, one subscriber's channel (`queue`), its
connection and the cubit of the streams page (`view`, the load under way, the
queued reload). A log line is its stream and whether it is past its retention;
`pruneLogsLocked` keeps the indices that its backward pass keeps, and
`SelectByIndex` the lines at them, in order (`Rank`). Lines without a stream id,
which the code never prunes, are not in the model: every caller of `AppendLogCode`
has an id. Two history variables: `suspect`, the page was not told of a change (an
event dropped or lost with its connection, a save or a load that failed), and
`overtaken`, the streams of which a report was applied while an older answer that
contradicts it was on its way. Such an answer then overwrites the report.

| code | actions |
|---|---|
| `Upsert`, `Delete`, `SetState` and `UpdateState` | `Upsert`, `UpsertUnsaved`, `Delete`, `DeleteUnsaved`, `UpdateState` |
| `AppendLogCode`, `ClearLogs`, `pruneLogsLocked` | `AppendLogCode`, `ClearLogs`, `Expire` |
| `events` of the server, `Subscribe` | `Subscribe`, `Disconnect`, `Deliver` |
| `StreamsCubit` | `load` (in `Command` and `Deliver`), `ServerAnswers`, `LoadDone`, `LoadFails` |

## 3. Runs

| run | checks | bounds |
|---|---|---|
| `stream_safety` | `NoLostProcess`, `ManualStopIsFinal`, `RunningHasPid`, `FailureIsExplained`, `StopMeansDead` | 2 runs, 1 request, reader and monitor, elapsing windows |
| `stream_live` | `IsSupervised`, `StoppedIsReaped`, `CrashIsAnswered` | 2 runs, 1 request, manual and automatic restart policy, elapsing windows, fairness |
| `srt_safety` | `TypeOK`, `ReservationsExact`, `LimitsHold`, `PendingHasTimer`, `ClosedOnce` | 3 keys of 2 clients with 1 and 2 places, 2 sessions, 2 outstanding timers per key |
| `srt_live` | `ReservationEnds`, `ShutdownCompletes`, `PublishEnds` | 2 keys of one client, 2 sessions, listener and publish workers, fairness |
| `relay_safety` | `NoLostWorker`, `PidIsOwned`, `IsSupervised` | 2 runs, 2 requests, every handler, failing saves, elapsing windows, no worker events |
| `relay_live` | `FlappingIsRetried`, `StoppedIsReaped` | 2 runs, 1 request (start, stop, client change), all worker events, elapsing windows, fairness |
| `relay_store` | `WorkerCanStart`, `OnlyStrandedRejected`, `CredentialOnce`, `CredentialTold`, `IsDurable` | 2 relays, 1 client, 5 relay bodies and 11 client bodies, 2 key versions, 1 failing save, any number of crashes |
| `relay_store_loads` | `EnabledRelaysStartAgain`, violated: section 5 | |
| `stream_store` | `FileLoads`, `TokensFollowPassword`, `IsDurable` | 1 stream, 2 profiles, 2 users, 2 new accounts or passwords, 1 failing save, any number of crashes |
| `audit_journal` | `ListIsNewest`, `KeptForRetention`, `ClearExact` | 3 days, 4 events of 2 kinds, 3 filters, limits up to 3, 1 broken write, failing removals, any number of crashes |
| `relay_events` | `SessionsAgree`, `FloodBounded`, `RefusedForCause`, `StallIsShown`, `EndIsShown` | 2 addresses, 1 session, a channel of 1 event, 2 attempts in 2 seconds, 1 tracked address, fairness |
| `event_feed` | `PageIsCurrent`, `NoisyIsContained`, `PageCatchesUp` | 1 stream on the page, 2 that log, a channel of 2, 3 changes, 1 failure or lost connection, fairness |

`TypeOK` of every module but `SrtWorker` states the types of the variables and
the invariants of their data; it holds with the same constants and is not among
the questions of these runs. Nor are `JobLifecycle`, `ReaperOwnsJob` and
`StoppedStaysDown`. Section 4 proves all of these for every instance.

Why the bounds suffice. The races of a stream or a relay are those of an old run
that is still settling, or waits for its timer, with a new one that lives: two
runs. A request waits (`RoomToStart`) while all slots are taken; a goroutine that
finds no slot fails to start its process, which the code may do for other
reasons too, so the bound adds no behaviour. `stream_safety` has one request
because the side goroutines fill the state space; the theorems of section 4 hold
for any number. `MaxAttempts = 1` and `MaxRestarts = 1` reach both the announced
restart and the surrender. A retry window may elapse before any failure, in the
liveness runs too, because `normalizeRestartPolicy` accepts policies whose
backoffs outlast their window. `CrashIsAnswered` therefore has two parts: under
every policy a failed run is answered or tried again, and where the windows do not
keep elapsing (`WindowsHold`) it is answered in the end. `FlappingIsReached`, the
second part without its premise, is refuted (section 5).
`relay_live` leaves out the handlers that save the relay: a relay that was
disabled while flapping, lost its retry and is enabled again is started by the
operator, and `FlappingIsRetried` does not hold of it. Section 4 proves that this
is the only way to lose the retry.
For the worker, callers of two clients, one with one place and one with two,
reach every way to exceed a client's or the relay's limit; two timers per key
let an old timer meet a new attempt.

For the stores, two relays are what a shared endpoint and a client that moves
from one to the other need; the bodies are those that `normalizeRelay`,
`normalizeClientLocked` and `normalizeConfig` treat differently, refused ones
included (one more, an unencrypted publisher, was checked with the same
properties apart); one failed save is enough for memory and file to differ for as
long as one likes. `Retention = 1` with three days has a day on each side of the
boundary; limits from 0 to one more than the largest meet the default and the
ring at, below and above the number of matches. `Capacity` is as small as
possible so that full channels are the rule. In `relay_events` one tracked
address and two that call make the limiter's table full, and `Limit = 2`,
`Window = 2` reach the end of a window with a count on either side of the limit;
its safety properties were also checked with two sessions.

`CHECK_DEADLOCK FALSE` appears only in the runs of a worker, which ends.

### Fairness

`StreamJobs`, `SrtWorker`, `RelayManager`: weak fairness of every goroutine that has a step to take (Go's scheduler), of
the death of a process whose context is cancelled (`exec.CommandContext` sends
SIGKILL), of the end of a reader after its process, of timers, and of
`nativeAccept` failing once the listener is closed. No fairness for requests,
callers, crashes, obedience to SIGTERM, stderr lines, worker events, watchdog
reasons, failing sends or the stop signal. Each `WF` covers the disjunction of one goroutine's steps, so a goroutine
may be made to prefer one branch for ever, as when each spawn fails.

`RelayEvents`: weak fairness of `readEvents` (the daemon reads its pipe), of
`wait`, and of the two goroutines that owe an event (`Announce`, `CloseTells`).
`StallIsShown` has as its premise that some relay_metrics find room again and
again; a channel that is full at every tick can hide a stall, and the code says
so by dropping them. `EventFeed`: weak fairness of the server's answer, of the
browser's callbacks (`LoadDone`, `Deliver`) and of a connection being made.
Nobody is bound to change, log, fail or disconnect anything.

### Refinement

`stream_live` and `relay_safety` check `Supervised!Spec` as a property. It shows
that no interleaving of requests, timers and endings makes a second process,
replaces or removes the registration of one that lives, or tries a stopped run
again.

`relay_store` and `stream_store` check `DurableStore!Spec` as a property. The
mapping takes memory and file up to what `load` makes of them; the fallback
store of the SRT part, and a `NewStore` that has not read its file, are a process
that has not come up. It shows that no call is confirmed before the rename, that
a failed save leaves the file alone, and that a restart never sees a mixture of
two configurations.

## 4. Proofs

`StreamJobsProofs`, for every set of runs and requests and every `MaxAttempts`;
the assumptions are those named in `StreamJobs` (runs and requests are disjoint,
`NoRun` is no run, `MaxAttempts \in Nat`, the ranges of `Observers` and `Edits`).

| theorem | statement |
|---|---|
| `TypeCorrect` | `Spec => []TypeOK` |
| `LifecycleCorrect` | `Spec => []JobLifecycle` |
| `NoProcessIsLost` | `Spec => []NoLostProcess` |
| `ReaperIsOwner` | `Spec => []ReaperOwnsJob` |
| `ManualStopEndsRun` | `Spec => []ManualStopIsFinal` |
| `StopIsEffective` | `Spec => StopMeansDead` |
| `PidIsLive` | `Spec => []RunningHasPid` |
| `FailuresAreExplained` | `Spec => []FailureIsExplained` |
| `StreamIsSupervised` | `Spec => IsSupervised` |

The argument. None of the safety properties is inductive alone: that a living
process is the registered job depends on `wait` removing only its own job, which
depends on no second job having been registered meanwhile, which depends on the
first. `JobLifecycle` says it at once: a job is in the map exactly while its
`wait` has not removed it, only one goroutine at a time is between `Spawn` and
`Publish`, and its run has no `wait` yet; a closed `done` and a `stopping` flag
occur only at certain steps. `TypeOK /\ JobLifecycle` is inductive, action by
action, and the four theorems after it follow without further induction (for
`StopMeansDead`, the `done` clause gives an exited process and a job that has
left the map). The two theorems on the reported state need one more inductive
step, with a second strengthening on the pair of status and error code.

`StreamIsSupervised` needs no more than `TypeOK /\ JobLifecycle`: `Spawn` maps
to `Start` (its exists test gives an empty `owner`, `JobLifecycle` that nothing
lives beside it), `StopSignal` to `Stop`, an exit to `Die`, `Reap` to `Release`,
`Settle` of a run that failed unstopped to `Retry`, the end of the chain to
`Rest`, the recycling of a slot to `Forget`, and every other step to a stutter. `Simulation` states these steps in
terms of the mapped variables once, and the lemmas after it go through the
actions.

`RelayManagerProofs`, for every set of runs, requests, handlers and events and
every `MaxRestarts`, from the assumptions named in `RelayManager`:

| theorem | statement |
|---|---|
| `TypeCorrect` | `Spec => []TypeOK` |
| `LifecycleCorrect` | `Spec => []JobLifecycle` |
| `NoWorkerIsLost` | `Spec => []NoLostWorker` |
| `StopEndsRun` | `Spec => []StoppedStaysDown` |
| `PidNeverOutlives` | `Spec => []PidIsOwned` |
| `RelayIsSupervised` | `Spec => IsSupervised` |
| `RetryOutlivesAllButEnabling` | `Spec => [][FlappingIsRetried /\ (Enabled(cfg') => Enabled(cfg)) => FlappingIsRetried']_vars` |
| `FlappingRelaysRetry` | `"upsert" \notin Handlers => (Spec => []FlappingIsRetried)` |

The argument is the same, without a `done` channel: `TypeOK /\ JobLifecycle` is
inductive and gives `NoLostWorker` and `StoppedStaysDown`; `PidIsOwned` is
inductive together with it, because `start` publishes the PID of a run that has
no `wait` yet and only `wait` of that run ends it. `RelayIsSupervised` is proved
as for streams (`StopSignal`, which marks the job under the lock, maps to `Stop`),
with the restart and flapping timers as part of `retrying`.

`FlappingIsRetried` is inductive relative to `JobLifecycle` in every step that
does not enable a disabled relay: `wait` passes from a removed job to the result
it writes, who writes "flapping" sets the timer, and a timer that finds the relay
flapping goes on until it has written another state or sees a worker. The step
that enables a relay does break it (a disabled relay's timer ends), so the
invariant itself is proved where the upsert handler is not called, with every
other handler, and the step-wise theorem without that restriction.

`SrtWorkerProofs`, for every set of keys, clients and sessions and any limits,
from the assumptions named in `SrtWorker`:

| theorem | statement |
|---|---|
| `TypeCorrect` | `Spec => []TypeOK` |
| `ReservationsAreExact` | `Spec => []ReservationsExact` |
| `PendingIsTimed` | `Spec => []PendingHasTimer` |
| `SessionsCloseOnce` | `Spec => []ClosedOnce` |
| `LimitsAreKept` | `Spec => []LimitsHold` |

`TypeOK /\ ReservationsExact /\ PendingHasTimer /\ SessionLife` is inductive.
`SessionLife` ties the views of a session together: a slot that is in the map, in
the shutdown's copy of it, sending or closing has an owner; one that `closeOnce`
has deleted is in the map no more; and what the daemon has heard of it is what the
steps of its sender and of `close` say. The limits need the
exact counters, because `authorize` compares the counter with the limit and not
the set it counts; they are counted with `FiniteSetTheorems`, and moving a
handshake into a session keeps the sum.

`RelayStoreProofs`, for every set of relays, clients and bodies of requests, from
the assumptions named in `RelayStore`:

| theorem | statement |
|---|---|
| `TypeCorrect` | `Spec => []TypeOK` |
| `WorkersCanStart` | `Spec => []WorkerCanStart` |
| `FilesLoad` | `Spec => []OnlyStrandedRejected` |
| `CredentialsOnce` | `Spec => []CredentialOnce` |
| `CredentialsTold` | `Spec => []CredentialTold` |
| `StoreIsDurable` | `Spec => IsDurable` |

The inductive invariant is `Configured /\ VersionsGrow /\ KeysTold`. `Configured`
says of memory and of the file alike that default clients are enabled and
assigned, endpoints differ and clients name relays that exist: of both, because a
restart makes the file memory and a failed save leaves them apart. `VersionsGrow`:
for every id but those created anew, no version that was told is newer than the
one in the file or, while the store is up, the one in memory, and what a response
is about to tell is newer than any of them. `KeysTold` follows a key through the call that made it.

`StreamStoreProofs`, for every set of streams, profiles, users and bodies, from
the assumptions named in `StreamStore`:

| theorem | statement |
|---|---|
| `TypeCorrect` | `Spec => []TypeOK` |
| `FilesLoad` | `Spec => []FileLoads` |
| `TokensFollow` | `Spec => []TokensFollowPassword` |
| `StoreIsDurable` | `Spec => IsDurable` |

The inductive invariant is `Configured /\ AuthKept /\ Followed`: memory and file
are each a configuration that `load` accepts; while a process is up, and once
tokens exist, the file has the secret and the administrator, so that `ensureAuth`
makes neither again; and a saved token, or a user read for one, is never ahead of
its account, in memory or in the file, and has its version exactly if it has its
password.

In both refinements the initial states map to initial states, and each action to
one action of `DurableStore` or to a stutter: a method to a change of `mem`,
`SaveRenames` to a commit, `Reply` to a confirmation, a restart to a recovery.
The mapping compares memory and file after `load`; that `load` of a saved
configuration is that configuration is where the invariant is needed.

`RelayEventsProofs`, for any addresses, sessions, channel capacity, limit, window
and size of the limiter's table, from the assumptions named in `RelayEvents`:

| theorem | statement |
|---|---|
| `SessionsShown` | `Spec => []SessionsAgree` |
| `FloodIsBounded` | `Spec => []FloodBounded` |
| `RefusalHasCause` | `Spec => []RefusedForCause` |
| `TableIsBounded` | `Spec => []`(the table is finite and has at most `MaxTracked` addresses) |
| `TypeCorrect` | `Spec => []TypeOK` |

For the sessions the inductive invariant says of each one, while the worker
lives, that each of its lifecycle events has been emitted once if the session has
come that far, and that what is no longer in the channel has been applied to the
store; after the worker's end, that `CloseRelaySessions` has written what the
store shows, but for the events still buffered.

For the limiter it is `LimiterInv`. Neither property is inductive: a fixed window
that opens now may have an almost full one just behind it. `Balanced` says of an
address with a window that is not over that what was allowed since it opened is
what the window has counted (up to the limit), that the attempt that opened it
came first, and that less than a limit is left of the windows before; of an
address without one, that less than a limit is left. Hence less than two limits
in any sliding window, and an address that is refused while it is tracked has
used its own limit. Forgetting windows when the table is full loses nothing,
because only windows that are over are forgotten.

`TypeOK` of `RelayEvents` has two more bounds in it. `Backlog`: beyond the
channel's capacity there are lifecycle events only, each of another goroutine
(the callback, the acceptor, or for an admitted handshake its timer or else the
one that closes its session), because a goroutine that is about to emit one is not
waiting already; so, by the pigeonhole principle, at most two more than there were
handshakes admitted wait in `emit`. Nothing bounds the handshakes that are
admitted while nobody reads the channel, hence no smaller bound. And
`Pruned`: the store never keeps more than `MaxCompleted` sessions that are over.

`AuditJournalProofs`, for any tags, filters, retention, days, events and failing
writes, from the assumptions named in `AuditJournal`:

| theorem | statement |
|---|---|
| `TypeCorrect` | `Spec => []TypeOK` |
| `RetentionIsKept` | `Spec => []KeptForRetention` |
| `ClearsAreExact` | `Spec => []ClearExact` |
| `RingKeepsNewest` | the step of `readAuditFile`'s loop, for every limit |

`TypeOK` carries the shape of the files (each event's line under its own number,
only the last unterminated), without which a write could overwrite a line that is
owed. With it, "every owed event is found", "a file older than the retention
allows is one whose removal failed" and the state of a clear in progress (its filter, what it has left and
what was there before) are inductive, together with `ClearExact` itself; the
count of a clear is an equation between cardinalities. `RingKeepsNewest` has no
behaviour in it: a ring that holds the newest `limit` of the matches seen so far
still does after the next match, and reading it from `start` gives them newest
first.

`EventFeedProofs`, for any streams, configurations, channel capacity and log
quota, from the assumptions named in `EventFeed`:

| theorem | statement |
|---|---|
| `PagesAreCurrent` | `Spec => []PageIsCurrent` |
| `TypeCorrect` | `Spec => []TypeOK` |
| `NoisyContained` | `Spec => NoisyIsContained` |

For `PageIsCurrent`, while the page has been told
everything (`~suspect`) the inductive invariant has two parts.
`ReportsCorrected`: a state report in the channel is true, or a later event in
the channel corrects it (another report of that stream, or a change that makes
the page load). `Current`: unless a load is asked for, queued or bound to be
asked for by an event in the channel, the page (or the answer on its way to it)
has the store's streams and configurations, and their states except where a
report is still to come or was overtaken by the answer. The first part is needed for the second when the last
report is delivered, and when an answer is made with reports still in the
channel.

For `NoisyIsContained` the invariant is `InQuota`: no stream has more lines than
the quota. After an append at most one stream is one line over it, and that
stream is the one that logged; `OneOver` shows that pruning by rank then costs it
one line, its own oldest, so that it has as many lines within their retention as
before, and `PruneFacts` that every other stream keeps all of its own. `TypeOK`
needs `InQuota`, and that a page that is not connected has no events.

Each inductive invariant was checked with TLC on a small instance as well as
proved. The guards of every `CASE` in these modules exclude each other: TLA+
leaves open which of two true guards is taken, where Go takes the first, and a
proof about overlapping ones fails for that reason.

Only model-checked, and why:

* liveness (`StoppedIsReaped` of streams and of relays, `CrashIsAnswered`,
  `ReservationEnds`, `ShutdownCompletes`, `PublishEnds`, `PageCatchesUp`,
  `StallIsShown`, `EndIsShown`): fairness and `ENABLED` are outside the prover.
  `PageIsCurrent` is the safety half of `PageCatchesUp`, `FlappingIsRetried` the
  safety half of "a flapping relay is started again".
* `ListIsNewest`: that the loop over a whole file, and the loop over the files,
  compute the reference is an induction over the lines, which is outside the
  prover too. `RingKeepsNewest` is its step for one file; TLC compares `List` with
  `Newest` in every state of a bounded journal.
* `FlappingIsRetried` where the upsert handler is called: false, see above.
* `EnabledRelaysStartAgain` is violated (section 5).

## 5. Where the code and its documentation disagree

`relay_store_loads` shows, as a run that must be violated:

* `EnabledRelaysStartAgain`: the README says that enabled relays start with the
  service. `UpsertRelay` accepts a listener with assigned clients as a publisher;
  `load` refuses clients of a relay that is no listener, so the next start keeps
  an empty store, and every SRT request and every relay is off until the file is
  edited by hand. `OnlyStrandedRejected` shows that no other sequence of calls
  leads to a file that is refused.

Ten more properties are stated at the end of their modules and are refuted by
TLC when put into a configuration with the constants given here (constants not
given are as in the module's `_live.cfg`):

* `LiveIsReported` (`StreamJobs`: two runs, one request, `MaxAttempts = 1`,
  `WindowElapses = FALSE`, `Observers = {}`, `Edits = {"automatic"}`): a request
  that starts the stream between `wait`'s removal of the old job and its
  `UpdateState` has its "running" overwritten by the late result of the old run;
  the live process stays reported as failed or stopped, without its PID.
* `FlappingIsLeftAlone` (the same constants, `FairSpec`): the README says that
  automatic restarts of a flapping stream stop until an operator starts it. A
  manual start during a backoff gives the stream a second restart chain; one
  chain marks it flapping, the other wakes and restarts it.
* `LastWordIsDisconnected` (`SrtWorker`: as `SrtWorker_live.cfg`, with
  `Directions = {"listener"}`): a session registered by the
  accept loop can be closed by a slow-client close or the shutdown before
  `session_connected` is emitted; the daemon hears "disconnected", then
  "connected", and keeps a session that does not exist. `SessionsAgree` shows
  that this order is the only one with that effect, and that the end of the
  worker repairs it.
* `AccessIsApplied` (`RelayManager`: two runs, two requests,
  `Handlers = {"start", "client"}`, `Events = {}`): the README says that a
  changed client restarts its running relays so that no old worker keeps the old
  ACL or key. A change saved between `start`'s reading of the clients and its
  registration of the job finds no running relay, and the worker starts with the
  old data.
* `StopIsObeyed` (two runs, one request, `Handlers = {"stop"}`, `Events = {}`,
  `FairSpec`): `Stop` without a job returns nil and leaves the restart timer
  alone. A relay stopped during its backoff is answered with success and starts
  again.
* `DownIsDeletable` (two runs, one request, `Handlers = {"stop"}`,
  `Events = {"ready"}`): `Stop` writes "stopping" after its unlock, possibly after
  `wait` has written "stopped". The relay stays "stopping" and `DeleteRelay`
  refuses it as not stopped.

* `FlappingIsReached` (`StreamJobs_live.cfg`): the README (911-913) says that a
  stream which exceeds its attempts inside the window becomes flapping.
  `normalizeRestartPolicy` (`store.go:738-766`) does not relate backoff and window;
  with a window of 10 seconds and a backoff of 5 and 5 attempts, say, each count is
  reset (`jobs.go:329`) before it is full, and a stream that never starts is tried
  for ever and never marked.
* `KeysAreNew` (`RelayStore_safety.cfg`): the README (1144-1146) says that a
  passphrase is in a response exactly once. A relay or client that is deleted and
  created again has key version 1 again (`store.go:250-251`) and with it the same
  passphrase (`store.go:751-755`), which is shown again and, if it had been rotated
  away, is valid again. `CredentialOnce` shows that nothing else repeats one.
* `ExpiredIsRemoved` (`AuditJournal.cfg`): the README (245-246) says that audit
  files are removed after the retention. Only `Append` prunes, and it drops the
  error (`audit.go:80`), as `pruneLocked` drops that of `os.Remove`
  (`audit.go:259`): an old file stays until a later append removes it.
* `NoEventIsUndone` (`EventFeed.cfg`): an answer made before a state report and
  applied after it overwrites it (`streams_cubit.dart:82-89` against 156-172); the
  page shows the older state until the next report or load. `PageIsCurrent` shows
  that this is all that can be undone.

The models reach more states of this kind: a `Stop` of a stream that returns before `wait` has written the final state; a
restart timer of a relay whose `start` fails and which nobody retries; a late
`wait` of a relay that writes PID 0 over a new worker; a worker of a deleted
relay; FFmpeg running for a deleted stream, whose restart chain was past its
checks; a stream that starts again after a `Stop` during its backoff, which was
answered with "stream not running"; a session stranded by a shutdown that had already copied the map; a send
on the closed event channel; a relay left "starting" because its relay_ready was
dropped; an audit record that is acknowledged but glued to a torn line and never
listed; a filtered clear that fails halfway and leaves no record of what it
removed; a streams page that reconnects without loading and shows an old state
until the next event; an account that is deleted and created again under its old
name, for which a token of the old one is valid once the versions agree. The
properties name these as their exceptions.

## 6. Not modelled

FFmpeg and libsrt themselves, argument building, probing, the installer, the
doctor, system figures, configuration parsing and packaging: they keep no state
between calls or consist of input and output. Of the worker, the framing of the
input into packets, the packet queues and the continuity counters. Of the API,
read-only handlers, static files and the expiry of tokens. Of the UI, all pages
but the list of streams. A crash of the machine (as against the process) is not
modelled: the stream store and the journal's clear do not sync before they
rename.

What the modelled parts do not say:

* `RelayStore` has the responses of the handlers and not the events that the
  store broadcasts: `srtrelay/store.go:150` and 184 hand subscribers a `RelayView`
  with its passphrase. `CredentialOnce` is about responses.
* `OnlyStrandedRejected` excuses a file that is refused if any client is stranded
  in it, whatever the refusal was for.
* `WorkerCanStart` reads relay and clients at one time; `Manager.start` reads them
  in two lock sections (`RelayManager` has both). Endpoints are equal or not: that a
  wildcard address overlaps every other on its port is left out.
* `SrtWorker` emits its events without waiting and has no `eventErr`; a full
  channel and the goroutines that wait for it are in `RelayEvents`.
* `EndIsShown` asks little of a session that the store does not have as active yet.

## 7. Plan

1. Done: `StreamJobs` and `RelayManager` with `Supervised`, `SrtWorker`,
   `RelayStore` and `StreamStore` with `DurableStore`, `AuditJournal`,
   `RelayEvents` and `EventFeed`, each with its runs, mutants and proofs. Every
   safety property of a passing run but `ListIsNewest` is a theorem.
2. Open: a composition of `RelayManager` with `RelayStore`, in which the
   deletions have their guards on status and sessions; the packet queues of the
   worker.

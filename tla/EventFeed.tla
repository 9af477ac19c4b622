----------------------------- MODULE EventFeed ------------------------------
(***************************************************************************)
(* How a browser follows the stream store: emitLocked and Subscribe of     *)
(* internal/streams/store.go, the events handler of                        *)
(* internal/server/server.go, the reconnecting event source of             *)
(* ui/lib/core/api/api_client.dart and the streams page of                 *)
(* ui/lib/features/streams/streams_cubit.dart; and the log that shares the *)
(* channel with them.                                                      *)
(*                                                                         *)
(* The page has two sources that are not ordered with each other: events,  *)
(* through a channel that drops what does not fit, and loads, whose answer *)
(* is as old as the moment the server made it.  What is on its way from    *)
(* the handler to the page is counted with the channel.                    *)
(***************************************************************************)
EXTENDS Integers, Sequences, FiniteSets

CONSTANTS
    StreamIds,
    Loggers,          \* streams that write log lines
    Configs,          \* what a stream may be configured as
    Capacity,         \* of the channel Subscribe makes: 32
    MaxLogsPerStream, \* 500
    MaxChanges,       \* BOUND: changes of streams and of their states
    MaxBreaks         \* BOUND: saves and loads that fail, connections that end

ASSUME CapacityAssumption == Capacity \in Nat /\ Capacity > 0
ASSUME LogsAssumption == MaxLogsPerStream \in Nat /\ MaxLogsPerStream > 0
ASSUME BoundAssumption == MaxChanges \in Nat /\ MaxBreaks \in Nat

Statuses == {"stopped", "running"}
Nothing == <<>>

VARIABLES
    streams,      \* store.streams: a function on the ids that exist
    states,       \* store.states
    logs,         \* store.logs: stream, and whether its retention has passed
    connected,    \* is the page's channel among store.subscribers?
    queue,        \* that channel
    view,         \* StreamsState.streams: a function to config and state
    loading,      \* StreamsCubit.load: "no", "asked", or "answered"
    answer,       \* the answer on its way
    reloadQueued,
    changes, breaks,
    suspect,      \* history: something the page could not know of has happened
    overtaken     \* history: the streams whose newest report was applied before an
                  \* older answer that contradicts it

store == <<streams, states>>
page == <<view, loading, answer, reloadQueued>>
bounds == <<changes, breaks>>
history == <<suspect, overtaken>>
vars == <<store, logs, connected, queue, page, bounds, history>>

Put(f, k, v) == [x \in DOMAIN f \cup {k} |-> IF x = k THEN v ELSE f[x]]
Drop(f, k) == [x \in DOMAIN f \ {k} |-> f[x]]

stateLocked(id) == IF id \in DOMAIN states THEN states[id] ELSE "stopped"

\* List.
StoreView == [id \in DOMAIN streams |-> [config |-> streams[id], state |-> stateLocked(id)]]

\* The page is opened: it asks for the streams and for events.
Init ==
    /\ streams = Nothing /\ states = Nothing /\ logs = <<>>
    /\ connected = FALSE /\ queue = <<>>
    /\ view = Nothing /\ loading = "asked" /\ answer = Nothing /\ reloadQueued = FALSE
    /\ changes = 0 /\ breaks = 0
    /\ suspect = TRUE /\ overtaken = {}

Changing == changes < MaxChanges /\ changes' = changes + 1 /\ UNCHANGED breaks
Breaking == breaks < MaxBreaks /\ breaks' = breaks + 1 /\ UNCHANGED changes

-----------------------------------------------------------------------------
(* The store *)

Event(type, id, status) == [type |-> type, id |-> id, status |-> status]

\* emitLocked: never waits; what does not fit is dropped.
Fits == connected /\ Len(queue) < Capacity
emitLocked(e) ==
    /\ queue' = IF Fits THEN Append(queue, e) ELSE queue
    /\ UNCHANGED connected

\* An event the page acts on is missed when it is dropped.
emitsChange(e) ==
    /\ emitLocked(e)
    /\ suspect' = (suspect \/ ~Fits)
    /\ UNCHANGED overtaken

\* Upsert; the event follows the save.
Upsert(id, c) ==
    /\ Changing
    /\ streams' = Put(streams, id, c)
    /\ states' = IF id \in DOMAIN states THEN states ELSE Put(states, id, "stopped")
    /\ emitsChange(Event("stream_saved", id, ""))
    /\ UNCHANGED <<logs, page>>

\* Its save fails: memory is changed and nobody is told.
UpsertUnsaved(id, c) ==
    /\ Breaking
    /\ streams' = Put(streams, id, c)
    /\ states' = IF id \in DOMAIN states THEN states ELSE Put(states, id, "stopped")
    /\ suspect' = TRUE
    /\ UNCHANGED <<logs, connected, queue, page, overtaken>>

Delete(id) ==
    /\ Changing
    /\ id \in DOMAIN streams
    /\ streams' = Drop(streams, id)
    /\ states' = Drop(states, id)
    /\ emitsChange(Event("stream_deleted", id, ""))
    /\ UNCHANGED <<logs, page>>

\* Its save fails.
DeleteUnsaved(id) ==
    /\ Breaking
    /\ id \in DOMAIN streams
    /\ streams' = Drop(streams, id)
    /\ states' = Drop(states, id)
    /\ suspect' = TRUE
    /\ UNCHANGED <<logs, connected, queue, page, overtaken>>

\* SetState and UpdateState; the jobs may still report on a deleted stream.
UpdateState(id, status) ==
    /\ Changing
    /\ stateLocked(id) # status
    /\ states' = Put(states, id, status)
    /\ emitsChange(Event("stream_state", id, status))
    /\ UNCHANGED <<streams, logs, page>>

-----------------------------------------------------------------------------
(* The log *)

\* pruneLogsLocked: newest first, each stream has its own retention and count.
\* A line without a stream id would be kept for good (store.go:529), but no caller
\* of AppendLogCode has one: jobs.go logs for streams that Get has found, and
\* Upsert refuses an empty id.
Newer(ls, i) == {j \in i + 1..Len(ls) : ~ls[j].old /\ ls[j].stream = ls[i].stream}

\* The place of i among the indices in I, and the lines of ls at those indices, in order.
Rank(I, i) == Cardinality({j \in I : j <= i})
SelectByIndex(ls, I) == [k \in 1..Cardinality(I) |-> ls[CHOOSE i \in I : Rank(I, i) = k]]

pruneLogsLocked_Global(ls) ==
    LET kept == {i \in DOMAIN ls : ~ls[i].old /\ Len(ls) - i < MaxLogsPerStream}
    IN  SelectByIndex(ls, kept)
pruneLogsLocked(ls) ==
    LET kept == {i \in DOMAIN ls : ~ls[i].old /\ Cardinality(Newer(ls, i)) < MaxLogsPerStream}
    IN  SelectByIndex(ls, kept)

AppendLogCode(id) ==
    /\ logs' = pruneLogsLocked(Append(logs, [stream |-> id, old |-> FALSE]))
    /\ emitLocked(Event("stream_log", "", ""))
    /\ UNCHANGED <<store, page, bounds, history>>

\* ClearLogs of one stream or of all.
ClearLogs(ids) ==
    /\ logs' = SelectByIndex(logs, {i \in DOMAIN logs : logs[i].stream \notin ids})
    /\ emitLocked(Event("logs_cleared", "", ""))
    /\ UNCHANGED <<store, page, bounds, history>>

\* Time passes: what stream id has logged is older than its log_retention_seconds.
Expire(id) ==
    /\ \E i \in DOMAIN logs : logs[i].stream = id /\ ~logs[i].old
    /\ logs' = [i \in DOMAIN logs |-> IF logs[i].stream = id THEN [logs[i] EXCEPT !.old = TRUE] ELSE logs[i]]
    /\ UNCHANGED <<store, connected, queue, page, bounds, history>>

-----------------------------------------------------------------------------
(* The connection *)

\* events: the handler subscribes when the request arrives.
Subscribe ==
    /\ ~connected
    /\ connected' = TRUE
    /\ UNCHANGED <<store, logs, queue, page, bounds, history>>

\* The request's context ends: an error, or the page renews its token.  What
\* the channel holds is lost; the page connects again and does not load.
Disconnect ==
    /\ connected /\ Breaking
    /\ connected' = FALSE
    /\ queue' = <<>>
    /\ suspect' = TRUE
    /\ UNCHANGED <<store, logs, page, overtaken>>

-----------------------------------------------------------------------------
(* The page *)

\* load: one request at a time; another is remembered once.
load_Forgets ==
    /\ loading' = IF loading = "no" THEN "asked" ELSE loading
    /\ UNCHANGED <<view, answer, reloadQueued>>
load ==
    /\ IF loading = "no" THEN loading' = "asked" /\ UNCHANGED reloadQueued
       ELSE reloadQueued' = TRUE /\ UNCHANGED loading
    /\ UNCHANGED <<view, answer>>

\* The operator's own commands are followed by a load.
Command ==
    /\ load
    /\ UNCHANGED <<store, logs, connected, queue, bounds, history>>

\* listStreams answers.  From here on, events that are applied before the
\* answer is are newer than it or as old; and what the page has missed is made
\* good, unless an older event is still to come.
ServerAnswers ==
    /\ loading = "asked"
    /\ loading' = "answered"
    /\ answer' = StoreView
    /\ suspect' = (suspect /\ ~(connected /\ queue = <<>>))
    /\ overtaken' = {}
    /\ UNCHANGED <<store, logs, connected, queue, view, reloadQueued, bounds>>

\* The finally clause of load.
Finally_Forgets ==
    /\ loading' = "no"
    /\ reloadQueued' = FALSE
    /\ answer' = Nothing
Finally ==
    /\ loading' = IF reloadQueued THEN "asked" ELSE "no"
    /\ reloadQueued' = FALSE
    /\ answer' = Nothing

LoadDone ==
    /\ loading = "answered"
    /\ view' = answer
    /\ Finally
    /\ UNCHANGED <<store, logs, connected, queue, bounds, history>>

LoadFails ==
    /\ loading # "no" /\ Breaking
    /\ Finally
    /\ suspect' = TRUE
    /\ UNCHANGED <<store, logs, connected, queue, view, overtaken>>

\* The answer that is on its way says something else than this report.
Contradicted(e) == loading = "answered" /\ e.id \in DOMAIN answer /\ answer[e.id].state # e.status

\* _applyStreamState: a stream that the page shows gets the state as it comes,
\* and the answer that comes after it is applied all the same.
applyStreamState(e) ==
    /\ view' = IF e.id \in DOMAIN view THEN [view EXCEPT ![e.id].state = e.status] ELSE view
    /\ overtaken' = IF Contradicted(e) THEN overtaken \cup {e.id} ELSE overtaken \ {e.id}
    /\ UNCHANGED <<loading, answer, reloadQueued, suspect>>

\* The listener of subscribe: a change of the streams is loaded; the rest is
\* for other pages.
Listen(e) ==
    CASE e.type = "stream_state" -> applyStreamState(e)
      [] e.type \in {"stream_saved", "stream_deleted"} -> load /\ UNCHANGED history
      [] OTHER -> UNCHANGED <<page, history>>

Deliver ==
    /\ queue # <<>>
    /\ queue' = Tail(queue)
    /\ Listen(Head(queue))
    /\ UNCHANGED <<store, logs, connected, bounds>>

Next ==
    \/ \E id \in StreamIds :
          \/ \E c \in Configs : Upsert(id, c) \/ UpsertUnsaved(id, c)
          \/ Delete(id) \/ DeleteUnsaved(id)
          \/ \E status \in Statuses : UpdateState(id, status)
    \/ \E id \in Loggers : AppendLogCode(id) \/ Expire(id) \/ ClearLogs({id})
    \/ ClearLogs(Loggers)
    \/ Subscribe \/ Disconnect
    \/ Command \/ ServerAnswers \/ LoadDone \/ LoadFails \/ Deliver

Spec == Init /\ [][Next]_vars

\* The server answers requests and the browser runs its callbacks; nobody is
\* bound to act, to fail or to write logs.
FairSpec ==
    /\ Spec
    /\ WF_vars(ServerAnswers) /\ WF_vars(LoadDone) /\ WF_vars(Deliver) /\ WF_vars(Subscribe)

-----------------------------------------------------------------------------
(* Properties *)

TypeOK ==
    /\ DOMAIN streams \subseteq StreamIds /\ DOMAIN states \subseteq StreamIds
    /\ DOMAIN view \subseteq StreamIds
    /\ Len(queue) <= Capacity /\ (~connected => queue = <<>>)
    /\ loading \in {"no", "asked", "answered"}
    /\ loading = "no" => ~reloadQueued
    /\ \A id \in Loggers : Cardinality({i \in DOMAIN logs : logs[i].stream = id}) <= MaxLogsPerStream

\* The page has the store's streams as they are configured, and their states
\* except of those in ids.
ShowsAllBut(ids) ==
    /\ DOMAIN view = DOMAIN streams
    /\ \A id \in DOMAIN streams :
          /\ view[id].config = streams[id]
          /\ id \notin ids => view[id].state = stateLocked(id)

\* A page comes to show what the store holds: events and loads together leave no
\* gap, in whatever order they interleave, except where the page was not told
\* (an event dropped or lost with its connection, a save or a load that failed),
\* and except the state of a stream whose report was overwritten by an older
\* answer.
PageCatchesUp == ~suspect ~> (suspect \/ ShowsAllBut(overtaken))

\* A page that has been told everything, has handled every event and waits for no
\* answer has exactly the store's streams, as they are configured, and the state
\* of each of them, with one exception: load (streams_cubit.dart:82-89) puts its
\* answer over whatever _applyStreamState (156-172) has shown since the server
\* made it, so a stream of which a report that contradicts the answer was applied
\* in between may show the older state.  Nothing else is undone: no
\* configuration or deletion, no other stream's state, no reload.
PageIsCurrent == ~suspect /\ queue = <<>> /\ loading = "no" => ShowsAllBut(overtaken)

\* store.go:515-519: "a noisy stream can't evict another stream's logs": a line
\* within its retention goes only when its logs are cleared or its own stream
\* has filled its quota.
Fresh(ls, id) == Cardinality({i \in DOMAIN ls : ls[i].stream = id /\ ~ls[i].old})
NoisyIsContained ==
    [][ \/ \E id \in Loggers : Expire(id) \/ ClearLogs({id})
        \/ ClearLogs(Loggers)
        \/ \A id \in Loggers : Fresh(logs', id) >= Fresh(logs, id) ]_vars

-----------------------------------------------------------------------------
(* Refuted *)

\* That no event is undone by an older answer.  It fails: a stream starts while the
\* page loads, its report is applied, and the answer made before it shows the
\* stream as stopped until the next report or load.
NoEventIsUndone == ~suspect /\ queue = <<>> /\ loading = "no" => view = StoreView
=============================================================================

-------------------------- MODULE EventFeedProofs --------------------------
(***************************************************************************)
(* Proofs about EventFeed, for any streams, any channel capacity and any   *)
(* interleaving of changes, events and loads: a page that was told         *)
(* everything, and has nothing left to handle, shows the store, but for    *)
(* the states that an older answer has overwritten.  And, for any quota    *)
(* and any number of streams, that a stream which logs a lot costs no      *)
(* other stream a line.                                                    *)
(***************************************************************************)
EXTENDS EventFeed, FiniteSetTheorems, TLAPS

-----------------------------------------------------------------------------
(* The inductive invariant *)

EventType ==
    [type : {"stream_state"}, id : StreamIds, status : Statuses]
      \cup [type : {"stream_saved", "stream_deleted"}, id : StreamIds, status : {""}]
      \cup [type : {"stream_log", "logs_cleared"}, id : {""}, status : {""}]

\* The functions that the store and the page hold.
Partial(f, S) == f \in [DOMAIN f -> S] /\ DOMAIN f \subseteq StreamIds
Shown == [config : Configs, state : Statuses]

Shape ==
    /\ Partial(streams, Configs) /\ Partial(states, Statuses)
    /\ Partial(view, Shown) /\ Partial(answer, Shown)
    /\ queue \in Seq(EventType)
    /\ loading \in {"no", "asked", "answered"}
    /\ reloadQueued \in BOOLEAN /\ suspect \in BOOLEAN
    /\ loading = "no" => ~reloadQueued

Reloads(e) == e.type \in {"stream_saved", "stream_deleted"}
Reports(e, id) == e.type = "stream_state" /\ e.id = id

\* A report in the channel is true, or something after it corrects it: a later
\* report, or a change that makes the page load.
ReportsCorrected ==
    \A i \in 1..Len(queue) :
        queue[i].type = "stream_state" =>
            \/ queue[i].status = stateLocked(queue[i].id)
            \/ \E j \in 1..Len(queue) :
                  i < j /\ (Reloads(queue[j]) \/ Reports(queue[j], queue[i].id))

\* No answer is to be made for a request that is on its way or will be.
NoReload == loading # "asked" /\ ~reloadQueued /\ \A i \in 1..Len(queue) : ~Reloads(queue[i])

\* What the page will show when the answer that is on its way has come.
Shows == IF loading = "answered" THEN answer ELSE view

\* A page that is not going to load has the store's streams, and their states
\* except where a report is still to come or an older answer overwrites one.
Current ==
    NoReload =>
        /\ DOMAIN Shows = DOMAIN streams
        /\ \A id \in DOMAIN streams :
              /\ Shows[id].config = streams[id]
              /\ \/ Shows[id].state = stateLocked(id)
                 \/ \E i \in 1..Len(queue) : Reports(queue[i], id)
                 \/ id \in overtaken

IndInv == Shape /\ (~suspect => ReportsCorrected /\ Current)

-----------------------------------------------------------------------------
(* Sequences of events *)

\* What Append does to a channel.
LEMMA AppendFacts ==
    ASSUME NEW q \in Seq(EventType), NEW e \in EventType
    PROVE  /\ Append(q, e) \in Seq(EventType)
           /\ Len(q) \in Nat /\ Len(Append(q, e)) = Len(q) + 1
           /\ Append(q, e)[Len(q) + 1] = e
           /\ \A i \in 1..Len(q) : Append(q, e)[i] = q[i]
  OBVIOUS

\* An empty channel.
LEMMA NoEvents == <<>> \in Seq(EventType)
  OBVIOUS

\* What receiving does to a channel.
LEMMA TailFacts ==
    ASSUME NEW q \in Seq(EventType), q # <<>>
    PROVE  /\ Tail(q) \in Seq(EventType) /\ Head(q) = q[1] /\ q[1] \in EventType
           /\ Len(q) \in Nat /\ Len(q) >= 1 /\ Len(Tail(q)) = Len(q) - 1
           /\ \A i \in 1..(Len(q) - 1) : Tail(q)[i] = q[i + 1]
  OBVIOUS

\* The events that are emitted are events.
LEMMA EventsAreEvents ==
    /\ \A id \in StreamIds : Event("stream_saved", id, "") \in EventType
    /\ \A id \in StreamIds : Event("stream_deleted", id, "") \in EventType
    /\ \A id \in StreamIds, s \in Statuses : Event("stream_state", id, s) \in EventType
    /\ Event("stream_log", "", "") \in EventType /\ Event("logs_cleared", "", "") \in EventType
  BY DEF Event, EventType

\* An emitted event goes to the end of the channel or is dropped.
LEMMA EmitType ==
    ASSUME Shape, NEW e \in EventType, emitLocked(e)
    PROVE  queue' \in Seq(EventType) /\ (queue' = queue \/ queue' = Append(queue, e))
  BY AppendFacts DEF emitLocked, Shape

-----------------------------------------------------------------------------
(* Types *)

\* Saving and dropping an entry keep the type of a function.
LEMMA PartialFacts ==
    ASSUME NEW S, NEW f, Partial(f, S)
    PROVE  /\ \A k \in StreamIds, v \in S : Partial(Put(f, k, v), S)
           /\ \A k : Partial(Drop(f, k), S)
  BY DEF Partial, Put, Drop

\* List returns configurations and states.
LEMMA StoreViewType ==
    ASSUME Partial(streams, Configs), Partial(states, Statuses)
    PROVE  Partial(StoreView, Shown)
  <1>1. \A id : stateLocked(id) \in Statuses
    BY DEF stateLocked, Partial, Statuses
  <1>2. \A id \in DOMAIN streams : streams[id] \in Configs
    BY DEF Partial
  <1> QED
    BY <1>1, <1>2 DEF StoreView, Partial, Shown

\* The empty function has every type.
LEMMA NothingType == \A S : Partial(Nothing, S)
  <1>1. DOMAIN Nothing = {} /\ Nothing = [x \in {} |-> x]
    BY DEF Nothing
  <1> QED
    BY <1>1 DEF Partial

\* The types hold at first.
LEMMA ShapeInit == Init => Shape
  <1> SUFFICES ASSUME Init PROVE Shape
    OBVIOUS
  <1>1. Partial(streams, Configs) /\ Partial(states, Statuses) /\ Partial(view, Shown) /\ Partial(answer, Shown)
    BY NothingType DEF Init
  <1>2. queue \in Seq(EventType)
    BY NoEvents DEF Init
  <1>3. loading \in {"no", "asked", "answered"} /\ (loading = "no" => ~reloadQueued)
    BY DEF Init
  <1>4. reloadQueued \in BOOLEAN /\ suspect \in BOOLEAN
    BY Zenon DEF Init
  <1> QED
    BY <1>1, <1>2, <1>3, <1>4 DEF Shape

\* The part of the types that is about the page, and the part about the store.
PageShape ==
    /\ Partial(view, Shown) /\ Partial(answer, Shown)
    /\ loading \in {"no", "asked", "answered"}
    /\ reloadQueued \in BOOLEAN
    /\ loading = "no" => ~reloadQueued
StoreShape == Partial(streams, Configs) /\ Partial(states, Statuses)

\* The types are those of the two sides, of the channel and of the history.
LEMMA ShapeParts ==
    /\ (Shape <=> (StoreShape /\ PageShape /\ queue \in Seq(EventType) /\ suspect \in BOOLEAN))
    /\ (Shape' <=> (StoreShape' /\ PageShape' /\ queue' \in Seq(EventType) /\ suspect' \in BOOLEAN))
  BY DEF Shape, StoreShape, PageShape

\* A side that does not move keeps its types.
LEMMA Still ==
    /\ (StoreShape /\ UNCHANGED store => StoreShape')
    /\ (PageShape /\ UNCHANGED page => PageShape')
  BY DEF StoreShape, PageShape, store, page

\* A change of the store keeps the types.
LEMMA ShapeChange ==
    ASSUME Shape, NEW id \in StreamIds,
           \/ \E c \in Configs : Upsert(id, c) \/ UpsertUnsaved(id, c)
           \/ Delete(id) \/ DeleteUnsaved(id)
           \/ \E status \in Statuses : UpdateState(id, status)
    PROVE  Shape'
  <1>1. /\ StoreShape /\ PageShape /\ queue \in Seq(EventType) /\ suspect \in BOOLEAN
    BY ShapeParts
  <1>2. PageShape'
    BY <1>1, Still DEF Upsert, UpsertUnsaved, Delete, DeleteUnsaved, UpdateState
  <1>3. Partial(streams', Configs)
    <2>1. ASSUME NEW c \in Configs, Upsert(id, c) \/ UpsertUnsaved(id, c)
          PROVE  Partial(streams', Configs)
      BY <1>1, <2>1 DEF Upsert, UpsertUnsaved, StoreShape, Partial, Put
    <2>2. CASE Delete(id) \/ DeleteUnsaved(id)
      BY <1>1, <2>2 DEF Delete, DeleteUnsaved, StoreShape, Partial, Drop
    <2>3. ASSUME NEW status \in Statuses, UpdateState(id, status)
          PROVE  Partial(streams', Configs)
      BY <1>1, <2>3 DEF UpdateState, StoreShape
    <2> QED
      BY <2>1, <2>2, <2>3
  <1>4. Partial(states', Statuses)
    <2>1. "stopped" \in Statuses
      BY DEF Statuses
    <2>2. ASSUME NEW c \in Configs, Upsert(id, c) \/ UpsertUnsaved(id, c)
          PROVE  Partial(states', Statuses)
      BY <1>1, <2>1, <2>2 DEF Upsert, UpsertUnsaved, StoreShape, Partial, Put
    <2>3. CASE Delete(id) \/ DeleteUnsaved(id)
      BY <1>1, <2>3 DEF Delete, DeleteUnsaved, StoreShape, Partial, Drop
    <2>4. ASSUME NEW status \in Statuses, UpdateState(id, status)
          PROVE  Partial(states', Statuses)
      BY <1>1, <2>4 DEF UpdateState, StoreShape, Partial, Put
    <2> QED
      BY <2>2, <2>3, <2>4
  <1>5. queue' \in Seq(EventType)
    BY <1>1, EmitType, EventsAreEvents DEF Upsert, UpsertUnsaved, Delete, DeleteUnsaved, UpdateState, emitsChange
  <1>6. suspect' \in BOOLEAN
    BY <1>1, Zenon DEF Upsert, UpsertUnsaved, Delete, DeleteUnsaved, UpdateState, emitsChange
  <1> QED
    BY <1>2, <1>3, <1>4, <1>5, <1>6, ShapeParts DEF StoreShape

\* The log and the connection keep the types.
LEMMA ShapeLink ==
    ASSUME Shape,
           \/ \E id \in Loggers : AppendLogCode(id) \/ Expire(id) \/ ClearLogs({id})
           \/ ClearLogs(Loggers) \/ Subscribe \/ Disconnect
    PROVE  Shape'
  <1>1. /\ StoreShape /\ PageShape /\ queue \in Seq(EventType) /\ suspect \in BOOLEAN
    BY ShapeParts
  <1>2. StoreShape' /\ PageShape'
    BY <1>1, Still DEF AppendLogCode, Expire, ClearLogs, Subscribe, Disconnect
  <1>3. queue' \in Seq(EventType)
    <2>1. CASE emitLocked(Event("stream_log", "", "")) \/ emitLocked(Event("logs_cleared", "", ""))
      BY <2>1, EmitType, EventsAreEvents
    <2>2. CASE UNCHANGED queue \/ queue' = <<>>
      BY <1>1, <2>2, NoEvents
    <2> QED
      BY <2>1, <2>2 DEF AppendLogCode, Expire, ClearLogs, Subscribe, Disconnect
  <1>4. suspect' \in BOOLEAN
    BY <1>1, Zenon DEF AppendLogCode, Expire, ClearLogs, Subscribe, Disconnect, history
  <1> QED
    BY <1>2, <1>3, <1>4, ShapeParts

\* load keeps the types of the page.
LEMMA LoadType ==
    ASSUME PageShape, load
    PROVE  PageShape'
  BY DEF PageShape, load

\* The page keeps the types.
LEMMA ShapePage ==
    ASSUME Shape, Command \/ ServerAnswers \/ LoadDone \/ LoadFails \/ Deliver
    PROVE  Shape'
  <1>1. /\ StoreShape /\ PageShape /\ queue \in Seq(EventType) /\ suspect \in BOOLEAN
    BY ShapeParts
  <1>2. StoreShape'
    BY <1>1, Still DEF Command, ServerAnswers, LoadDone, LoadFails, Deliver
  <1>3. queue' \in Seq(EventType)
    BY <1>1, TailFacts DEF Command, ServerAnswers, LoadDone, LoadFails, Deliver
  <1>4. suspect' \in BOOLEAN
    BY <1>1, Zenon DEF Command, ServerAnswers, LoadDone, LoadFails, Deliver, Listen, applyStreamState, history
  <1>5. PageShape'
    <2>1. CASE Command
      BY <1>1, <2>1, LoadType DEF Command
    <2>2. CASE ServerAnswers
      <3>1. Partial(StoreView, Shown)
        BY <1>1, StoreViewType DEF StoreShape
      <3> QED
        BY <1>1, <2>2, <3>1 DEF ServerAnswers, PageShape
    <2>3. CASE LoadDone \/ LoadFails
      <3>1. Partial(answer', Shown)
        BY <2>3, NothingType DEF LoadDone, LoadFails, Finally
      <3> QED
        BY <1>1, <2>3, <3>1 DEF LoadDone, LoadFails, Finally, PageShape
    <2>4. CASE Deliver
      <3>1. Head(queue) \in EventType /\ Listen(Head(queue))
        BY <1>1, <2>4, TailFacts DEF Deliver
      <3>2. CASE Head(queue).type = "stream_state"
        <4>1. applyStreamState(Head(queue))
          BY <3>1, <3>2 DEF Listen
        <4>2. Head(queue).id \in StreamIds /\ Head(queue).status \in Statuses
          BY <3>1, <3>2 DEF EventType
        <4>3. Partial(view', Shown)
          <5>1. Partial(view, Shown)
            BY <1>1 DEF PageShape
          <5>2. CASE Head(queue).id \in DOMAIN view
            <6> DEFINE id == Head(queue).id
            <6>1. view' = [view EXCEPT ![id] = [view[id] EXCEPT !.state = Head(queue).status]]
              BY <4>1, <5>2 DEF applyStreamState
            <6>2. [view[id] EXCEPT !.state = Head(queue).status] \in Shown
              BY <4>2, <5>1, <5>2 DEF Partial, Shown
            <6> QED
              BY <5>1, <6>1, <6>2 DEF Partial
          <5>3. CASE Head(queue).id \notin DOMAIN view
            BY <4>1, <5>1, <5>3 DEF applyStreamState
          <5> QED
            BY <5>2, <5>3
        <4> QED
          BY <1>1, <4>1, <4>3 DEF applyStreamState, PageShape
      <3>3. CASE Head(queue).type \in {"stream_saved", "stream_deleted"}
        BY <1>1, <3>1, <3>3, LoadType DEF Listen
      <3>4. CASE Head(queue).type \notin {"stream_state", "stream_saved", "stream_deleted"}
        BY <1>1, <3>1, <3>4, Still DEF Listen
      <3> QED
        BY <3>2, <3>3, <3>4
    <2> QED
      BY <2>1, <2>2, <2>3, <2>4
  <1> QED
    BY <1>2, <1>3, <1>4, <1>5, ShapeParts

-----------------------------------------------------------------------------
(* What the store does to the invariant *)

\* A change that makes the page load keeps the invariant: behind it nothing in
\* the channel has to be right.
LEMMA ReloadEmitted ==
    ASSUME Shape, NEW e \in EventType, Reloads(e), emitsChange(e)
    PROVE  ~suspect' => ReportsCorrected' /\ Current'
  <1> SUFFICES ASSUME ~suspect' PROVE ReportsCorrected' /\ Current'
    OBVIOUS
  <1>1. queue' = Append(queue, e) /\ queue \in Seq(EventType)
    BY DEF emitsChange, emitLocked, Shape
  <1>2. Len(queue') = Len(queue) + 1 /\ queue'[Len(queue) + 1] = e /\ Len(queue) \in Nat
    BY <1>1, AppendFacts
  <1>3. ReportsCorrected'
    <2> SUFFICES ASSUME NEW i \in 1..Len(queue'), queue'[i].type = "stream_state"
                 PROVE  \E j \in 1..Len(queue') : i < j /\ Reloads(queue'[j])
      BY DEF ReportsCorrected
    <2>1. i # Len(queue) + 1
      BY <1>2 DEF Reloads
    <2> QED
      BY <1>2, <2>1
  <1>4. ~NoReload'
    BY <1>2 DEF NoReload
  <1> QED
    BY <1>3, <1>4 DEF Current

\* An event that is no report and no change of the streams, or one that is
\* dropped, keeps the invariant.
LEMMA OtherEmitted ==
    ASSUME IndInv, NEW e \in EventType, ~Reloads(e), e.type # "stream_state", emitLocked(e),
           UNCHANGED <<store, page, history>>
    PROVE  ~suspect' => ReportsCorrected' /\ Current'
  <1> SUFFICES ASSUME ~suspect' PROVE ReportsCorrected' /\ Current'
    OBVIOUS
  <1>1. ReportsCorrected /\ Current /\ queue \in Seq(EventType) /\ UNCHANGED overtaken
    BY DEF IndInv, Shape, history
  <1>2. CASE queue' = queue
    BY <1>1, <1>2 DEF store, page, history, ReportsCorrected, Current, NoReload, Shows, stateLocked
  <1>3. CASE queue' = Append(queue, e)
    <2>1. /\ Len(queue') = Len(queue) + 1 /\ queue'[Len(queue) + 1] = e /\ Len(queue) \in Nat
          /\ \A i \in 1..Len(queue) : queue'[i] = queue[i]
      BY <1>1, <1>3, AppendFacts
    <2>2. \A id : stateLocked(id)' = stateLocked(id)
      BY DEF store, stateLocked
    <2>3. ReportsCorrected'
      <3> SUFFICES ASSUME NEW i \in 1..Len(queue'), queue'[i].type = "stream_state"
                   PROVE  \/ queue'[i].status
                               = IF queue'[i].id \in DOMAIN states' THEN states'[queue'[i].id] ELSE "stopped"
                          \/ \E j \in 1..Len(queue') :
                                i < j /\ (Reloads(queue'[j]) \/ Reports(queue'[j], queue'[i].id))
        BY DEF ReportsCorrected, stateLocked
      <3>1. i \in 1..Len(queue) /\ queue'[i] = queue[i]
        BY <2>1
      <3>2. \/ queue[i].status = stateLocked(queue[i].id)
            \/ \E j \in 1..Len(queue) : i < j /\ (Reloads(queue[j]) \/ Reports(queue[j], queue[i].id))
        BY <1>1, <3>1 DEF ReportsCorrected
      <3>3. stateLocked(queue[i].id) = IF queue[i].id \in DOMAIN states' THEN states'[queue[i].id] ELSE "stopped"
        BY DEF store, stateLocked
      <3>4. ASSUME NEW j \in 1..Len(queue), i < j, Reloads(queue[j]) \/ Reports(queue[j], queue[i].id)
            PROVE  \E k \in 1..Len(queue') : i < k /\ (Reloads(queue'[k]) \/ Reports(queue'[k], queue'[i].id))
        BY <2>1, <3>1, <3>4
      <3> QED
        BY <3>1, <3>2, <3>3, <3>4
    <2>4. Current'
      <3> SUFFICES ASSUME NoReload' PROVE Current'
        BY DEF Current
      <3>1. NoReload
        BY <2>1 DEF NoReload, page
      <3>2. Shows' = Shows /\ UNCHANGED streams
        BY DEF Shows, page, store
      <3>3. \A id : (\E i \in 1..Len(queue) : Reports(queue[i], id)) => \E i \in 1..Len(queue') : Reports(queue'[i], id)
        BY <2>1
      <3> QED
        BY <1>1, <2>2, <3>1, <3>2, <3>3 DEF Current
    <2> QED
      BY <2>3, <2>4
  <1> QED
    BY <1>2, <1>3 DEF emitLocked

\* A report keeps the invariant: it is true, and corrects the ones before it.
LEMMA ReportEmitted ==
    ASSUME IndInv, NEW x \in StreamIds, NEW s \in Statuses, UpdateState(x, s)
    PROVE  ~suspect' => ReportsCorrected' /\ Current'
  <1> SUFFICES ASSUME ~suspect' PROVE ReportsCorrected' /\ Current'
    OBVIOUS
  <1> DEFINE e == Event("stream_state", x, s)
  <1>1. /\ ~suspect /\ queue' = Append(queue, e)
    BY DEF UpdateState, emitsChange, emitLocked
  <1>2. ReportsCorrected /\ Current /\ queue \in Seq(EventType)
    BY <1>1 DEF IndInv, Shape
  <1>3. e \in EventType /\ e.type = "stream_state" /\ e.id = x /\ e.status = s
    BY EventsAreEvents DEF Event
  <1> HIDE DEF e
  <1>4. /\ Len(queue') = Len(queue) + 1 /\ queue'[Len(queue) + 1] = e /\ Len(queue) \in Nat
        /\ \A i \in 1..Len(queue) : queue'[i] = queue[i]
    BY <1>1, <1>2, <1>3, AppendFacts
  <1>5. states' = Put(states, x, s) /\ UNCHANGED <<streams, page, overtaken>>
    BY DEF UpdateState, emitsChange
  <1>6. \A id : (IF id \in DOMAIN states' THEN states'[id] ELSE "stopped") = IF id = x THEN s ELSE stateLocked(id)
    BY <1>5 DEF Put, stateLocked
  <1>7. ReportsCorrected'
    <2> SUFFICES ASSUME NEW i \in 1..Len(queue'), queue'[i].type = "stream_state"
                 PROVE  \/ queue'[i].status
                             = IF queue'[i].id \in DOMAIN states' THEN states'[queue'[i].id] ELSE "stopped"
                        \/ \E j \in 1..Len(queue') :
                              i < j /\ (Reloads(queue'[j]) \/ Reports(queue'[j], queue'[i].id))
      BY DEF ReportsCorrected, stateLocked
    <2>1. CASE queue'[i].id = x
      <3>1. CASE i = Len(queue) + 1
        BY <1>3, <1>4, <1>6, <3>1
      <3>2. CASE i # Len(queue) + 1
        <4>1. Reports(queue'[Len(queue) + 1], x)
          BY <1>3, <1>4 DEF Reports
        <4> QED
          BY <1>4, <2>1, <3>2, <4>1
      <3> QED
        BY <3>1, <3>2
    <2>2. CASE queue'[i].id # x
      <3>1. i \in 1..Len(queue) /\ queue'[i] = queue[i]
        BY <1>3, <1>4, <2>2
      <3>2. \/ queue[i].status = stateLocked(queue[i].id)
            \/ \E j \in 1..Len(queue) : i < j /\ (Reloads(queue[j]) \/ Reports(queue[j], queue[i].id))
        BY <1>2, <3>1 DEF ReportsCorrected
      <3> QED
        BY <1>4, <1>6, <2>2, <3>1, <3>2
    <2> QED
      BY <2>1, <2>2
  <1>8. Current'
    <2> SUFFICES ASSUME NoReload'
                 PROVE  /\ DOMAIN Shows' = DOMAIN streams'
                        /\ \A id \in DOMAIN streams' :
                              /\ Shows'[id].config = streams'[id]
                              /\ \/ Shows'[id].state = IF id \in DOMAIN states' THEN states'[id] ELSE "stopped"
                                 \/ \E i \in 1..Len(queue') : Reports(queue'[i], id)
                                 \/ id \in overtaken'
      BY DEF Current, stateLocked
    <2>1. NoReload
      BY <1>4, <1>5 DEF NoReload, page
    <2>2. Shows' = Shows
      BY <1>5 DEF Shows, page
    <2>3. \A id : (\E i \in 1..Len(queue) : Reports(queue[i], id)) => \E i \in 1..Len(queue') : Reports(queue'[i], id)
      BY <1>4
    <2>4. \E i \in 1..Len(queue') : Reports(queue'[i], x)
      BY <1>3, <1>4 DEF Reports
    <2> QED
      BY <1>2, <1>5, <1>6, <2>1, <2>2, <2>3, <2>4 DEF Current
  <1> QED
    BY <1>7, <1>8

\* A step that changes nothing the invariant is about keeps it.
LEMMA NothingMoves ==
    ASSUME IndInv, UNCHANGED <<store, queue, page, history>>
    PROVE  ~suspect' => ReportsCorrected' /\ Current'
  BY DEF IndInv, store, page, history, ReportsCorrected, Current, NoReload, Shows, stateLocked

\* The store, the log and the connection keep the invariant.
LEMMA TruthStore ==
    ASSUME IndInv,
           \/ \E id \in StreamIds :
                 \/ \E c \in Configs : Upsert(id, c) \/ UpsertUnsaved(id, c)
                 \/ Delete(id) \/ DeleteUnsaved(id)
                 \/ \E status \in Statuses : UpdateState(id, status)
           \/ \E id \in Loggers : AppendLogCode(id) \/ Expire(id) \/ ClearLogs({id})
           \/ ClearLogs(Loggers) \/ Subscribe \/ Disconnect
    PROVE  ~suspect' => ReportsCorrected' /\ Current'
  <1>1. Shape
    BY DEF IndInv
  <1>2. ASSUME NEW id \in StreamIds, NEW c \in Configs, Upsert(id, c)
        PROVE  ~suspect' => ReportsCorrected' /\ Current'
    <2>1. Reloads(Event("stream_saved", id, ""))
      BY DEF Reloads, Event
    <2> QED
      BY <1>1, <1>2, <2>1, ReloadEmitted, EventsAreEvents DEF Upsert
  <1>3. ASSUME NEW id \in StreamIds, Delete(id)
        PROVE  ~suspect' => ReportsCorrected' /\ Current'
    <2>1. Reloads(Event("stream_deleted", id, ""))
      BY DEF Reloads, Event
    <2> QED
      BY <1>1, <1>3, <2>1, ReloadEmitted, EventsAreEvents DEF Delete
  <1>4. ASSUME \/ \E id \in StreamIds, c \in Configs : UpsertUnsaved(id, c)
               \/ \E id \in StreamIds : DeleteUnsaved(id)
               \/ Disconnect
        PROVE  suspect'
    BY <1>4 DEF UpsertUnsaved, DeleteUnsaved, Disconnect
  <1>5. ASSUME \/ \E id \in Loggers : AppendLogCode(id) \/ ClearLogs({id})
               \/ ClearLogs(Loggers)
        PROVE  ~suspect' => ReportsCorrected' /\ Current'
    <2>1. PICK e \in {Event("stream_log", "", ""), Event("logs_cleared", "", "")} :
             emitLocked(e) /\ UNCHANGED <<store, page, history>>
      BY <1>5 DEF AppendLogCode, ClearLogs
    <2>2. e \in EventType /\ ~Reloads(e) /\ e.type # "stream_state"
      <3>1. Event("stream_log", "", "").type = "stream_log" /\ Event("logs_cleared", "", "").type = "logs_cleared"
        BY DEF Event
      <3>2. e.type \in {"stream_log", "logs_cleared"}
        BY <2>1, <3>1
      <3> QED
        BY <2>1, <3>2, EventsAreEvents DEF Reloads
    <2> QED
      BY <2>1, <2>2, OtherEmitted
  <1>6. ASSUME (\E id \in Loggers : Expire(id)) \/ Subscribe
        PROVE  ~suspect' => ReportsCorrected' /\ Current'
    BY <1>6, NothingMoves DEF Expire, Subscribe
  <1> QED
    BY <1>2, <1>3, <1>4, <1>5, <1>6, ReportEmitted

-----------------------------------------------------------------------------
(* What the page does to the invariant *)

\* load keeps the invariant: a request is on its way, or will be.
LEMMA LoadIsAsked ==
    ASSUME Shape, load
    PROVE  ~NoReload'
  BY DEF load, NoReload, Shape

\* Nothing that the reports in the channel are measured by has changed.
LEMMA ReportsKept ==
    ASSUME ReportsCorrected, UNCHANGED <<store, queue>>
    PROVE  ReportsCorrected'
  BY DEF ReportsCorrected, stateLocked, store

\* A load that is asked for, answered or over keeps the invariant.  An answer
\* is true when it is made, and what it misses comes after it in the channel.
LEMMA TruthLoad ==
    ASSUME IndInv, Command \/ ServerAnswers \/ LoadDone \/ LoadFails
    PROVE  ~suspect' => ReportsCorrected' /\ Current'
  <1> SUFFICES ASSUME ~suspect' PROVE ReportsCorrected' /\ Current'
    OBVIOUS
  <1>1. Shape
    BY DEF IndInv
  <1>2. CASE Command
    <2>1. ReportsCorrected /\ UNCHANGED <<store, queue>>
      BY <1>2 DEF Command, IndInv, history
    <2>2. ~NoReload'
      BY <1>1, <1>2, LoadIsAsked DEF Command
    <2> QED
      BY <2>1, <2>2, ReportsKept DEF Current
  <1>3. CASE ServerAnswers
    <2>1. UNCHANGED <<store, queue>> /\ (~suspect \/ queue = <<>>)
      BY <1>3 DEF ServerAnswers
    <2>2. ReportsCorrected'
      <3>1. CASE ~suspect
        BY <2>1, <3>1, ReportsKept DEF IndInv
      <3>2. CASE queue = <<>>
        <4>1. Len(queue') = 0
          BY <2>1, <3>2
        <4> QED
          BY <4>1 DEF ReportsCorrected
      <3> QED
        BY <2>1, <3>1, <3>2
    <2>3. Shows' = StoreView
      BY <1>3 DEF ServerAnswers, Shows
    <2>4. DOMAIN StoreView = DOMAIN streams
      BY DEF StoreView
    <2>5. \A id \in DOMAIN streams :
             StoreView[id].config = streams[id] /\ StoreView[id].state = stateLocked(id)
      BY DEF StoreView
    <2>6. UNCHANGED streams /\ \A id : stateLocked(id)' = stateLocked(id)
      BY <2>1 DEF store, stateLocked
    <2> QED
      BY <2>2, <2>3, <2>4, <2>5, <2>6 DEF Current
  <1>4. CASE LoadDone
    <2>1. ReportsCorrected /\ Current /\ UNCHANGED <<store, queue, overtaken>>
      BY <1>4 DEF LoadDone, IndInv, history
    <2>2. Current'
      <3> SUFFICES ASSUME NoReload' PROVE Current'
        BY DEF Current
      <3>1. ~reloadQueued /\ loading = "answered" /\ loading' = "no" /\ view' = answer
        BY <1>4 DEF LoadDone, Finally, NoReload
      <3>2. NoReload
        BY <2>1, <3>1 DEF NoReload
      <3>3. Shows' = Shows
        BY <3>1 DEF Shows
      <3>4. UNCHANGED streams /\ \A id : stateLocked(id)' = stateLocked(id)
        BY <2>1 DEF store, stateLocked
      <3> QED
        BY <2>1, <3>2, <3>3, <3>4 DEF Current
    <2> QED
      BY <2>1, <2>2, ReportsKept
  <1>5. CASE LoadFails
    BY <1>5 DEF LoadFails
  <1> QED
    BY <1>2, <1>3, <1>4, <1>5

\* A delivered event keeps the invariant: a change asks for a load, and a report
\* that nothing corrects is the state of its stream.
LEMMA TruthDeliver ==
    ASSUME IndInv, Deliver
    PROVE  ~suspect' => ReportsCorrected' /\ Current'
  <1> SUFFICES ASSUME ~suspect' PROVE ReportsCorrected' /\ Current'
    OBVIOUS
  <1> DEFINE e == Head(queue)
  <1>1. Shape /\ queue \in Seq(EventType) /\ queue # <<>> /\ queue' = Tail(queue) /\ UNCHANGED store /\ Listen(e)
    BY DEF Deliver, IndInv, Shape
  <1>2. /\ e = queue[1] /\ e \in EventType
        /\ Len(queue) \in Nat /\ Len(queue) >= 1 /\ Len(queue') = Len(queue) - 1
        /\ \A i \in 1..Len(queue') : queue'[i] = queue[i + 1]
    BY <1>1, TailFacts
  <1> HIDE DEF e
  <1>3. ~suspect
    <2>1. CASE e.type = "stream_state"
      BY <1>1, <2>1 DEF Listen, applyStreamState
    <2>2. CASE e.type \in {"stream_saved", "stream_deleted"}
      BY <1>1, <2>2 DEF Listen, history
    <2>3. CASE e.type \notin {"stream_state", "stream_saved", "stream_deleted"}
      BY <1>1, <2>3 DEF Listen, history
    <2> QED
      BY <2>1, <2>2, <2>3
  <1>4. ReportsCorrected /\ Current
    BY <1>3 DEF IndInv
  <1>5. UNCHANGED streams /\ \A id : stateLocked(id) = IF id \in DOMAIN states' THEN states'[id] ELSE "stopped"
    BY <1>1 DEF store, stateLocked
  <1>6. \A i \in 2..Len(queue) : i - 1 \in 1..Len(queue') /\ queue'[i - 1] = queue[i]
    BY <1>2
  <1>7. ReportsCorrected'
    <2> SUFFICES ASSUME NEW i \in 1..Len(queue'), queue'[i].type = "stream_state"
                 PROVE  \/ queue'[i].status
                             = IF queue'[i].id \in DOMAIN states' THEN states'[queue'[i].id] ELSE "stopped"
                        \/ \E j \in 1..Len(queue') :
                              i < j /\ (Reloads(queue'[j]) \/ Reports(queue'[j], queue'[i].id))
      BY DEF ReportsCorrected, stateLocked
    <2>1. i + 1 \in 1..Len(queue) /\ queue'[i] = queue[i + 1]
      BY <1>2
    <2>2. \/ queue[i + 1].status = stateLocked(queue[i + 1].id)
          \/ \E j \in 1..Len(queue) : i + 1 < j /\ (Reloads(queue[j]) \/ Reports(queue[j], queue[i + 1].id))
      BY <1>4, <2>1 DEF ReportsCorrected
    <2>3. ASSUME NEW j \in 1..Len(queue), i + 1 < j, Reloads(queue[j]) \/ Reports(queue[j], queue[i + 1].id)
          PROVE  \E k \in 1..Len(queue') : i < k /\ (Reloads(queue'[k]) \/ Reports(queue'[k], queue'[i].id))
      <3>1. j \in 2..Len(queue) /\ i < j - 1
        BY <2>3
      <3> QED
        BY <1>6, <2>1, <2>3, <3>1
    <2> QED
      BY <1>5, <2>1, <2>2, <2>3
  <1>8. ASSUME NEW id, NEW i \in 1..Len(queue), Reports(queue[i], id), i # 1
        PROVE  \E k \in 1..Len(queue') : Reports(queue'[k], id)
    <2>1. i \in 2..Len(queue)
      BY <1>2, <1>8
    <2> QED
      BY <1>6, <1>8, <2>1
  <1>9. CASE e.type \in {"stream_saved", "stream_deleted"}
    <2>1. ~NoReload'
      BY <1>1, <1>9, LoadIsAsked DEF Listen
    <2> QED
      BY <1>7, <2>1 DEF Current
  <1>10. ASSUME NoReload', e.type \notin {"stream_saved", "stream_deleted"}, UNCHANGED <<loading, reloadQueued>>
         PROVE  NoReload
    <2> SUFFICES ASSUME NEW i \in 1..Len(queue) PROVE ~Reloads(queue[i])
      BY <1>10 DEF NoReload
    <2>1. CASE i = 1
      BY <1>2, <1>10, <2>1 DEF Reloads
    <2>2. CASE i # 1
      <3>1. i \in 2..Len(queue)
        BY <1>2, <2>2
      <3> QED
        BY <1>6, <1>10, <3>1 DEF NoReload
    <2> QED
      BY <2>1, <2>2
  <1>11. CASE e.type \notin {"stream_state", "stream_saved", "stream_deleted"}
    <2>1. UNCHANGED page /\ UNCHANGED overtaken
      BY <1>1, <1>11 DEF Listen, history
    <2>2. Current'
      <3> SUFFICES ASSUME NoReload'
                   PROVE  /\ DOMAIN Shows' = DOMAIN streams'
                          /\ \A id \in DOMAIN streams' :
                                /\ Shows'[id].config = streams'[id]
                                /\ \/ Shows'[id].state = IF id \in DOMAIN states' THEN states'[id] ELSE "stopped"
                                   \/ \E i \in 1..Len(queue') : Reports(queue'[i], id)
                                   \/ id \in overtaken'
        BY DEF Current, stateLocked
      <3>1. NoReload
        BY <1>10, <1>11, <2>1 DEF page
      <3>2. Shows' = Shows
        BY <2>1 DEF Shows, page
      <3>3. \A id, i : i \in 1..Len(queue) /\ Reports(queue[i], id) => i # 1
        BY <1>2, <1>11 DEF Reports
      <3> QED
        BY <1>4, <1>5, <1>8, <2>1, <3>1, <3>2, <3>3 DEF Current
    <2> QED
      BY <1>7, <2>2
  <1>12. CASE e.type = "stream_state"
    <2>1. /\ view' = IF e.id \in DOMAIN view THEN [view EXCEPT ![e.id].state = e.status] ELSE view
          /\ overtaken' = IF Contradicted(e) THEN overtaken \cup {e.id} ELSE overtaken \ {e.id}
          /\ UNCHANGED <<loading, answer, reloadQueued>>
      BY <1>1, <1>12 DEF Listen, applyStreamState
    <2>2. Current'
      <3> SUFFICES ASSUME NoReload'
                   PROVE  /\ DOMAIN Shows' = DOMAIN streams'
                          /\ \A id \in DOMAIN streams' :
                                /\ Shows'[id].config = streams'[id]
                                /\ \/ Shows'[id].state = IF id \in DOMAIN states' THEN states'[id] ELSE "stopped"
                                   \/ \E i \in 1..Len(queue') : Reports(queue'[i], id)
                                   \/ id \in overtaken'
        BY DEF Current, stateLocked
      <3>1. NoReload
        BY <1>10, <1>12, <2>1
      <3>2. /\ DOMAIN Shows = DOMAIN streams
            /\ \A id \in DOMAIN streams :
                  /\ Shows[id].config = streams[id]
                  /\ \/ Shows[id].state = stateLocked(id)
                     \/ \E i \in 1..Len(queue) : Reports(queue[i], id)
                     \/ id \in overtaken
        BY <1>4, <3>1 DEF Current
      <3>3. /\ \A id \in DOMAIN view : view[id] \in Shown
            /\ \A id \in DOMAIN answer : answer[id] \in Shown
        BY <1>1 DEF Shape, Partial
      <3>4. ASSUME loading = "answered"
            PROVE  /\ Shows' = Shows
                   /\ \A id \in DOMAIN Shows : id = e.id => id \in overtaken' \/ Shows'[id].state = e.status
        <4>1. Shows = answer /\ Shows' = answer
          BY <2>1, <3>4 DEF Shows
        <4>2. \A id \in DOMAIN Shows : id = e.id => id \in overtaken' \/ Shows'[id].state = e.status
          BY <2>1, <3>4, <4>1 DEF Contradicted
        <4> QED
          BY <4>1, <4>2
      <3>5. ASSUME loading # "answered"
            PROVE  /\ DOMAIN Shows' = DOMAIN Shows
                   /\ \A id \in DOMAIN Shows :
                         /\ Shows'[id].config = Shows[id].config
                         /\ id # e.id => Shows'[id].state = Shows[id].state
                         /\ id = e.id => Shows'[id].state = e.status
        <4>1. Shows = view /\ Shows' = view'
          BY <2>1, <3>5 DEF Shows
        <4>2. \A id \in DOMAIN view : id = e.id => view'[id].state = e.status
          BY <2>1, <3>3 DEF Shown
        <4>3. /\ DOMAIN view' = DOMAIN view
              /\ \A id \in DOMAIN view : /\ view'[id].config = view[id].config
                                         /\ id # e.id => view'[id].state = view[id].state
          BY <2>1, <3>3 DEF Shown
        <4> QED
          BY <4>1, <4>2, <4>3
      <3>6. /\ DOMAIN Shows' = DOMAIN Shows
            /\ \A id \in DOMAIN Shows :
                  /\ Shows'[id].config = Shows[id].config
                  /\ id # e.id => Shows'[id].state = Shows[id].state /\ (id \in overtaken => id \in overtaken')
                  /\ id = e.id => id \in overtaken' \/ Shows'[id].state = e.status
        BY <2>1, <3>4, <3>5
      <3>7. \/ e.status = stateLocked(e.id)
            \/ \E j \in 1..Len(queue) : 1 < j /\ Reports(queue[j], e.id)
        <4>1. 1 \in 1..Len(queue) /\ queue[1].type = "stream_state"
          BY <1>2, <1>12
        <4>2. \/ e.status = stateLocked(e.id)
              \/ \E j \in 1..Len(queue) : 1 < j /\ (Reloads(queue[j]) \/ Reports(queue[j], e.id))
          BY <1>2, <1>4, <4>1 DEF ReportsCorrected
        <4> QED
          BY <3>1, <4>2 DEF NoReload
      <3>8. ASSUME NEW id \in DOMAIN streams
            PROVE  \/ Shows'[id].state = IF id \in DOMAIN states' THEN states'[id] ELSE "stopped"
                   \/ \E i \in 1..Len(queue') : Reports(queue'[i], id)
                   \/ id \in overtaken'
        <4>1. CASE id = e.id
          <5>1. CASE e.status = stateLocked(e.id)
            BY <1>5, <3>2, <3>6, <4>1, <5>1
          <5>2. ASSUME NEW j \in 1..Len(queue), 1 < j, Reports(queue[j], e.id)
                PROVE  \E i \in 1..Len(queue') : Reports(queue'[i], id)
            <6>1. j # 1
              BY <5>2
            <6>2. Reports(queue[j], id)
              BY <4>1, <5>2
            <6> QED
              BY <1>8, <6>1, <6>2
          <5> QED
            BY <3>7, <5>1, <5>2
        <4>2. CASE id # e.id
          <5>1. \A i \in 1..Len(queue) : Reports(queue[i], id) => i # 1
            BY <1>2, <4>2 DEF Reports
          <5> QED
            BY <1>5, <1>8, <3>2, <3>6, <4>2, <5>1
        <4> QED
          BY <4>1, <4>2
      <3> QED
        BY <1>5, <3>2, <3>6, <3>8
    <2> QED
      BY <1>7, <2>2
  <1> QED
    BY <1>9, <1>11, <1>12

-----------------------------------------------------------------------------
(* The theorem *)

\* The invariant holds at first: the page has been told nothing yet.
LEMMA InvInit == Init => IndInv
  BY ShapeInit DEF IndInv, Init

\* Every step keeps the invariant.
LEMMA InvNext == IndInv /\ [Next]_vars => IndInv'
  <1> SUFFICES ASSUME IndInv, [Next]_vars PROVE IndInv'
    OBVIOUS
  <1>1. Shape
    BY DEF IndInv
  <1>2. CASE UNCHANGED vars
    <2>1. UNCHANGED <<store, queue, page, history>>
      BY <1>2 DEF vars
    <2>2. Shape'
      BY <1>1, <2>1, ShapeParts, Still DEF history
    <2> QED
      BY <2>1, <2>2, NothingMoves DEF IndInv
  <1>3. CASE Next
    <2>1. Shape'
      BY <1>1, <1>3, ShapeChange, ShapeLink, ShapePage DEF Next
    <2>2. ~suspect' => ReportsCorrected' /\ Current'
      BY <1>3, TruthStore, TruthLoad, TruthDeliver DEF Next
    <2> QED
      BY <2>1, <2>2 DEF IndInv
  <1> QED
    BY <1>2, <1>3

\* The invariant says that an idle page shows the store.
LEMMA InvShows == IndInv => PageIsCurrent
  <1> SUFFICES ASSUME IndInv, ~suspect, queue = <<>>, loading = "no"
               PROVE  ShowsAllBut(overtaken)
    BY DEF PageIsCurrent
  <1>1. Shape /\ Current
    BY DEF IndInv
  <1>2. Len(queue) = 0 /\ ~reloadQueued
    BY <1>1 DEF Shape
  <1>3. NoReload /\ Shows = view
    BY <1>2 DEF NoReload, Shows
  <1> QED
    BY <1>1, <1>2, <1>3 DEF Current, ShowsAllBut

\* A page that has been told everything, has handled every event and waits for
\* no answer has the store's streams and configurations, and the state of every
\* stream of which no report was applied before an older answer that contradicts
\* it: for every channel capacity and any interleaving of changes, events, loads
\* and commands.
THEOREM PagesAreCurrent == Spec => []PageIsCurrent
  BY InvInit, InvNext, InvShows, PTL DEF Spec

-----------------------------------------------------------------------------
(* The log *)

Line == [stream : Loggers, old : BOOLEAN]
LinesOf(ls, id) == {i \in DOMAIN ls : ls[i].stream = id}
FreshOf(ls, id) == {i \in DOMAIN ls : ls[i].stream = id /\ ~ls[i].old}

\* What makes a function an injection or a bijection.
LEMMA Injects ==
    ASSUME NEW S, NEW T, NEW f \in [S -> T], \A a, b \in S : f[a] = f[b] => a = b
    PROVE  f \in Injection(S, T)
  <1>1. DOMAIN f = S
    OBVIOUS
  <1>2. IsInjective(f)
    BY <1>1 DEF IsInjective
  <1> QED
    BY <1>2 DEF Injection

LEMMA Bijects ==
    ASSUME NEW S, NEW T, NEW f \in [S -> T], \A a, b \in S : f[a] = f[b] => a = b,
           \A t \in T : \E s \in S : f[s] = t, IsFiniteSet(S)
    PROVE  Cardinality(T) = Cardinality(S)
  <1>1. f \in Injection(S, T)
    BY Injects
  <1>2. f \in Surjection(S, T)
    BY DEF Surjection
  <1>3. ExistsBijection(S, T)
    BY <1>1, <1>2, Zenon DEF ExistsBijection, Bijection
  <1> QED
    BY <1>3, FS_Bijection

\* Ranks number a finite set of indices.
LEMMA RankFacts ==
    ASSUME NEW I, I \subseteq Nat, IsFiniteSet(I)
    PROVE  /\ Cardinality(I) \in Nat
           /\ \A i \in I : Rank(I, i) \in 1..Cardinality(I)
           /\ \A i, j \in I : Rank(I, i) = Rank(I, j) => i = j
           /\ \A k \in 1..Cardinality(I) : \E i \in I : Rank(I, i) = k
  <1> DEFINE n == Cardinality(I)
             upto(i) == {j \in I : j <= i}
             f == [i \in I |-> Rank(I, i)]
  <1>1. n \in Nat
    BY FS_CardinalityType
  <1>2. ASSUME NEW i \in I
        PROVE  IsFiniteSet(upto(i)) /\ Rank(I, i) = Cardinality(upto(i)) /\ Rank(I, i) \in 1..n
    <2>1. upto(i) \subseteq I /\ i \in upto(i)
      BY <1>2
    <2>2. IsFiniteSet(upto(i)) /\ Cardinality(upto(i)) <= n
      BY <2>1, FS_Subset
    <2>3. Cardinality(upto(i)) \in Nat /\ Cardinality(upto(i)) # 0
      BY <2>1, <2>2, FS_CardinalityType, FS_EmptySet
    <2> QED
      BY <1>1, <2>2, <2>3 DEF Rank
  <1>3. ASSUME NEW i \in I, NEW j \in I, Rank(I, i) = Rank(I, j)
        PROVE  i = j
    <2>1. ASSUME NEW a \in I, NEW b \in I, a < b, Rank(I, a) = Rank(I, b)
          PROVE  FALSE
      <3>1. upto(a) \subseteq upto(b) /\ b \in upto(b) /\ b \notin upto(a)
        <4>1. a \in Nat /\ b \in Nat /\ a < b
          BY <2>1
        <4>2. ASSUME NEW c \in I, c <= a
              PROVE  c <= b
          <5>1. c \in Nat
            OBVIOUS
          <5> QED
            BY <4>1, <4>2, <5>1
        <4>3. upto(a) \subseteq upto(b)
          BY <4>2
        <4>4. b \in upto(b)
          BY <4>1, <2>1
        <4>5. b \notin upto(a)
          BY <4>1
        <4> QED
          BY <4>3, <4>4, <4>5
      <3>2. IsFiniteSet(upto(b)) /\ Cardinality(upto(b)) = Cardinality(upto(a))
        BY <1>2, <2>1
      <3> HIDE DEF upto
      <3>3. upto(b) = upto(a)
        BY <3>1, <3>2, FS_Subset
      <3> QED
        BY <3>1, <3>3
    <2>2. i \in Nat /\ j \in Nat
      OBVIOUS
    <2> QED
      BY <1>3, <2>1, <2>2
  <1>4. ASSUME NEW k \in 1..n
        PROVE  \E i \in I : Rank(I, i) = k
    <2>1. f \in Injection(I, 1..n)
      <3>1. f \in [I -> 1..n] /\ \A a, b \in I : f[a] = f[b] => a = b
        BY <1>2, <1>3
      <3> HIDE DEF f, n
      <3> QED
        BY <3>1, Injects
    <2>2. IsFiniteSet(1..n) /\ Cardinality(1..n) = n
      BY <1>1, FS_Interval
    <2>3. f \in Surjection(I, 1..n)
      BY <2>1, <2>2, FS_Injection
    <2> QED
      BY <2>3 DEF Surjection
  <1> QED
    BY <1>1, <1>2, <1>3, <1>4

\* How many of the lines at the indices J are in T.
Count(ls, J, T) == Cardinality({i \in J : ls[i] \in T})

\* Of every kind of line a selection has as many as there are at its indices.
LEMMA SelectFacts ==
    ASSUME NEW ls \in Seq(Line), NEW I, I \subseteq DOMAIN ls, NEW T
    PROVE  /\ SelectByIndex(ls, I) \in Seq(Line)
           /\ Count(SelectByIndex(ls, I), DOMAIN SelectByIndex(ls, I), T) = Count(ls, I, T)
  <1> DEFINE n == Cardinality(I)
             r == SelectByIndex(ls, I)
             nth(k) == CHOOSE i \in I : Rank(I, i) = k
             A == {i \in I : ls[i] \in T}
             B == {k \in 1..n : r[k] \in T}
             f == [i \in A |-> Rank(I, i)]
  <1>1. I \subseteq Nat /\ IsFiniteSet(I)
    <2>1. DOMAIN ls = 1..Len(ls) /\ Len(ls) \in Nat
      OBVIOUS
    <2>2. IsFiniteSet(1..Len(ls)) /\ 1..Len(ls) \subseteq Nat
      BY <2>1, FS_Interval
    <2> QED
      BY <2>1, <2>2, FS_Subset
  <1>2. /\ n \in Nat /\ (\A i \in I : Rank(I, i) \in 1..n)
        /\ \A i, j \in I : Rank(I, i) = Rank(I, j) => i = j
        /\ \A k \in 1..n : \E i \in I : Rank(I, i) = k
    BY <1>1, RankFacts
  <1>3. ASSUME NEW k \in 1..n
        PROVE  nth(k) \in I /\ Rank(I, nth(k)) = k
    BY <1>2
  <1>4. ASSUME NEW i \in I
        PROVE  nth(Rank(I, i)) = i
    BY <1>2, <1>3
  <1> HIDE DEF nth
  <1>5. r = [k \in 1..n |-> ls[nth(k)]]
    BY DEF SelectByIndex, nth
  <1>6. r \in Seq(Line) /\ DOMAIN r = 1..n
    <2>1. \A k \in 1..n : ls[nth(k)] \in Line
      BY <1>3
    <2>2. r \in [1..n -> Line]
      BY <1>5, <2>1
    <2> QED
      BY <1>2, <2>2
  <1> HIDE DEF r
  <1>7. ASSUME NEW i \in I
        PROVE  r[Rank(I, i)] = ls[i]
    BY <1>2, <1>4, <1>5
  <1>8. IsFiniteSet(A)
    BY <1>1, FS_Subset
  <1>9. Cardinality(B) = Cardinality(A)
    <2>1. f \in [A -> B]
      BY <1>2, <1>7
    <2>2. \A a, b \in A : f[a] = f[b] => a = b
      BY <1>2
    <2>3. \A k \in B : \E a \in A : f[a] = k
      <3> SUFFICES ASSUME NEW k \in B PROVE \E a \in A : f[a] = k
        OBVIOUS
      <3>1. nth(k) \in I /\ Rank(I, nth(k)) = k /\ r[k] = ls[nth(k)]
        BY <1>3, <1>5
      <3>2. nth(k) \in A
        BY <3>1
      <3> QED
        BY <3>1, <3>2
    <2> HIDE DEF f, A, B
    <2> QED
      BY <1>8, <2>1, <2>2, <2>3, Bijects
  <1> QED
    BY <1>6, <1>9 DEF r, Count

\* A selection has the lines of a stream that are at its indices.
LEMMA SelectedLines ==
    ASSUME NEW ls \in Seq(Line), NEW I, I \subseteq DOMAIN ls, NEW id
    PROVE  /\ SelectByIndex(ls, I) \in Seq(Line)
           /\ Cardinality(LinesOf(SelectByIndex(ls, I), id)) = Cardinality(LinesOf(ls, id) \cap I)
           /\ Cardinality(FreshOf(SelectByIndex(ls, I), id)) = Cardinality(FreshOf(ls, id) \cap I)
  <1> DEFINE r == SelectByIndex(ls, I)
             T == {l \in Line : l.stream = id}
             U == {l \in Line : l.stream = id /\ ~l.old}
  <1>1. /\ r \in Seq(Line)
        /\ Count(r, DOMAIN r, T) = Count(ls, I, T)
    BY SelectFacts, Zenon
  <1>2. Count(r, DOMAIN r, U) = Count(ls, I, U)
    BY SelectFacts, Zenon
  <1> HIDE DEF r
  <1>3. /\ \A k \in DOMAIN r : r[k] \in Line
        /\ \A i \in DOMAIN ls : ls[i] \in Line
    BY <1>1
  <1>4. /\ LinesOf(r, id) = {k \in DOMAIN r : r[k] \in T}
        /\ LinesOf(ls, id) \cap I = {i \in I : ls[i] \in T}
    BY <1>3 DEF LinesOf
  <1>5. /\ FreshOf(r, id) = {k \in DOMAIN r : r[k] \in U}
        /\ FreshOf(ls, id) \cap I = {i \in I : ls[i] \in U}
    BY <1>3 DEF FreshOf
  <1> QED
    BY <1>1, <1>2, <1>4, <1>5 DEF r, Count

\* A stream has finitely many lines.
LEMMA FiniteLines ==
    ASSUME NEW ls \in Seq(Line), NEW id
    PROVE  /\ IsFiniteSet(LinesOf(ls, id)) /\ IsFiniteSet(FreshOf(ls, id))
           /\ Cardinality(LinesOf(ls, id)) \in Nat /\ Cardinality(FreshOf(ls, id)) \in Nat
           /\ FreshOf(ls, id) \subseteq LinesOf(ls, id) /\ LinesOf(ls, id) \subseteq Nat
           /\ Cardinality(FreshOf(ls, id)) <= Cardinality(LinesOf(ls, id))
  <1>1. DOMAIN ls = 1..Len(ls) /\ Len(ls) \in Nat
    OBVIOUS
  <1>2. IsFiniteSet(1..Len(ls)) /\ 1..Len(ls) \subseteq Nat
    BY <1>1, FS_Interval
  <1>3. FreshOf(ls, id) \subseteq LinesOf(ls, id) /\ LinesOf(ls, id) \subseteq 1..Len(ls)
    BY <1>1 DEF FreshOf, LinesOf
  <1>4. IsFiniteSet(LinesOf(ls, id))
    BY <1>2, <1>3, FS_Subset
  <1>5. /\ IsFiniteSet(FreshOf(ls, id))
        /\ Cardinality(FreshOf(ls, id)) <= Cardinality(LinesOf(ls, id))
    BY <1>3, <1>4, FS_Subset
  <1> QED
    BY <1>2, <1>3, <1>4, <1>5, FS_CardinalityType

\* The indices that pruneLogsLocked keeps.
Kept(ls) == {i \in DOMAIN ls : ~ls[i].old /\ Cardinality(Newer(ls, i)) < MaxLogsPerStream}

\* What is newer than a fresh line of a stream is the rest of its fresh lines above it.
LEMMA NewerFacts ==
    ASSUME NEW ls \in Seq(Line), NEW id, NEW i \in FreshOf(ls, id)
    PROVE  /\ Newer(ls, i) = {j \in FreshOf(ls, id) : i < j}
           /\ Newer(ls, i) \subseteq FreshOf(ls, id) \ {i}
           /\ (i \in Kept(ls)) <=> Cardinality(Newer(ls, i)) < MaxLogsPerStream
  <1>1. DOMAIN ls = 1..Len(ls) /\ Len(ls) \in Nat
    OBVIOUS
  <1>2. i \in 1..Len(ls) /\ ls[i].stream = id /\ ~ls[i].old
    BY <1>1 DEF FreshOf
  <1>3. \A j \in 1..Len(ls) : (j \in i + 1..Len(ls)) <=> i < j
    BY <1>1, <1>2
  <1>4. i + 1..Len(ls) \subseteq 1..Len(ls)
    BY <1>1, <1>2
  <1>5. Newer(ls, i) = {j \in FreshOf(ls, id) : i < j}
    BY <1>1, <1>2, <1>3, <1>4 DEF Newer, FreshOf
  <1>6. ~(i < i)
    BY <1>1, <1>2
  <1> QED
    BY <1>1, <1>2, <1>5, <1>6 DEF Kept

\* One line over the quota costs a stream at most its own oldest line.
LEMMA OneOver ==
    ASSUME NEW ls \in Seq(Line), NEW id,
           Cardinality(FreshOf(ls, id)) <= MaxLogsPerStream + 1
    PROVE  /\ Cardinality(FreshOf(ls, id)) <= MaxLogsPerStream => FreshOf(ls, id) \subseteq Kept(ls)
           /\ Cardinality(FreshOf(ls, id) \cap Kept(ls)) >= Cardinality(FreshOf(ls, id)) - 1
           /\ Cardinality(FreshOf(ls, id) \cap Kept(ls)) <= MaxLogsPerStream
  <1> DEFINE G == FreshOf(ls, id)
             c == Cardinality(G)
             K == G \cap Kept(ls)
             q == MaxLogsPerStream
  <1>1. IsFiniteSet(G) /\ c \in Nat /\ G \subseteq Nat
    BY FiniteLines
  <1>2. q \in Nat /\ c <= q + 1
    BY LogsAssumption
  <1>3. IsFiniteSet(K) /\ Cardinality(K) \in Nat /\ Cardinality(K) <= c
    BY <1>1, FS_Subset, FS_CardinalityType
  <1>4. ASSUME NEW i \in G
        PROVE  /\ Newer(ls, i) = {j \in G : i < j}
               /\ Newer(ls, i) \subseteq G \ {i}
               /\ (i \in K) <=> Cardinality(Newer(ls, i)) < q
               /\ IsFiniteSet(G \ {i}) /\ Cardinality(G \ {i}) = c - 1
               /\ IsFiniteSet(Newer(ls, i)) /\ Cardinality(Newer(ls, i)) \in Nat
               /\ Cardinality(Newer(ls, i)) <= c - 1
               /\ Cardinality(Newer(ls, i)) = c - 1 => Newer(ls, i) = G \ {i}
    <2>1. /\ Newer(ls, i) = {j \in G : i < j}
          /\ Newer(ls, i) \subseteq G \ {i}
          /\ (i \in K) <=> Cardinality(Newer(ls, i)) < q
      BY NewerFacts
    <2> HIDE DEF G
    <2>2. IsFiniteSet(G \ {i}) /\ Cardinality(G \ {i}) = c - 1
      BY <1>1, FS_RemoveElement
    <2>3. /\ IsFiniteSet(Newer(ls, i)) /\ Cardinality(Newer(ls, i)) <= c - 1
          /\ Cardinality(Newer(ls, i)) = c - 1 => Newer(ls, i) = G \ {i}
      BY <2>1, <2>2, FS_Subset
    <2> QED
      BY <2>1, <2>2, <2>3, FS_CardinalityType
  <1> HIDE DEF G, c, K, q
  <1>5. ASSUME NEW i \in G, i \notin K
        PROVE  c = q + 1 /\ Newer(ls, i) = G \ {i}
    <2>1. ~(Cardinality(Newer(ls, i)) < q)
      BY <1>4, <1>5
    <2>2. Cardinality(Newer(ls, i)) \in Nat /\ Cardinality(Newer(ls, i)) <= c - 1
      BY <1>4
    <2>3. c = q + 1 /\ Cardinality(Newer(ls, i)) = c - 1
      BY <1>1, <1>2, <2>1, <2>2
    <2> QED
      BY <1>4, <2>3
  <1>6. c <= q => G \subseteq K
    <2>1. c <= q => c # q + 1
      BY <1>1, <1>2
    <2> QED
      BY <1>5, <2>1
  <1>7. Cardinality(K) >= c - 1
    <2>1. CASE G \subseteq K
      <3>1. K = G
        BY <2>1 DEF K
      <3> QED
        BY <1>1, <3>1 DEF c
    <2>2. CASE ~(G \subseteq K)
      <3>1. PICK i \in G : i \notin K
        BY <2>2
      <3>2. ASSUME NEW m \in G, m # i, m \notin K
            PROVE  FALSE
        <4>1. m \in Newer(ls, i) /\ i \in Newer(ls, m)
          BY <1>5, <3>1, <3>2
        <4>2. i < m /\ m < i
          BY <1>4, <4>1
        <4>3. i \in Nat /\ m \in Nat
          BY <1>1
        <4> QED
          BY <4>2, <4>3
      <3>3. G \ {i} \subseteq K
        BY <3>2
      <3>4. Cardinality(G \ {i}) <= Cardinality(K)
        BY <1>3, <3>3, FS_Subset
      <3> QED
        BY <1>1, <1>3, <1>4, <3>4
    <2> QED
      BY <2>1, <2>2
  <1>8. Cardinality(K) <= q
    <2>1. CASE c <= q
      BY <1>1, <1>2, <1>3, <2>1
    <2>2. CASE c = q + 1
      <3>1. 1 \in 1..c
        BY <1>2, <2>2
      <3>2. PICK i \in G : Rank(G, i) = 1
        BY <1>1, <3>1, RankFacts DEF c
      <3>3. {j \in G : j <= i} = {i}
        <4>1. {j \in G : j <= i} \subseteq G /\ i \in {j \in G : j <= i}
          BY <1>1
        <4>2. IsFiniteSet({j \in G : j <= i}) /\ Cardinality({j \in G : j <= i}) = 1
          BY <1>1, <3>2, <4>1, FS_Subset DEF Rank
        <4>3. \E x : {j \in G : j <= i} = {x}
          BY <4>2, FS_Singleton
        <4> QED
          BY <4>1, <4>3
      <3>4. Newer(ls, i) = G \ {i}
        <4>1. ASSUME NEW j \in G
              PROVE  (i < j) <=> j # i
          <5>1. i \in Nat /\ j \in Nat
            BY <1>1
          <5>2. j <= i => j = i
            BY <3>3
          <5> QED
            BY <5>1, <5>2
        <4> QED
          BY <1>4, <4>1
      <3>5. Cardinality(G \ {i}) = q
        <4>1. Cardinality(G \ {i}) = c - 1
          BY <1>4
        <4> QED
          BY <1>2, <2>2, <4>1
      <3>6. i \notin K
        <4>1. ~(Cardinality(Newer(ls, i)) < q)
          BY <1>2, <3>4, <3>5
        <4> QED
          BY <1>4, <4>1
      <3>7. K \subseteq G \ {i}
        BY <3>6 DEF K
      <3>8. Cardinality(K) <= Cardinality(G \ {i})
        BY <1>4, <3>7, FS_Subset
      <3> QED
        BY <3>8, <3>5
    <2> QED
      BY <1>1, <1>2, <2>1, <2>2
  <1> QED
    BY <1>6, <1>7, <1>8 DEF G, c, K, q

\* A new line is fresh and leaves the other streams' lines where they are.
LEMMA AppendedLine ==
    ASSUME NEW ls \in Seq(Line), NEW a \in Loggers
    PROVE  /\ Append(ls, [stream |-> a, old |-> FALSE]) \in Seq(Line)
           /\ FreshOf(Append(ls, [stream |-> a, old |-> FALSE]), a) = FreshOf(ls, a) \cup {Len(ls) + 1}
           /\ Len(ls) + 1 \notin FreshOf(ls, a)
           /\ \A id : id # a =>
                 FreshOf(Append(ls, [stream |-> a, old |-> FALSE]), id) = FreshOf(ls, id)
  <1> DEFINE l == [stream |-> a, old |-> FALSE]
             new == Append(ls, l)
             n == Len(ls)
  <1>1. l \in Line /\ l.stream = a /\ ~l.old
    BY DEF Line
  <1> HIDE DEF l
  <1>2. /\ new \in Seq(Line) /\ n \in Nat
        /\ DOMAIN ls = 1..n /\ DOMAIN new = 1..(n + 1)
        /\ new[n + 1] = l /\ \A i \in 1..n : new[i] = ls[i]
    BY <1>1
  <1> HIDE DEF new, n
  <1>3. n + 1 \notin 1..n /\ 1..(n + 1) = 1..n \cup {n + 1}
    BY <1>2
  <1>4. FreshOf(new, a) = FreshOf(ls, a) \cup {n + 1}
    BY <1>1, <1>2, <1>3 DEF FreshOf
  <1>5. n + 1 \notin FreshOf(ls, a)
    BY <1>2, <1>3 DEF FreshOf
  <1>6. ASSUME NEW id, id # a
        PROVE  FreshOf(new, id) = FreshOf(ls, id)
    BY <1>1, <1>2, <1>3, <1>6 DEF FreshOf
  <1> QED
    BY <1>2, <1>4, <1>5, <1>6 DEF new, l, n

\* A log within its quotas.
InQuota(ls) == ls \in Seq(Line) /\ \A id \in Loggers : Cardinality(LinesOf(ls, id)) <= MaxLogsPerStream

\* AppendLogCode and its pruning: no quota is exceeded, no stream has fewer
\* fresh lines than before.
LEMMA PruneFacts ==
    ASSUME NEW ls, InQuota(ls), NEW a \in Loggers
    PROVE  /\ InQuota(pruneLogsLocked(Append(ls, [stream |-> a, old |-> FALSE])))
           /\ \A id \in Loggers :
                 Cardinality(FreshOf(pruneLogsLocked(Append(ls, [stream |-> a, old |-> FALSE])), id))
                    >= Cardinality(FreshOf(ls, id))
  <1> DEFINE new == Append(ls, [stream |-> a, old |-> FALSE])
             r == pruneLogsLocked(new)
  <1>1. ls \in Seq(Line)
    BY DEF InQuota
  <1>2. /\ new \in Seq(Line) /\ FreshOf(new, a) = FreshOf(ls, a) \cup {Len(ls) + 1}
        /\ Len(ls) + 1 \notin FreshOf(ls, a)
        /\ \A id : id # a => FreshOf(new, id) = FreshOf(ls, id)
    BY <1>1, AppendedLine, Zenon
  <1> HIDE DEF new
  <1>3. r = SelectByIndex(new, Kept(new)) /\ Kept(new) \subseteq DOMAIN new
    BY DEF pruneLogsLocked, Kept
  <1> HIDE DEF r
  <1>4. ASSUME NEW id \in Loggers
        PROVE  /\ r \in Seq(Line)
               /\ Cardinality(LinesOf(r, id)) <= MaxLogsPerStream
               /\ Cardinality(FreshOf(r, id)) >= Cardinality(FreshOf(ls, id))
    <2> DEFINE G == FreshOf(new, id)
               F == FreshOf(ls, id)
    <2>1. IsFiniteSet(F) /\ Cardinality(F) \in Nat /\ Cardinality(F) <= Cardinality(LinesOf(ls, id))
      BY <1>1, FiniteLines
    <2>2. Cardinality(LinesOf(ls, id)) <= MaxLogsPerStream /\ Cardinality(LinesOf(ls, id)) \in Nat
      BY <1>1, FiniteLines DEF InQuota
    <2>3. Cardinality(F) <= MaxLogsPerStream /\ MaxLogsPerStream \in Nat
      BY <2>1, <2>2, LogsAssumption
    <2>4. IsFiniteSet(G) /\ Cardinality(G) \in Nat
      BY <1>2, FiniteLines
    <2>5. IF id = a THEN Cardinality(G) = Cardinality(F) + 1 ELSE G = F
      <3>1. CASE id = a
        <4>1. G = F \cup {Len(ls) + 1} /\ Len(ls) + 1 \notin F
          BY <1>2, <3>1
        <4> HIDE DEF G, F
        <4> QED
          BY <2>1, <3>1, <4>1, FS_AddElement
      <3>2. CASE id # a
        BY <1>2, <3>2
      <3> QED
        BY <3>1, <3>2
    <2>6. /\ r \in Seq(Line)
          /\ Cardinality(LinesOf(r, id)) = Cardinality(LinesOf(new, id) \cap Kept(new))
          /\ Cardinality(FreshOf(r, id)) = Cardinality(G \cap Kept(new))
      BY <1>2, <1>3, SelectedLines
    <2>7. LinesOf(new, id) \cap Kept(new) = G \cap Kept(new)
      BY DEF LinesOf, FreshOf, Kept
    <2>8. Cardinality(G) <= MaxLogsPerStream + 1
      <3> HIDE DEF G, F
      <3> QED
        BY <2>1, <2>3, <2>4, <2>5
    <2>9. /\ Cardinality(G) <= MaxLogsPerStream => G \subseteq Kept(new)
          /\ Cardinality(G \cap Kept(new)) >= Cardinality(G) - 1
          /\ Cardinality(G \cap Kept(new)) <= MaxLogsPerStream
      BY <1>2, <2>8, OneOver
    <2>10. IsFiniteSet(G \cap Kept(new)) /\ Cardinality(G \cap Kept(new)) \in Nat
      BY <2>4, FS_Intersection, FS_CardinalityType
    <2> HIDE DEF G, F
    <2>11. Cardinality(G \cap Kept(new)) >= Cardinality(F)
      <3>1. CASE id = a
        BY <2>1, <2>4, <2>5, <2>9, <2>10, <3>1
      <3>2. CASE id # a
        <4>1. G = F
          BY <2>5, <3>2
        <4>2. G \cap Kept(new) = F
          BY <2>3, <2>9, <4>1
        <4> QED
          BY <2>1, <4>2
      <3> QED
        BY <3>1, <3>2
    <2> QED
      BY <2>6, <2>7, <2>9, <2>11 DEF F
  <1> QED
    BY <1>4 DEF InQuota, r, new

\* Clearing leaves the other streams' lines.
LEMMA ClearQuota ==
    ASSUME NEW ls, InQuota(ls), NEW I, I \subseteq DOMAIN ls
    PROVE  InQuota(SelectByIndex(ls, I))
  <1>1. ls \in Seq(Line)
    BY DEF InQuota
  <1>2. SelectByIndex(ls, I) \in Seq(Line)
    BY <1>1, SelectFacts, Zenon
  <1>3. ASSUME NEW id \in Loggers
        PROVE  Cardinality(LinesOf(SelectByIndex(ls, I), id)) <= MaxLogsPerStream
    <2>1. Cardinality(LinesOf(SelectByIndex(ls, I), id)) = Cardinality(LinesOf(ls, id) \cap I)
      BY <1>1, SelectedLines
    <2>2. IsFiniteSet(LinesOf(ls, id)) /\ Cardinality(LinesOf(ls, id)) \in Nat
      BY <1>1, FiniteLines
    <2>3. /\ Cardinality(LinesOf(ls, id) \cap I) <= Cardinality(LinesOf(ls, id))
          /\ Cardinality(LinesOf(ls, id) \cap I) \in Nat
      BY <2>2, FS_Intersection, FS_CardinalityType
    <2>4. Cardinality(LinesOf(ls, id)) <= MaxLogsPerStream /\ MaxLogsPerStream \in Nat
      BY LogsAssumption DEF InQuota
    <2> QED
      BY <2>1, <2>2, <2>3, <2>4
  <1> QED
    BY <1>2, <1>3 DEF InQuota

\* Lines that grow old stay lines of their streams.
Aged(ls, a) == [i \in DOMAIN ls |-> IF ls[i].stream = a THEN [ls[i] EXCEPT !.old = TRUE] ELSE ls[i]]

LEMMA AgedQuota ==
    ASSUME NEW ls, InQuota(ls), NEW a
    PROVE  InQuota(Aged(ls, a))
  <1>1. ls \in Seq(Line) /\ DOMAIN ls = 1..Len(ls) /\ Len(ls) \in Nat
    BY DEF InQuota
  <1>2. ASSUME NEW i \in DOMAIN ls
        PROVE  Aged(ls, a)[i] \in Line /\ Aged(ls, a)[i].stream = ls[i].stream
    <2>1. ls[i] \in Line
      BY <1>1
    <2>2. PICK l \in Line : l = ls[i]
      BY <2>1
    <2>3. [l EXCEPT !.old = TRUE] \in Line /\ [l EXCEPT !.old = TRUE].stream = l.stream
      BY <2>2 DEF Line
    <2>4. Aged(ls, a)[i] = IF l.stream = a THEN [l EXCEPT !.old = TRUE] ELSE l
      BY <2>2 DEF Aged
    <2> QED
      BY <2>2, <2>3, <2>4
  <1>3. DOMAIN Aged(ls, a) = DOMAIN ls
    BY DEF Aged
  <1>4. Aged(ls, a) \in [1..Len(ls) -> Line]
    BY <1>1, <1>2 DEF Aged
  <1>5. Aged(ls, a) \in Seq(Line)
    BY <1>1, <1>4
  <1>6. \A id : LinesOf(Aged(ls, a), id) = LinesOf(ls, id)
    BY <1>2, <1>3 DEF LinesOf
  <1> QED
    BY <1>5, <1>6 DEF InQuota

\* What a step may do to the log.
Contained ==
    \/ \E id \in Loggers : Expire(id) \/ ClearLogs({id})
    \/ ClearLogs(Loggers)
    \/ \A id \in Loggers : Fresh(logs', id) >= Fresh(logs, id)

LEMMA LogStays ==
    ASSUME InQuota(logs), logs' = logs
    PROVE  InQuota(logs') /\ Contained
  <1>1. ASSUME NEW id \in Loggers
        PROVE  Fresh(logs', id) >= Fresh(logs, id)
    <2>1. Cardinality(FreshOf(logs, id)) \in Nat
      BY FiniteLines DEF InQuota
    <2>2. Fresh(logs', id) = Fresh(logs, id) /\ Fresh(logs, id) \in Nat
      BY <2>1 DEF Fresh, FreshOf
    <2> QED
      BY <2>2
  <1> QED
    BY <1>1 DEF Contained

LEMMA LogGrows ==
    ASSUME InQuota(logs), NEW a \in Loggers, AppendLogCode(a)
    PROVE  InQuota(logs') /\ Contained
  <1> DEFINE r == pruneLogsLocked(Append(logs, [stream |-> a, old |-> FALSE]))
  <1>1. logs' = r
    BY DEF AppendLogCode
  <1>2. /\ InQuota(r)
        /\ \A id \in Loggers : Cardinality(FreshOf(r, id)) >= Cardinality(FreshOf(logs, id))
    BY PruneFacts, Zenon
  <1> HIDE DEF r
  <1>3. \A id \in Loggers : Fresh(logs', id) >= Fresh(logs, id)
    BY <1>1, <1>2 DEF Fresh, FreshOf
  <1> QED
    BY <1>1, <1>2, <1>3 DEF Contained

LEMMA LogCleared ==
    ASSUME InQuota(logs), NEW ids, ClearLogs(ids)
    PROVE  InQuota(logs')
  <1> DEFINE I == {i \in DOMAIN logs : logs[i].stream \notin ids}
  <1>1. logs' = SelectByIndex(logs, I) /\ I \subseteq DOMAIN logs
    BY DEF ClearLogs
  <1> HIDE DEF I
  <1>2. InQuota(SelectByIndex(logs, I))
    BY <1>1, ClearQuota, Zenon
  <1> QED
    BY <1>1, <1>2

LEMMA LogAges ==
    ASSUME InQuota(logs), NEW a, Expire(a)
    PROVE  InQuota(logs')
  <1>1. logs' = Aged(logs, a)
    BY DEF Expire, Aged
  <1>2. InQuota(Aged(logs, a))
    BY AgedQuota, Zenon
  <1> QED
    BY <1>1, <1>2

LEMMA LogNext ==
    ASSUME InQuota(logs), [Next]_vars
    PROVE  InQuota(logs') /\ [Contained]_vars
  <1>1. CASE logs' = logs
    BY <1>1, LogStays
  <1>2. CASE \E id \in Loggers : AppendLogCode(id)
    BY <1>2, LogGrows
  <1>3. CASE \E id \in Loggers : Expire(id)
    BY <1>3, LogAges DEF Contained
  <1>4. CASE \E id \in Loggers : ClearLogs({id})
    BY <1>4, LogCleared DEF Contained
  <1>5. CASE ClearLogs(Loggers)
    BY <1>5, LogCleared DEF Contained
  <1>6. \/ logs' = logs
        \/ \E id \in Loggers : AppendLogCode(id) \/ Expire(id) \/ ClearLogs({id})
        \/ ClearLogs(Loggers)
    <2>1. CASE UNCHANGED vars
      BY <2>1 DEF vars
    <2>2. ASSUME NEW id \in StreamIds,
                 \/ \E c \in Configs : Upsert(id, c) \/ UpsertUnsaved(id, c)
                 \/ Delete(id) \/ DeleteUnsaved(id)
                 \/ \E status \in Statuses : UpdateState(id, status)
          PROVE  logs' = logs
      BY <2>2 DEF Upsert, UpsertUnsaved, Delete, DeleteUnsaved, UpdateState
    <2>3. CASE Subscribe \/ Disconnect \/ Command \/ ServerAnswers \/ LoadDone \/ LoadFails \/ Deliver
      BY <2>3 DEF Subscribe, Disconnect, Command, ServerAnswers, LoadDone, LoadFails, Deliver
    <2> QED
      BY <2>1, <2>2, <2>3 DEF Next
  <1> QED
    BY <1>1, <1>2, <1>3, <1>4, <1>5, <1>6

LEMMA LogInit == Init => InQuota(logs)
  <1> SUFFICES ASSUME Init PROVE InQuota(logs)
    OBVIOUS
  <1>1. logs = <<>> /\ logs \in Seq(Line)
    BY DEF Init
  <1>2. ASSUME NEW id \in Loggers
        PROVE  Cardinality(LinesOf(logs, id)) <= MaxLogsPerStream
    <2>1. LinesOf(logs, id) = {}
      BY <1>1 DEF LinesOf
    <2>2. Cardinality(LinesOf(logs, id)) = 0
      BY <2>1, FS_EmptySet
    <2> QED
      BY <2>2, LogsAssumption
  <1> QED
    BY <1>1, <1>2 DEF InQuota

-----------------------------------------------------------------------------
(* The channel, and the theorems *)

\* The channel holds no more than its capacity, and nothing once its subscriber
\* has gone.
Channel == Len(queue) <= Capacity /\ (~connected => queue = <<>>)

LEMMA ChannelNext ==
    ASSUME IndInv, Channel, [Next]_vars
    PROVE  Channel'
  <1>1. queue \in Seq(EventType) /\ Len(queue) \in Nat /\ Capacity \in Nat
    BY CapacityAssumption DEF IndInv, Shape
  <1>2. ASSUME NEW e, emitLocked(e) PROVE Channel'
    <2>1. connected' = connected
      BY <1>2 DEF emitLocked
    <2>2. CASE Fits
      <3>1. queue' = Append(queue, e) /\ connected /\ Len(queue) < Capacity
        BY <1>2, <2>2 DEF emitLocked, Fits
      <3>2. Len(queue') = Len(queue) + 1
        BY <1>1, <3>1
      <3> QED
        BY <1>1, <2>1, <3>1, <3>2 DEF Channel
    <2>3. CASE ~Fits
      <3>1. queue' = queue
        BY <1>2, <2>3 DEF emitLocked
      <3> QED
        BY <2>1, <3>1 DEF Channel
    <2> QED
      BY <2>2, <2>3
  <1>3. CASE UNCHANGED <<queue, connected>>
    BY <1>3 DEF Channel
  <1>4. CASE Subscribe
    BY <1>4 DEF Subscribe, Channel
  <1>5. CASE Disconnect
    <2>1. queue' = <<>>
      BY <1>5 DEF Disconnect
    <2>2. Len(queue') = 0
      BY <2>1
    <2> QED
      BY <1>1, <2>1, <2>2 DEF Channel
  <1>6. CASE Deliver
    <2>1. queue # <<>> /\ queue' = Tail(queue) /\ connected' = connected
      BY <1>6 DEF Deliver
    <2>2. Len(queue') = Len(queue) - 1
      BY <1>1, <2>1
    <2>3. Len(queue') <= Capacity
      BY <1>1, <2>2 DEF Channel
    <2> QED
      BY <2>1, <2>3 DEF Channel
  <1>7. ASSUME NEW id \in StreamIds,
               \/ \E c \in Configs : Upsert(id, c) \/ UpsertUnsaved(id, c)
               \/ Delete(id) \/ DeleteUnsaved(id)
               \/ \E status \in Statuses : UpdateState(id, status)
        PROVE  (\E e : emitLocked(e)) \/ UNCHANGED <<queue, connected>>
    BY <1>7 DEF Upsert, UpsertUnsaved, Delete, DeleteUnsaved, UpdateState, emitsChange
  <1>8. ASSUME NEW id \in Loggers, AppendLogCode(id) \/ Expire(id) \/ ClearLogs({id})
        PROVE  (\E e : emitLocked(e)) \/ UNCHANGED <<queue, connected>>
    BY <1>8 DEF AppendLogCode, Expire, ClearLogs
  <1>9. CASE ClearLogs(Loggers)
    BY <1>2, <1>9 DEF ClearLogs
  <1>10. CASE Command \/ ServerAnswers \/ LoadDone \/ LoadFails \/ UNCHANGED vars
    BY <1>3, <1>10 DEF Command, ServerAnswers, LoadDone, LoadFails, vars
  <1> QED
    BY <1>2, <1>3, <1>4, <1>5, <1>6, <1>7, <1>8, <1>9, <1>10 DEF Next

\* What TypeOK says of the store and the page, the channel that Subscribe makes
\* (at most Capacity events, none for a page that is not connected) and the
\* quota that pruneLogsLocked keeps for each stream.
THEOREM TypeCorrect == Spec => []TypeOK
  <1>1. Init => Channel
    <2> SUFFICES ASSUME Init PROVE Channel
      OBVIOUS
    <2>1. queue = <<>> /\ Len(queue) = 0
      BY DEF Init
    <2> QED
      BY <2>1, CapacityAssumption DEF Channel
  <1>2. InQuota(logs) /\ [Next]_vars => InQuota(logs)'
    BY LogNext
  <1>3. IndInv /\ Channel /\ [Next]_vars => Channel'
    BY ChannelNext
  <1>4. IndInv /\ Channel /\ InQuota(logs) => TypeOK
    BY DEF IndInv, Shape, Partial, Channel, InQuota, LinesOf, TypeOK
  <1> QED
    BY <1>1, <1>2, <1>3, <1>4, InvInit, InvNext, LogInit, PTL DEF Spec

\* store.go:515-519, "a noisy stream can't evict another stream's logs": whatever
\* the quota, the number of streams and the order in which they log, an append
\* leaves each stream at least as many lines within its retention as it had.
THEOREM NoisyContained == Spec => NoisyIsContained
  <1>1. InQuota(logs) /\ [Next]_vars => InQuota(logs)'
    BY LogNext
  <1>2. InQuota(logs) /\ [Next]_vars => [Contained]_vars
    BY LogNext
  <1>3. Spec => [][Contained]_vars
    BY LogInit, <1>1, <1>2, PTL DEF Spec
  <1> QED
    BY <1>3 DEF NoisyIsContained, Contained
=============================================================================

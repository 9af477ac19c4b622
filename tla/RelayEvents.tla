----------------------------- MODULE RelayEvents -----------------------------
(***************************************************************************)
(* What a relay worker tells the daemon and what the daemon makes of it:    *)
(* the worker's attempt limiter, its sessions as the event producers see    *)
(* them, its ticker, the bounded event channel with the pipe behind it, and *)
(* the relay's state and sessions in the store, for one listener worker     *)
(* from its start to the end of its reader.  The admission of a caller is   *)
(* module SrtWorker, starting and stopping the worker is RelayManager.      *)
(***************************************************************************)
EXTENDS Naturals, FiniteSets, Sequences, FiniteSetsExt

CONSTANTS
    Ips, Sessions,      \* remote addresses; admitted handshakes and what they become
    NoSession,
    Capacity,           \* room of the event channel and the pipe (1024 events)
    Limit, Window,      \* attemptsPerMinute, and that minute in seconds
    MaxTracked,         \* maxTrackedIPs
    Timeout,            \* InputTimeoutSeconds
    MaxCompleted        \* maxCompletedSessions

ASSUME RelayEventsConstants ==
    /\ NoSession \notin Sessions /\ {"callback", "acceptor"} \cap Sessions = {}
    /\ {Capacity, Limit, Window, MaxTracked, Timeout} \subseteq Nat \ {0}
    /\ MaxCompleted \in Nat

VARIABLES
    alive,      \* the worker process runs
    ready,      \* Run has emitted relay_ready and started its loops
    attempts,   \* worker.attempts: tracked address -> its window
    pending,    \* worker.pending: admitted and neither accepted nor expired
    admitted,   \* every handshake that was ever pending
    used,       \* every handshake that became a session
    sessions,   \* worker.sessions
    accepting,  \* the accept loop's session between its unlock and its event
    closing,    \* sessions between the unlock of close and its event
    silence,    \* seconds since lastInputAt, up to Timeout
    round,      \* the sessions metricsLoop has still to report, or NoRound
    events,     \* emitted and not read: the channel, then the blocked senders
    status,     \* the store's state of the relay
    stored,     \* the store's sessions
    settled,    \* wait has written the end of the worker
    grants,     \* history: per address, attempts allowed in this second and the k before
    over,       \* history: sessions the store was told to be over
    stale       \* history: sessions whose session_connected came after that

worker == <<alive, ready, used, sessions, accepting, closing>>
handshakes == <<pending, admitted>>
clock == <<silence, round>>
daemon == <<status, stored, settled, over, stale>>
limiter == <<attempts, grants>>
vars == <<worker, handshakes, clock, daemon, limiter, events>>

NoRound == Sessions \cup {NoSession}
NoGrants == [k \in 0 .. Window - 1 |-> 0]

Of(type, s, reason, by) == [type |-> type, session |-> s, reason |-> reason, by |-> by]
Note(type, by) == Of(type, NoSession, FALSE, by)

Lifecycle == {"session_connected", "session_disconnected", "connection_rejected"}

emit_Drops(q, e) == IF Len(q) < Capacity THEN Append(q, e) ELSE q

\* A full channel drops an event, except that a lifecycle event keeps its
\* goroutine waiting.  Go serves waiting senders in order, so they are the
\* events beyond the capacity.
emit(q, e) ==
    IF Len(q) < Capacity \/ e.type \in Lifecycle THEN Append(q, e) ELSE q

\* The goroutine waits in emit.
Waits(g) == \E i \in DOMAIN events : i > Capacity /\ events[i].by = g

-----------------------------------------------------------------------------
\* The attempt limiter.

Fresh(table) == {ip \in DOMAIN table : table[ip].age < Window}

\* A new address finds the table full: windows that are over are forgotten.
Swept_Never(ip) == attempts

Swept(ip) ==
    IF ip \notin DOMAIN attempts /\ Cardinality(DOMAIN attempts) >= MaxTracked
    THEN [i \in Fresh(attempts) |-> attempts[i]] ELSE attempts

Track(table, ip, window) ==
    [i \in DOMAIN table \cup {ip} |-> IF i = ip THEN window ELSE table[i]]

Counts_Late(window) == window.count <= Limit + 1

\* The window's count, already raised, is within the limit.
Counts(window) == window.count <= Limit

\* The limiter's answer: allowed, to be reported, the table it leaves.  A count
\* beyond the limit is not told apart from the first such.
allowConnectionAttempt(ip) ==
    LET table == Swept(ip)
        known == ip \in DOMAIN table
        full == ~known /\ Cardinality(DOMAIN table) >= MaxTracked
        opens == ~known \/ table[ip].age >= Window
        counted == [table[ip] EXCEPT !.count = @ + 1]
    IN  CASE full -> [allowed |-> FALSE, report |-> FALSE, table |-> table]
          [] ~full /\ opens ->
                [allowed |-> TRUE, report |-> FALSE,
                 table |-> Track(table, ip, [age |-> 0, count |-> 1, reported |-> FALSE])]
          [] ~full /\ ~opens /\ Counts(counted) ->
                [allowed |-> TRUE, report |-> FALSE, table |-> Track(table, ip, counted)]
          [] OTHER ->
                [allowed |-> FALSE, report |-> ~counted.reported,
                 table |-> Track(table, ip, [counted EXCEPT !.reported = TRUE, !.count = Limit + 1])]

\* libsrt's listener thread asks about a caller.  Refused by the limiter, the
\* caller is reported once in a window.
Refuse(ip) ==
    LET answer == allowConnectionAttempt(ip)
    IN  /\ alive /\ ~Waits("callback")
        /\ ~answer.allowed
        /\ attempts' = answer.table
        /\ events' = IF answer.report THEN emit(events, Note("connection_rejected", "callback")) ELSE events
        /\ UNCHANGED <<worker, handshakes, clock, daemon, grants>>

\* Allowed by the limiter, the caller is announced, and then rejected or admitted
\* by the rest of authorize, which SrtWorker models.
Attempt(ip) ==
    LET answer == allowConnectionAttempt(ip)
        announced == emit(events, Note("connection_attempt", "callback"))
    IN  /\ alive /\ ~Waits("callback")
        /\ answer.allowed
        /\ attempts' = answer.table
        /\ grants' = [grants EXCEPT ![ip] = [k \in 0 .. Window - 1 |-> grants[ip][k] + 1]]
        /\ \/ events' = emit(announced, Note("connection_rejected", "callback")) /\ UNCHANGED handshakes
           \/ /\ events' = announced
              /\ \E h \in Sessions \ admitted : pending' = pending \cup {h} /\ admitted' = admitted \cup {h}
        /\ UNCHANGED <<worker, clock, daemon>>

\* expireAttempt: a timer takes a handshake that is still pending and tells of it
\* from a goroutine of its own, called h here although a timer is known by its
\* caller and may have been set for an earlier handshake.
ExpireAttempt(h) ==
    /\ h \in pending
    /\ pending' = pending \ {h}
    /\ events' = emit(events, Of("connection_rejected", NoSession, FALSE, h))
    /\ UNCHANGED <<worker, admitted, clock, daemon, limiter>>

\* acceptLoop closes an accepted socket without a pending handshake.
AcceptRefused ==
    /\ alive /\ accepting = NoSession /\ ~Waits("acceptor")
    /\ events' = emit(events, Note("connection_rejected", "acceptor"))
    /\ UNCHANGED <<worker, handshakes, clock, daemon, limiter>>

-----------------------------------------------------------------------------
\* Sessions of the worker.

\* The accept loop makes a pending handshake a session and unlocks.
Register(s) ==
    /\ s \in pending /\ accepting = NoSession /\ ~Waits("acceptor")
    /\ pending' = pending \ {s}
    /\ used' = used \cup {s} /\ sessions' = sessions \cup {s} /\ accepting' = s
    /\ UNCHANGED <<alive, ready, admitted, closing, clock, daemon, limiter, events>>

Announce ==
    /\ accepting # NoSession
    /\ events' = emit(events, Of("session_connected", accepting, FALSE, "acceptor"))
    /\ accepting' = NoSession
    /\ UNCHANGED <<alive, ready, used, sessions, closing, handshakes, clock, daemon, limiter>>

\* close, by the sender, the broadcaster or the shutdown: the map, then the event.
CloseDeletes(s) ==
    /\ s \in sessions
    /\ sessions' = sessions \ {s} /\ closing' = closing \cup {s}
    /\ UNCHANGED <<alive, ready, used, accepting, handshakes, clock, daemon, limiter, events>>

CloseTells(s) ==
    /\ s \in closing
    /\ closing' = closing \ {s}
    /\ events' = emit(events, Of("session_disconnected", s, FALSE, s))
    /\ UNCHANGED <<alive, ready, used, sessions, accepting, handshakes, clock, daemon, limiter>>

-----------------------------------------------------------------------------
\* The worker's loops.

\* Run announces the worker, with an event that a full channel drops, and starts
\* inputLoop and metricsLoop; callers have been served since the listener opened.
Ready ==
    /\ alive /\ ~ready
    /\ ready' = TRUE
    /\ events' = emit(events, Note("relay_ready", "run"))
    /\ UNCHANGED <<alive, used, sessions, accepting, closing, handshakes, clock, daemon, limiter>>

\* inputLoop reads a datagram.
Packet ==
    /\ alive /\ ready /\ silence > 0
    /\ silence' = 0
    /\ UNCHANGED <<worker, handshakes, round, daemon, limiter, events>>

\* A second passes.  Nothing in metricsLoop waits, so it has reported the last
\* second; its ticker fires and it copies the sessions.
Second ==
    /\ alive /\ ready /\ round = NoRound
    /\ silence' = Min({silence + 1, Timeout})
    /\ round' = sessions
    /\ attempts' = [ip \in DOMAIN attempts |-> [attempts[ip] EXCEPT !.age = Min({@ + 1, Window})]]
    /\ grants' = [ip \in Ips |->
          [k \in 0 .. Window - 1 |-> IF k = 0 THEN 0 ELSE grants[ip][k - 1]]]
    /\ UNCHANGED <<worker, handshakes, daemon, events>>

\* session_stats of one copied session, unless libsrt has no figures for it.
SessionStats(s) ==
    /\ alive /\ round # NoRound /\ s \in round
    /\ round' = round \ {s}
    /\ events' \in {events, emit(events, Of("session_stats", s, FALSE, "metrics"))}
    /\ UNCHANGED <<worker, handshakes, silence, daemon, limiter>>

inputStallReason == silence >= Timeout

\* relay_metrics ends the round.
RelayMetrics ==
    /\ alive /\ round = {}
    /\ round' = NoRound
    /\ events' = emit(events, Of("relay_metrics", NoSession, inputStallReason, "metrics"))
    /\ UNCHANGED <<worker, handshakes, silence, daemon, limiter>>

-----------------------------------------------------------------------------
\* The daemon.

\* At most MaxCompleted ended sessions are kept.  Their times are not modelled,
\* so any of them may be the oldest.
pruneSessions(map) ==
    LET ended == {s \in Sessions : map[s] = "ended"}
    IN  {[s \in Sessions |-> IF s \in gone THEN "none" ELSE map[s]] :
            gone \in {g \in SUBSET ended :
                        Cardinality(ended \ g) = Min({Cardinality(ended), MaxCompleted})}}

\* readEvents takes the next event and ApplyWorkerEvent applies it.
Connected(s) ==
    /\ stored' = [stored EXCEPT ![s] = "active"]
    /\ stale' = IF s \in over THEN stale \cup {s} ELSE stale
    /\ UNCHANGED <<status, over>>

Disconnected(s) ==
    /\ stored' \in pruneSessions([stored EXCEPT ![s] = "ended"])
    /\ over' = over \cup {s} /\ stale' = stale \ {s}
    /\ UNCHANGED status

StatusAfter_Sticks(e) ==
    CASE e.type = "relay_ready" -> "running"
      [] e.type = "relay_metrics" /\ e.reason -> "degraded"
      [] OTHER -> status

StatusAfter(e) ==
    CASE e.type = "relay_ready" -> "running"
      [] e.type = "relay_metrics" /\ e.reason -> "degraded"
      [] e.type = "relay_metrics" /\ ~e.reason /\ status = "degraded" -> "running"
      [] OTHER -> status

ApplyWorkerEvent(e) ==
    CASE e.type = "session_connected" -> Connected(e.session)
      [] e.type = "session_disconnected" -> Disconnected(e.session)
      [] OTHER -> status' = StatusAfter(e) /\ UNCHANGED <<stored, over, stale>>

readEvents ==
    /\ events # << >>
    /\ ApplyWorkerEvent(Head(events))
    /\ events' = Tail(events)
    /\ UNCHANGED <<worker, handshakes, clock, limiter, settled>>

\* The process ends, by itself or killed: what it had not written is lost.
Exit ==
    /\ alive
    /\ alive' = FALSE /\ pending' = {} /\ sessions' = {} /\ accepting' = NoSession /\ closing' = {}
    /\ silence' = 0 /\ round' = NoRound
    /\ attempts' = << >> /\ grants' = [ip \in Ips |-> NoGrants]
    /\ \E n \in 0 .. Len(events) : events' = SubSeq(events, 1, n)
    /\ UNCHANGED <<ready, used, admitted, daemon>>

CloseRelaySessions_Inverted(map) == [s \in Sessions |-> IF map[s] = "ended" THEN "ended" ELSE map[s]]

\* Every session of the relay that is not over is marked as disconnected.
CloseRelaySessions(map) == [s \in Sessions |-> IF map[s] = "active" THEN "ended" ELSE map[s]]

\* wait: the sessions, then the state, in two lock sections of the store; an event
\* applied between them leaves what it would leave before or after them.
wait ==
    /\ ~alive /\ ~settled
    /\ settled' = TRUE
    /\ stored' \in pruneSessions(CloseRelaySessions(stored))
    /\ over' = Sessions /\ stale' = {}
    /\ status' \in {"error", "stopped"}
    /\ UNCHANGED <<worker, handshakes, clock, limiter, events>>

\* Wait has closed the pipe: what the scanner had not read is lost.
PipeCloses ==
    /\ ~alive /\ events # << >>
    /\ events' = << >>
    /\ UNCHANGED <<worker, handshakes, clock, daemon, limiter>>

-----------------------------------------------------------------------------
Init ==
    /\ alive = TRUE /\ ready = FALSE
    /\ attempts = << >>
    /\ pending = {} /\ admitted = {} /\ used = {} /\ sessions = {} /\ accepting = NoSession /\ closing = {}
    /\ silence = 0 /\ round = NoRound
    /\ events = << >>
    /\ status = "starting" /\ stored = [s \in Sessions |-> "none"] /\ settled = FALSE
    /\ grants = [ip \in Ips |-> NoGrants]
    /\ over = {} /\ stale = {}

Next ==
    \/ \E ip \in Ips : Attempt(ip) \/ Refuse(ip)
    \/ \E s \in Sessions : 
          ExpireAttempt(s) \/ Register(s) \/ CloseDeletes(s) \/ CloseTells(s) \/ SessionStats(s)
    \/ AcceptRefused \/ Announce \/ Ready \/ Packet \/ Second \/ RelayMetrics
    \/ readEvents \/ Exit \/ wait \/ PipeCloses

Spec == Init /\ [][Next]_vars

\* The daemon reads, and goroutines that can go on do.  Nothing makes a caller
\* or a packet arrive, a session end or the worker exit.
FairSpec ==
    /\ Spec
    /\ WF_vars(readEvents) /\ WF_vars(wait) /\ WF_vars(Announce)
    /\ \A s \in Sessions : WF_vars(CloseTells(s))

-----------------------------------------------------------------------------
Event == [type : Lifecycle \cup {"connection_attempt", "relay_ready", "relay_metrics", "session_stats"},
          session : Sessions \cup {NoSession}, reason : BOOLEAN,
          by : Sessions \cup {"callback", "acceptor", "run", "metrics"}]

\* Types; the limiter keeps to its table, and beyond the channel's capacity only
\* goroutines with a lifecycle event wait, each with one: the callback, the accept
\* loop, and for each admitted handshake its timer or the one that closes its
\* session.  Nothing bounds the handshakes admitted while nobody reads.
TypeOK ==
    /\ alive \in BOOLEAN /\ ready \in BOOLEAN /\ settled \in BOOLEAN
    /\ \A ip \in DOMAIN attempts :
          attempts[ip] \in [age : 0 .. Window, count : 1 .. Limit + 1, reported : BOOLEAN]
    /\ DOMAIN attempts \subseteq Ips /\ Cardinality(DOMAIN attempts) <= MaxTracked
    /\ admitted \subseteq Sessions /\ pending \subseteq admitted /\ used \subseteq admitted
    /\ pending \cap used = {} /\ sessions \subseteq used /\ closing \subseteq used
    /\ accepting \in used \cup {NoSession}
    /\ silence \in 0 .. Timeout
    /\ round = NoRound \/ round \subseteq Sessions
    /\ events \in Seq(Event)
    /\ Len(events) <= Capacity + 2 + Cardinality(admitted)
    /\ \A i \in Capacity + 1 .. Len(events) : events[i].type \in Lifecycle
    /\ status \in {"starting", "running", "degraded", "error", "stopped"}
    /\ stored \in [Sessions -> {"none", "active", "ended"}]
    /\ Cardinality({s \in Sessions : stored[s] = "ended"}) <= MaxCompleted
    /\ grants \in [Ips -> [0 .. Window - 1 -> 0 .. 2 * Limit]]
    /\ over \subseteq Sessions /\ stale \subseteq Sessions

\* Nothing is on its way from the worker to the store.
Quiet ==
    /\ events = << >>
    /\ accepting = NoSession /\ closing = {}
    /\ alive \/ settled

\* Once everything on its way has arrived, the store shows exactly the worker's
\* sessions as connected, whatever was dropped, blocked or lost with the worker:
\* the reason given in emit for blocking a lifecycle event.  The exceptions are
\* sessions whose session_connected was overtaken, by their own
\* session_disconnected or by CloseRelaySessions.
SessionsAgree ==
    Quiet => {s \in Sessions : stored[s] = "active"} = sessions \cup stale

\* Attempts allowed in the last Window seconds.
Recent(ip) == grants[ip][Window - 1]

\* allowConnectionAttempt counts in fixed windows and forgets them when its table
\* is full; still no address is allowed twice the limit in any sliding minute.
FloodBounded == \A ip \in Ips : Recent(ip) < 2 * Limit

\* An address is refused for what it did in the last minute, or because the
\* table is full of addresses whose minute is not over.
RefusedForCause ==
    alive => \A ip \in Ips :
        ~allowConnectionAttempt(ip).allowed =>
            \/ Recent(ip) >= Limit
            \/ ip \notin DOMAIN attempts /\ Cardinality(Fresh(attempts)) >= MaxTracked

\* A relay_metrics event finds room.
MetricsFit == RelayMetrics /\ Len(events) < Capacity

\* If relay_metrics are not all dropped, an input that stays silent is shown as
\* degraded for good, and one that flows again is not left degraded.
StallIsShown ==
    []<><<MetricsFit>>_vars =>
        /\ <>[](silence = Timeout) => <>[](status = "degraded")
        /\ <>[](silence < Timeout) => <>[](status # "degraded")

\* A session that ends is shown as ended, however long its event has waited, or
\* the worker is gone and its sessions with it.
EndIsShown ==
    \A s \in Sessions : s \in closing ~> (stored[s] # "active" \/ s \in stale)
=============================================================================

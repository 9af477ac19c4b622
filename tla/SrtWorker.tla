------------------------------ MODULE SrtWorker ------------------------------
(***************************************************************************)
(* One SRT worker process (internal/srtworker/worker.go): admission of     *)
(* callers in the libsrt listener callback, the accept loop, the life of a *)
(* session and the shutdown of Run.                                        *)
(*                                                                         *)
(* A key is what attemptKey makes of a caller (address, port, Stream ID);  *)
(* it determines the client.  Left out: packets, statistics and the audit  *)
(* events of refused callers, and the attempt limiter, which can only      *)
(* refuse a caller before any of this state is touched.                    *)
(***************************************************************************)
EXTENDS Naturals, FiniteSets

CONSTANTS
    Keys, Clients,
    ClientOf,     \* [Keys -> Clients]
    MaxSessions,  \* [Clients -> Nat], ACL of each client
    MaxClients,   \* of the relay
    Slots,        \* BOUND: session objects
    NoKey, NoSlot, NoClient,
    MaxTimers,    \* BOUND: timers of one key that have not fired
    Directions    \* BOUND: the values of Direction: "listener", "publish"

ASSUME ClientOfAssumption == ClientOf \in [Keys -> Clients]
ASSUME MaxSessionsAssumption == MaxSessions \in [Clients -> Nat]
ASSUME BoundsAssumption == MaxClients \in Nat /\ MaxTimers \in Nat
ASSUME SlotsAssumption == IsFiniteSet(Slots) /\ NoSlot \notin Slots
ASSUME KeysAssumption == IsFiniteSet(Keys) /\ NoKey \notin Keys
ASSUME ClientsAssumption == NoClient \notin Clients
ASSUME DirectionsAssumption == Directions \subseteq {"listener", "publish"}

VARIABLES
    pending,      \* worker.pending: keys of authorized handshakes
    reservations, \* worker.reservations
    timers,       \* started expireAttempt timers of each key
    dialing,      \* keys with a handshake in libsrt that nativeAccept may return
    accept,       \* acceptLoop: its step ("none" in a publish worker, which has
                  \* no listener), the key it got, the session it made
    sessions,     \* worker.sessions: the sessions in the map
    owner,        \* the client of each session object, NoClient for an unused one
    sender,       \* sendLoop of each session
    closing,      \* closeOnce of each session
    told,         \* lifecycle events emitted for each session, in order
    main,         \* Run
    snapshot      \* closeAllSessions: sessions it has still to close

admission == <<pending, reservations, timers>>
session == <<owner, sender, closing, told>>
vars == <<admission, dialing, accept, sessions, session, main, snapshot>>

Told == {"nothing", "connected", "connected-disconnected", "disconnected",
         "disconnected-connected", "repeated"}

-----------------------------------------------------------------------------
(* Helpers *)

SessionsOf(c) == {s \in sessions : owner[s] = c}
PendingOf(c) == {k \in pending : ClientOf[k] = c}

\* The limits that authorize tests, under the lock.
WithinLimits_ForgetsReserved(c) ==
    /\ Cardinality(SessionsOf(c)) < MaxSessions[c]
    /\ Cardinality(sessions) + Cardinality(pending) < MaxClients
WithinLimits(c) ==
    /\ reservations[c] + Cardinality(SessionsOf(c)) < MaxSessions[c]
    /\ Cardinality(sessions) + Cardinality(pending) < MaxClients

\* delete(pending, key) and its reservation, under the lock.
Release_KeepsReservation(k) ==
    /\ pending' = pending \ {k}
    /\ UNCHANGED reservations
Release(k) ==
    /\ pending' = pending \ {k}
    /\ reservations' = [reservations EXCEPT ![ClientOf[k]] = @ - 1]

\* What the daemon has been told of a session after one more lifecycle event.
Tell(t, event) ==
    CASE t = "nothing"                                   -> event
      [] t = "connected" /\ event = "disconnected"       -> "connected-disconnected"
      [] t = "disconnected" /\ event = "connected"       -> "disconnected-connected"
      [] OTHER                                           -> "repeated"

\* close(session.done): closeOnce has been entered.
Done(s) == closing[s] # "open"

Idle == [step |-> "wait", key |-> NoKey, slot |-> NoSlot]

\* A worker that publishes: one outgoing session and no listener.
Publish == accept.step = "none"

\* A publish worker starts with its session; its connected event and sendLoop
\* come before anything can fail.
Init ==
    /\ pending = {}
    /\ reservations = [c \in Clients |-> 0]
    /\ timers = [k \in Keys |-> 0]
    /\ dialing = {}
    /\ \/ /\ "listener" \in Directions
          /\ accept = Idle
          /\ sessions = {}
          /\ owner = [x \in Slots |-> NoClient]
       \/ /\ "publish" \in Directions
          /\ accept = [Idle EXCEPT !.step = "none"]
          /\ \E s \in Slots, c \in Clients :
                /\ sessions = {s}
                /\ owner = [x \in Slots |-> IF x = s THEN c ELSE NoClient]
    /\ sender = [x \in Slots |-> IF x \in sessions THEN "on" ELSE "off"]
    /\ told = [x \in Slots |-> IF x \in sessions THEN "connected" ELSE "nothing"]
    /\ closing = [x \in Slots |-> "open"]
    /\ main = "serve"
    /\ snapshot = {}

-----------------------------------------------------------------------------
(* authorize, called by libsrt for a handshake on the listener *)

\* A handshake of this key is already authorized: same answer again.
AuthorizeAgain(k) ==
    /\ main = "serve"
    /\ k \notin dialing
    /\ k \in pending
    /\ dialing' = dialing \cup {k}
    /\ UNCHANGED <<admission, accept, sessions, session, main, snapshot>>

\* The caller passes the ACL and the limits: it is reserved and its timer runs.
Authorize(k) ==
    /\ main = "serve" /\ ~Publish
    /\ k \notin pending
    /\ WithinLimits(ClientOf[k])
    /\ timers[k] < MaxTimers
    /\ pending' = pending \cup {k}
    /\ reservations' = [reservations EXCEPT ![ClientOf[k]] = @ + 1]
    /\ timers' = [timers EXCEPT ![k] = @ + 1]
    /\ dialing' = dialing \cup {k}
    /\ UNCHANGED <<accept, sessions, session, main, snapshot>>

\* A timer fires: whatever attempt of that key is pending has expired.
ExpireAttempt_Unchecked(k) ==
    /\ timers[k] > 0
    /\ timers' = [timers EXCEPT ![k] = @ - 1]
    /\ Release(k)
    /\ UNCHANGED <<dialing, accept, sessions, session, main, snapshot>>
ExpireAttempt_Keeps(k) ==
    /\ timers[k] > 0
    /\ timers' = [timers EXCEPT ![k] = @ - 1]
    /\ UNCHANGED <<pending, reservations, dialing, accept, sessions, session, main, snapshot>>
ExpireAttempt(k) ==
    /\ timers[k] > 0
    /\ timers' = [timers EXCEPT ![k] = @ - 1]
    /\ IF k \in pending THEN Release(k) ELSE UNCHANGED <<pending, reservations>>
    /\ UNCHANGED <<dialing, accept, sessions, session, main, snapshot>>

\* The handshake fails in libsrt, or the caller gives up.
HangUp(k) ==
    /\ k \in dialing
    /\ dialing' = dialing \ {k}
    /\ UNCHANGED <<admission, accept, sessions, session, main, snapshot>>

-----------------------------------------------------------------------------
(* acceptLoop *)

\* nativeAccept returns a socket (it may have it even if the listener has just
\* been closed).
Accept(k) ==
    /\ accept.step = "wait"
    /\ k \in dialing
    /\ accept' = [step |-> "register", key |-> k, slot |-> NoSlot]
    /\ dialing' = dialing \ {k}
    /\ UNCHANGED <<admission, sessions, session, main, snapshot>>

\* Under the lock: no authorized pending handshake, or no session id.
AcceptRefused ==
    /\ accept.step = "register"
    /\ IF accept.key \in pending THEN Release(accept.key) ELSE UNCHANGED <<pending, reservations>>
    /\ accept' = Idle
    /\ UNCHANGED <<timers, dialing, sessions, session, main, snapshot>>

\* Under the lock: the pending attempt becomes a session.
Register ==
    /\ accept.step = "register"
    /\ accept.key \in pending
    /\ Release(accept.key)
    /\ \E s \in Slots :
          /\ owner[s] = NoClient
          /\ sessions' = sessions \cup {s}
          /\ owner' = [owner EXCEPT ![s] = ClientOf[accept.key]]
          /\ accept' = [accept EXCEPT !.step = "announce", !.slot = s]
    /\ UNCHANGED <<timers, dialing, sender, closing, told, main, snapshot>>

\* session_connected is emitted and the sender started.
Announce ==
    /\ accept.step = "announce"
    /\ told' = [told EXCEPT ![accept.slot] = Tell(@, "connected")]
    /\ sender' = [sender EXCEPT ![accept.slot] = "on"]
    /\ accept' = Idle
    /\ UNCHANGED <<admission, dialing, sessions, owner, closing, main, snapshot>>

\* nativeAccept fails: the listener is closed, or (not stopping) the loop
\* reports a fatal error and Run stops.
AcceptFails ==
    /\ accept.step = "wait"
    /\ accept' = [Idle EXCEPT !.step = "returned"]
    /\ main' = IF main = "serve" THEN "stopping" ELSE main
    /\ UNCHANGED <<admission, dialing, sessions, session, snapshot>>

-----------------------------------------------------------------------------
(* sendLoop and close *)

\* nativeSend fails: the sender calls close.
SendFails(s) ==
    /\ sender[s] = "on"
    /\ sender' = [sender EXCEPT ![s] = "closing"]
    /\ closing' = [closing EXCEPT ![s] = IF @ = "open" THEN "entered" ELSE @]
    /\ UNCHANGED <<admission, dialing, accept, sessions, owner, told, main, snapshot>>

\* broadcast found the queue full maxQueueDropBurst times: go session.close
\* (wg does not count that goroutine; the input loop may be in a broadcast
\* until wg.Wait has returned).
SlowClient(s) ==
    /\ main \notin {"closed", "panic"}
    /\ s \in sessions
    /\ closing[s] = "open"
    /\ closing' = [closing EXCEPT ![s] = "entered"]
    /\ UNCHANGED <<admission, dialing, accept, sessions, owner, sender, told, main, snapshot>>

\* Under the lock, the session leaves the map.
CloseDeletes_Keeps(s) ==
    /\ closing[s] = "entered"
    /\ closing' = [closing EXCEPT ![s] = "deleted"]
    /\ UNCHANGED <<admission, dialing, accept, sessions, owner, sender, told, main, snapshot>>
CloseDeletes(s) ==
    /\ closing[s] = "entered"
    /\ closing' = [closing EXCEPT ![s] = "deleted"]
    /\ sessions' = sessions \ {s}
    /\ UNCHANGED <<admission, dialing, accept, owner, sender, told, main, snapshot>>

\* session_disconnected is emitted; a publish worker has lost its only session
\* and stops.  A send on the closed event channel panics.
CloseTells_NotFatal(s) ==
    /\ closing[s] = "deleted"
    /\ closing' = [closing EXCEPT ![s] = "closed"]
    /\ told' = [told EXCEPT ![s] = Tell(@, "disconnected")]
    /\ UNCHANGED <<admission, dialing, accept, sessions, owner, sender, main, snapshot>>
CloseTells(s) ==
    /\ closing[s] = "deleted"
    /\ closing' = [closing EXCEPT ![s] = "closed"]
    /\ told' = [told EXCEPT ![s] = Tell(@, "disconnected")]
    /\ main' = CASE main = "closed"            -> "panic"
                 [] Publish /\ main = "serve"  -> "stopping"
                 [] OTHER                      -> main
    /\ UNCHANGED <<admission, dialing, accept, sessions, owner, sender, snapshot>>

\* sendLoop returns: it sees done closed, or its own close has ended.
SenderReturns_OwnClose(s) ==
    /\ sender[s] = "closing" /\ closing[s] = "closed"
    /\ sender' = [sender EXCEPT ![s] = "returned"]
    /\ UNCHANGED <<admission, dialing, accept, sessions, owner, closing, told, main, snapshot>>
SenderReturns(s) ==
    /\ \/ sender[s] = "on" /\ Done(s)
       \/ sender[s] = "closing" /\ closing[s] = "closed"
    /\ sender' = [sender EXCEPT ![s] = "returned"]
    /\ UNCHANGED <<admission, dialing, accept, sessions, owner, closing, told, main, snapshot>>

\* The object of a session that has ended is used again.
Recycle(s) ==
    /\ sender[s] = "returned" /\ closing[s] = "closed"
    /\ s \notin snapshot
    /\ owner' = [owner EXCEPT ![s] = NoClient]
    /\ sender' = [sender EXCEPT ![s] = "off"]
    /\ closing' = [closing EXCEPT ![s] = "open"]
    /\ told' = [told EXCEPT ![s] = "nothing"]
    /\ UNCHANGED <<admission, dialing, accept, sessions, main, snapshot>>

-----------------------------------------------------------------------------
(* Run *)

\* The context is done, or a loop reported an error: stopping is set and the
\* input and the endpoint are closed.
Stop ==
    /\ main = "serve"
    /\ main' = "stopping"
    /\ UNCHANGED <<admission, dialing, accept, sessions, session, snapshot>>

\* closeAllSessions copies the map under the lock.
Snapshot ==
    /\ main = "stopping"
    /\ main' = "closing"
    /\ snapshot' = sessions
    /\ UNCHANGED <<admission, dialing, accept, sessions, session>>

\* It calls close for each; closeOnce makes it wait for a close under way.
CloseOne(s) ==
    /\ main = "closing" /\ s \in snapshot
    /\ closing[s] = "open"
    /\ closing' = [closing EXCEPT ![s] = "entered"]
    /\ UNCHANGED <<admission, dialing, accept, sessions, owner, sender, told, main, snapshot>>

ClosedOne(s) ==
    /\ main = "closing" /\ s \in snapshot
    /\ closing[s] = "closed"
    /\ snapshot' = snapshot \ {s}
    /\ UNCHANGED <<admission, dialing, accept, sessions, session, main>>

\* clear(pending) and clear(reservations), under the lock.
ClearPending ==
    /\ main = "closing" /\ snapshot = {}
    /\ main' = "waiting"
    /\ pending' = {}
    /\ reservations' = [c \in Clients |-> 0]
    /\ UNCHANGED <<timers, dialing, accept, sessions, session, snapshot>>

\* wg.Wait returns when the accept loop and every sender have returned; then
\* the event channel is closed and Run returns.
Finish ==
    /\ main = "waiting"
    /\ accept.step \in {"returned", "none"}
    /\ \A s \in Slots : sender[s] \in {"off", "returned"}
    /\ main' = "closed"
    /\ UNCHANGED <<admission, dialing, accept, sessions, session, snapshot>>

-----------------------------------------------------------------------------
AcceptStep == AcceptRefused \/ Register \/ Announce

CloseStep(s) == CloseDeletes(s) \/ CloseTells(s)

RunStep == Snapshot \/ (\E s \in Slots : CloseOne(s) \/ ClosedOne(s)) \/ ClearPending \/ Finish

Next ==
    \/ \E k \in Keys : AuthorizeAgain(k) \/ Authorize(k) \/ ExpireAttempt(k) \/ HangUp(k) \/ Accept(k)
    \/ AcceptStep \/ AcceptFails
    \/ \E s \in Slots : SendFails(s) \/ SlowClient(s) \/ CloseStep(s) \/ SenderReturns(s) \/ Recycle(s)
    \/ Stop \/ RunStep

Spec == Init /\ [][Next]_vars

\* Timers fire, goroutines run, and nativeAccept fails once the listener is
\* closed.  Callers, failing sends and the stop signal are not fair.
Fairness ==
    /\ \A k \in Keys : WF_vars(ExpireAttempt(k))
    /\ WF_vars(AcceptStep)
    /\ WF_vars(main # "serve" /\ AcceptFails)
    /\ \A s \in Slots : WF_vars(CloseStep(s)) /\ WF_vars(SenderReturns(s))
    /\ WF_vars(RunStep)

FairSpec == Spec /\ Fairness

-----------------------------------------------------------------------------
(* Properties *)

\* The fields of worker and clientSession have their types.
TypeOK ==
    /\ pending \subseteq Keys
    /\ reservations \in [Clients -> Nat]
    /\ timers \in [Keys -> 0..MaxTimers]
    /\ dialing \subseteq Keys
    /\ accept \in [step : {"wait", "register", "announce", "returned", "none"},
                   key : Keys \cup {NoKey}, slot : Slots \cup {NoSlot}]
    /\ sessions \subseteq Slots
    /\ owner \in [Slots -> Clients \cup {NoClient}]
    /\ sender \in [Slots -> {"off", "on", "closing", "returned"}]
    /\ closing \in [Slots -> {"open", "entered", "deleted", "closed"}]
    /\ told \in [Slots -> Told]
    /\ main \in {"serve", "stopping", "closing", "waiting", "closed", "panic"}
    /\ snapshot \subseteq Slots

\* reservations counts the pending handshakes of each client exactly, whatever
\* order accepts, expiries and shutdown take: no slot is lost or counted twice.
ReservationsExact ==
    \A c \in Clients : reservations[c] = Cardinality(PendingOf(c))

\* README.md:182: the limits of a client and of the relay hold for sessions
\* and authorized handshakes together, also while one becomes the other.
LimitsHold ==
    ~Publish =>
      /\ \A c \in Clients : Cardinality(SessionsOf(c)) + Cardinality(PendingOf(c)) <= MaxSessions[c]
      /\ Cardinality(sessions) + Cardinality(pending) <= MaxClients

\* Each authorized handshake has a timer that will end it: a caller that never
\* completes cannot hold its reservation.
PendingHasTimer == \A k \in pending : timers[k] > 0

\* Concurrent failures close a session once (closeOnce): no event is repeated,
\* and a session reported as disconnected has left the map.
ClosedOnce ==
    \A s \in Slots :
        /\ told[s] # "repeated"
        /\ told[s] \notin {"nothing", "connected"} => s \notin sessions

\* A handshake does not stay reserved for ever.
ReservationEnds == \A k \in Keys : k \in pending ~> k \notin pending

\* A publish worker ends when its session does, so that its manager restarts it.
PublishEnds == Publish => (sessions = {} ~> main \in {"closed", "panic"})

\* A session that was registered after closeAllSessions had copied the map:
\* nobody closes it, and wg.Wait waits for its sender.
Stranded == main = "waiting" /\ \E s \in sessions : closing[s] = "open"

\* A worker that stops comes to the end of Run, unless a session is stranded
\* (the manager then kills the worker after its grace period).
ShutdownCompletes == main = "stopping" ~> (main \in {"closed", "panic"} \/ Stranded)

(* What the repository says of the code and the code does not do: no run has *)
(* these; TLC refutes each with the constants given in README, section 5.     *)

\* worker.go:646-650: lifecycle events wait for room in the channel rather than
\* leave the daemon's state permanently stale.  When a session has been closed
\* the last thing said of it is that it is disconnected.
LastWordIsDisconnected ==
    \A s \in Slots :
        sender[s] = "returned" /\ closing[s] = "closed" => told[s] = "connected-disconnected"
=============================================================================

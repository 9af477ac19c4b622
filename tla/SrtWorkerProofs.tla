--------------------------- MODULE SrtWorkerProofs ---------------------------
(***************************************************************************)
(* Proofs about SrtWorker, for any finite sets of callers and session      *)
(* objects and any limits.  TypeOK and ReservationsExact are inductive     *)
(* only together: a release subtracts one from a natural number, and it is *)
(* the exact count that keeps it from being zero.                          *)
(***************************************************************************)
EXTENDS SrtWorker, FiniteSetTheorems, TLAPS

\* The life of a session object: what each field says of the others, and what
\* the accept loop and closeAllSessions may hold.
SessionLife ==
    /\ \A s \in Slots :
        /\ owner[s] = NoClient => /\ s \notin sessions /\ s \notin snapshot
                                  /\ sender[s] = "off" /\ closing[s] = "open"
        /\ closing[s] \in {"deleted", "closed"} => s \notin sessions
        /\ closing[s] # "closed" => told[s] = IF sender[s] = "off" THEN "nothing" ELSE "connected"
        /\ closing[s] = "closed" =>
              IF sender[s] = "off" THEN told[s] = "disconnected"
              ELSE told[s] \in {"connected-disconnected", "disconnected-connected"}
    /\ accept.step = "announce" => /\ accept.slot \in Slots
                                   /\ owner[accept.slot] # NoClient
                                   /\ sender[accept.slot] = "off"
-----------------------------------------------------------------------------
(* Counting *)

\* The sets that authorize counts are finite, so their sizes are numbers.
LEMMA Finite ==
    ASSUME pending \subseteq Keys, sessions \subseteq Slots
    PROVE  /\ IsFiniteSet(pending) /\ Cardinality(pending) \in Nat
           /\ IsFiniteSet(sessions) /\ Cardinality(sessions) \in Nat
           /\ \A c : /\ IsFiniteSet(PendingOf(c)) /\ Cardinality(PendingOf(c)) \in Nat
                     /\ IsFiniteSet(SessionsOf(c)) /\ Cardinality(SessionsOf(c)) \in Nat
  <1>1. IsFiniteSet(pending) /\ IsFiniteSet(sessions)
    BY FS_Subset, KeysAssumption, SlotsAssumption
  <1>2. ASSUME NEW c PROVE IsFiniteSet(PendingOf(c)) /\ IsFiniteSet(SessionsOf(c))
    <2>1. PendingOf(c) \in SUBSET pending /\ SessionsOf(c) \in SUBSET sessions
      BY DEF PendingOf, SessionsOf
    <2> QED
      BY <1>1, <2>1, FS_Subset
  <1> QED
    BY <1>1, <1>2, FS_CardinalityType

\* A handshake that becomes pending counts once, for its own client.
LEMMA CountAuthorized ==
    ASSUME pending \subseteq Keys, sessions \subseteq Slots,
           NEW k \in Keys \ pending, pending' = pending \cup {k}
    PROVE  /\ Cardinality(pending)' = Cardinality(pending) + 1
           /\ \A c : Cardinality(PendingOf(c))' =
                IF c = ClientOf[k] THEN Cardinality(PendingOf(c)) + 1 ELSE Cardinality(PendingOf(c))
  <1>1. Cardinality(pending') = Cardinality(pending) + 1
    BY Finite, FS_AddElement
  <1>2. ASSUME NEW c, c = ClientOf[k]
        PROVE  Cardinality(PendingOf(c)') = Cardinality(PendingOf(c)) + 1
    <2>1. PendingOf(c)' = PendingOf(c) \cup {k} /\ k \notin PendingOf(c)
      BY <1>2 DEF PendingOf
    <2> QED
      BY <2>1, Finite, FS_AddElement
  <1>3. ASSUME NEW c, c # ClientOf[k]
        PROVE  Cardinality(PendingOf(c)') = Cardinality(PendingOf(c))
    <2>1. PendingOf(c)' = PendingOf(c)
      BY <1>3 DEF PendingOf
    <2> QED
      BY <2>1
  <1> QED
    BY <1>1, <1>2, <1>3

\* A pending handshake that ends is taken from the count of its own client,
\* which was not zero.
LEMMA CountReleased ==
    ASSUME pending \subseteq Keys, sessions \subseteq Slots,
           NEW k \in pending, pending' = pending \ {k}
    PROVE  /\ Cardinality(pending)' = Cardinality(pending) - 1
           /\ Cardinality(PendingOf(ClientOf[k])) > 0
           /\ \A c : Cardinality(PendingOf(c))' =
                IF c = ClientOf[k] THEN Cardinality(PendingOf(c)) - 1 ELSE Cardinality(PendingOf(c))
  <1>1. Cardinality(pending') = Cardinality(pending) - 1
    BY Finite, FS_RemoveElement
  <1>2. Cardinality(PendingOf(ClientOf[k])) > 0
    <2>1. PendingOf(ClientOf[k]) # {}
      BY DEF PendingOf
    <2> QED
      BY <2>1, Finite, FS_EmptySet
  <1>3. ASSUME NEW c, c = ClientOf[k]
        PROVE  Cardinality(PendingOf(c)') = Cardinality(PendingOf(c)) - 1
    <2>1. PendingOf(c)' = PendingOf(c) \ {k} /\ k \in PendingOf(c)
      BY <1>3 DEF PendingOf
    <2> QED
      BY <2>1, Finite, FS_RemoveElement
  <1>4. ASSUME NEW c, c # ClientOf[k]
        PROVE  Cardinality(PendingOf(c)') = Cardinality(PendingOf(c))
    <2>1. PendingOf(c)' = PendingOf(c)
      BY <1>4 DEF PendingOf
    <2> QED
      BY <2>1
  <1> QED
    BY <1>1, <1>2, <1>3, <1>4

\* No handshake is pending: every count is zero.
LEMMA CountNone ==
    ASSUME pending = {}
    PROVE  Cardinality(pending) = 0 /\ \A c : PendingOf(c) = {} /\ Cardinality(PendingOf(c)) = 0
  <1>1. \A c : PendingOf(c) = {}
    BY DEF PendingOf
  <1> QED
    BY <1>1, FS_EmptySet

-----------------------------------------------------------------------------
(* Admission: who may change the reservations *)

\* What one step may do to worker.pending, its counts and its timers.
Keep == UNCHANGED <<pending, reservations>>
Reserve(k) == Authorize(k)
Free(k) == k \in pending /\ Release(k)
Clear == pending' = {} /\ reservations' = [c \in Clients |-> 0]

\* A step reserves one handshake, releases one that is pending, clears them
\* all, or leaves pending and its counts alone; a timer that fires leaves
\* nothing of its key pending.
LEMMA AdmissionStep ==
    ASSUME TypeOK, [Next]_vars
    PROVE  \/ \E k \in Keys : Reserve(k)
           \/ \E k \in Keys : Free(k) /\ UNCHANGED timers
           \/ \E k \in Keys : Free(k) /\ timers[k] > 0 /\ timers' = [timers EXCEPT ![k] = @ - 1]
           \/ \E k \in Keys \ pending : Keep /\ timers[k] > 0 /\ timers' = [timers EXCEPT ![k] = @ - 1]
           \/ Clear /\ UNCHANGED timers
           \/ Keep /\ UNCHANGED timers
  <1>1. CASE UNCHANGED vars
    BY <1>1 DEF Keep, vars, admission
  <1>2. ASSUME NEW k \in Keys, AuthorizeAgain(k) \/ HangUp(k) \/ Accept(k)
        PROVE  Keep /\ UNCHANGED timers
    BY <1>2 DEF Keep, AuthorizeAgain, HangUp, Accept, admission
  <1>3. ASSUME NEW k \in Keys, Authorize(k)
        PROVE  Reserve(k)
    BY <1>3 DEF Reserve
  <1>4. ASSUME NEW k \in Keys, ExpireAttempt(k)
        PROVE  \/ Free(k) /\ timers[k] > 0 /\ timers' = [timers EXCEPT ![k] = @ - 1]
               \/ k \notin pending /\ Keep /\ timers[k] > 0 /\ timers' = [timers EXCEPT ![k] = @ - 1]
    BY <1>4 DEF Free, Keep, ExpireAttempt
  <1>5. CASE AcceptStep
    <2>1. CASE AcceptRefused
      BY <1>5, <2>1 DEF AcceptRefused, Free, Keep, TypeOK
    <2>2. CASE Register
      BY <1>5, <2>2 DEF Register, Free, TypeOK
    <2>3. CASE Announce
      BY <1>5, <2>3 DEF Announce, Keep, admission
    <2> QED
      BY <1>5, <2>1, <2>2, <2>3 DEF AcceptStep
  <1>6. CASE AcceptFails \/ Stop
    BY <1>6 DEF AcceptFails, Stop, Keep, admission
  <1>7. ASSUME NEW s \in Slots,
               SendFails(s) \/ SlowClient(s) \/ CloseStep(s) \/ SenderReturns(s) \/ Recycle(s)
        PROVE  Keep /\ UNCHANGED timers
    BY <1>7 DEF SendFails, SlowClient, CloseStep, CloseDeletes, CloseTells, SenderReturns, Recycle,
                Keep, admission
  <1>8. CASE RunStep
    BY <1>8 DEF RunStep, Snapshot, CloseOne, ClosedOne, ClearPending, Finish, Clear, Keep, admission
  <1> QED
    BY <1>1, <1>2, <1>3, <1>4, <1>5, <1>6, <1>7, <1>8 DEF Next

\* The reservations stay natural numbers and exact counts.
LEMMA ReservationsStep ==
    ASSUME TypeOK, ReservationsExact, [Next]_vars
    PROVE  /\ pending' \subseteq Keys
           /\ reservations' \in [Clients -> Nat]
           /\ ReservationsExact'
  <1> USE ClientOfAssumption
  <1>0. pending \subseteq Keys /\ sessions \subseteq Slots /\ reservations \in [Clients -> Nat]
    BY DEF TypeOK
  <1>1. ASSUME NEW k \in Keys, Reserve(k)
        PROVE  /\ pending' \subseteq Keys /\ reservations' \in [Clients -> Nat]
               /\ ReservationsExact'
    <2>1. /\ k \notin pending
          /\ pending' = pending \cup {k}
          /\ reservations' = [reservations EXCEPT ![ClientOf[k]] = @ + 1]
      BY <1>1 DEF Reserve, Authorize
    <2>2. \A c : Cardinality(PendingOf(c))' =
             IF c = ClientOf[k] THEN Cardinality(PendingOf(c)) + 1 ELSE Cardinality(PendingOf(c))
      BY <1>0, <2>1, CountAuthorized
    <2> QED
      BY <1>0, <2>1, <2>2 DEF ReservationsExact
  <1>2. ASSUME NEW k \in Keys, Free(k)
        PROVE  /\ pending' \subseteq Keys /\ reservations' \in [Clients -> Nat]
               /\ ReservationsExact'
    <2>1. /\ k \in pending
          /\ pending' = pending \ {k}
          /\ reservations' = [reservations EXCEPT ![ClientOf[k]] = @ - 1]
      BY <1>2 DEF Free, Release
    <2>2. /\ Cardinality(PendingOf(ClientOf[k])) > 0
          /\ \A c : Cardinality(PendingOf(c))' =
               IF c = ClientOf[k] THEN Cardinality(PendingOf(c)) - 1 ELSE Cardinality(PendingOf(c))
      BY <1>0, <2>1, CountReleased
    <2>3. ClientOf[k] \in Clients /\ reservations[ClientOf[k]] > 0
      BY <2>2 DEF ReservationsExact
    <2> QED
      BY <1>0, <2>1, <2>2, <2>3 DEF ReservationsExact
  <1>3. CASE Clear
    <2>1. pending' = {} /\ reservations' = [c \in Clients |-> 0]
      BY <1>3 DEF Clear
    <2>2. \A c : PendingOf(c)' = {}
      BY <2>1 DEF PendingOf
    <2> QED
      BY <2>1, <2>2, FS_EmptySet DEF ReservationsExact
  <1>4. CASE Keep
    BY <1>0, <1>4 DEF Keep, ReservationsExact, PendingOf
  <1> QED
    BY <1>1, <1>2, <1>3, <1>4, AdmissionStep

\* Every pending handshake keeps a timer, and no timer count leaves its bounds.
LEMMA TimersStep ==
    ASSUME TypeOK, [Next]_vars
    PROVE  /\ timers' \in [Keys -> 0..MaxTimers]
           /\ PendingHasTimer => PendingHasTimer'
  <1> USE BoundsAssumption
  <1>0. pending \subseteq Keys /\ timers \in [Keys -> 0..MaxTimers]
    BY DEF TypeOK
  <1>1. ASSUME NEW k \in Keys, Reserve(k)
        PROVE  timers' \in [Keys -> 0..MaxTimers] /\ (PendingHasTimer => PendingHasTimer')
    <2>1. /\ pending' = pending \cup {k} /\ timers[k] < MaxTimers
          /\ timers' = [timers EXCEPT ![k] = @ + 1]
      BY <1>1 DEF Reserve, Authorize
    <2> QED
      BY <1>0, <2>1 DEF PendingHasTimer
  <1>2. ASSUME NEW k \in Keys, Free(k), UNCHANGED timers
        PROVE  timers' \in [Keys -> 0..MaxTimers] /\ (PendingHasTimer => PendingHasTimer')
    BY <1>0, <1>2 DEF Free, Release, PendingHasTimer
  <1>3. ASSUME NEW k \in Keys, Free(k), timers[k] > 0, timers' = [timers EXCEPT ![k] = @ - 1]
        PROVE  timers' \in [Keys -> 0..MaxTimers] /\ (PendingHasTimer => PendingHasTimer')
    BY <1>0, <1>3 DEF Free, Release, PendingHasTimer
  <1>4. ASSUME NEW k \in Keys \ pending, Keep, timers[k] > 0, timers' = [timers EXCEPT ![k] = @ - 1]
        PROVE  timers' \in [Keys -> 0..MaxTimers] /\ (PendingHasTimer => PendingHasTimer')
    BY <1>0, <1>4 DEF Keep, PendingHasTimer
  <1>5. ASSUME Clear \/ Keep, UNCHANGED timers
        PROVE  timers' \in [Keys -> 0..MaxTimers] /\ (PendingHasTimer => PendingHasTimer')
    BY <1>0, <1>5 DEF Clear, Keep, PendingHasTimer
  <1> QED
    BY <1>1, <1>2, <1>3, <1>4, <1>5, AdmissionStep
-----------------------------------------------------------------------------
(* Types *)

\* The types hold at first, and nothing is reserved.
LEMMA TypeInit == Init => TypeOK /\ ReservationsExact /\ PendingHasTimer
  <1> SUFFICES ASSUME Init PROVE TypeOK /\ ReservationsExact /\ PendingHasTimer
    OBVIOUS
  <1>1. /\ accept \in [step : {"wait", "register", "announce", "returned", "none"},
                       key : Keys \cup {NoKey}, slot : Slots \cup {NoSlot}]
        /\ sessions \subseteq Slots
        /\ owner \in [Slots -> Clients \cup {NoClient}]
    BY DEF Init, Idle
  <1>2. /\ sender \in [Slots -> {"off", "on", "closing", "returned"}]
        /\ closing \in [Slots -> {"open", "entered", "deleted", "closed"}]
        /\ told \in [Slots -> Told]
    BY DEF Init, Told
  <1>3. /\ pending = {} /\ reservations = [c \in Clients |-> 0]
        /\ timers \in [Keys -> 0..MaxTimers]
        /\ dialing = {} /\ main = "serve" /\ snapshot = {}
    BY BoundsAssumption DEF Init
  <1>4. TypeOK
    BY <1>1, <1>2, <1>3 DEF TypeOK
  <1>5. ReservationsExact
    BY <1>3, CountNone DEF ReservationsExact
  <1>6. PendingHasTimer
    BY <1>3 DEF PendingHasTimer
  <1> QED
    BY <1>4, <1>5, <1>6

\* One more lifecycle event gives a history of events.
LEMMA TellType ==
    ASSUME NEW t \in Told, NEW e \in {"connected", "disconnected"}
    PROVE  Tell(t, e) \in Told
  BY DEF Tell, Told

\* The fields that are not part of admission.
OtherTypes ==
    /\ dialing \subseteq Keys
    /\ accept \in [step : {"wait", "register", "announce", "returned", "none"},
                   key : Keys \cup {NoKey}, slot : Slots \cup {NoSlot}]
    /\ sessions \subseteq Slots
    /\ owner \in [Slots -> Clients \cup {NoClient}]
    /\ sender \in [Slots -> {"off", "on", "closing", "returned"}]
    /\ closing \in [Slots -> {"open", "entered", "deleted", "closed"}]
    /\ told \in [Slots -> Told]
    /\ main \in {"serve", "stopping", "closing", "waiting", "closed", "panic"}
    /\ snapshot \subseteq Slots

\* Callers and the accept loop keep the types.
LEMMA TypeAccept ==
    ASSUME TypeOK, SessionLife,
           (\E k \in Keys : AuthorizeAgain(k) \/ Authorize(k) \/ ExpireAttempt(k) \/ HangUp(k) \/ Accept(k))
             \/ AcceptStep \/ AcceptFails
    PROVE  OtherTypes'
  <1>0. OtherTypes
    BY DEF TypeOK, OtherTypes
  <1>1. ASSUME NEW k \in Keys, AuthorizeAgain(k) \/ Authorize(k) \/ ExpireAttempt(k) \/ HangUp(k)
        PROVE  OtherTypes'
    BY <1>0, <1>1 DEF OtherTypes, AuthorizeAgain, Authorize, ExpireAttempt, HangUp, session
  <1>2. ASSUME NEW k \in Keys, Accept(k)
        PROVE  OtherTypes'
    BY <1>0, <1>2 DEF OtherTypes, Accept, session
  <1>3. CASE AcceptRefused
    BY <1>0, <1>3 DEF OtherTypes, AcceptRefused, Idle, session
  <1>4. CASE Register
    <2>1. PICK s \in Slots :
            /\ sessions' = sessions \cup {s}
            /\ owner' = [owner EXCEPT ![s] = ClientOf[accept.key]]
            /\ accept' = [accept EXCEPT !.step = "announce", !.slot = s]
      BY <1>4 DEF Register
    <2>2. ClientOf[accept.key] \in Clients
      BY <1>4, ClientOfAssumption DEF Register, TypeOK
    <2> QED
      BY <1>0, <1>4, <2>1, <2>2 DEF OtherTypes, Register
  <1>5. CASE Announce
    <2>1. told[accept.slot] \in Told /\ Tell(told[accept.slot], "connected") \in Told
      BY <1>0, <1>5, TellType DEF OtherTypes, Announce, SessionLife
    <2> QED
      BY <1>0, <1>5, <2>1 DEF OtherTypes, Announce, Idle
  <1>6. CASE AcceptFails
    BY <1>0, <1>6 DEF OtherTypes, AcceptFails, Idle, session
  <1> QED
    BY <1>1, <1>2, <1>3, <1>4, <1>5, <1>6 DEF AcceptStep

\* Senders, close and Run keep the types.
LEMMA TypeClose ==
    ASSUME TypeOK,
           (\E s \in Slots : SendFails(s) \/ SlowClient(s) \/ CloseStep(s) \/ SenderReturns(s) \/ Recycle(s))
             \/ Stop \/ RunStep
    PROVE  OtherTypes'
  <1>0. OtherTypes
    BY DEF TypeOK, OtherTypes
  <1>1. ASSUME NEW s \in Slots, SendFails(s) \/ SlowClient(s) \/ CloseDeletes(s) \/ SenderReturns(s)
        PROVE  OtherTypes'
    BY <1>0, <1>1 DEF OtherTypes, SendFails, SlowClient, CloseDeletes, SenderReturns
  <1>2. ASSUME NEW s \in Slots, CloseTells(s)
        PROVE  OtherTypes'
    <2>1. told[s] \in Told /\ Tell(told[s], "disconnected") \in Told
      BY <1>0, TellType DEF OtherTypes
    <2>2. main' \in {main, "panic", "stopping"}
      BY <1>2 DEF CloseTells
    <2> QED
      BY <1>0, <1>2, <2>1, <2>2 DEF OtherTypes, CloseTells
  <1>3. ASSUME NEW s \in Slots, Recycle(s)
        PROVE  OtherTypes'
    BY <1>0, <1>3 DEF OtherTypes, Recycle, Told
  <1>4. CASE Stop \/ Snapshot \/ ClearPending \/ Finish
    BY <1>0, <1>4 DEF OtherTypes, Stop, Snapshot, ClearPending, Finish, session
  <1>5. ASSUME NEW s \in Slots, CloseOne(s) \/ ClosedOne(s)
        PROVE  OtherTypes'
    BY <1>0, <1>5 DEF OtherTypes, CloseOne, ClosedOne, session
  <1> QED
    BY <1>1, <1>2, <1>3, <1>4, <1>5 DEF CloseStep, RunStep

\* No step breaks a type while the reservations are exact.
LEMMA TypeStep ==
    ASSUME TypeOK, ReservationsExact, SessionLife, [Next]_vars
    PROVE  TypeOK'
  <1>1. OtherTypes'
    <2>1. CASE UNCHANGED vars
      BY <2>1 DEF TypeOK, OtherTypes, vars, session
    <2> QED
      BY <2>1, TypeAccept, TypeClose DEF Next
  <1>2. pending' \subseteq Keys /\ reservations' \in [Clients -> Nat] /\ timers' \in [Keys -> 0..MaxTimers]
    BY ReservationsStep, TimersStep
  <1> QED
    BY <1>1, <1>2 DEF TypeOK, OtherTypes
-----------------------------------------------------------------------------
(* The life of a session *)

\* SessionLife holds at first: a publish worker's session is on the air.
LEMMA LifeInit == Init => SessionLife
  <1> SUFFICES ASSUME Init PROVE SessionLife
    OBVIOUS
  <1>1. accept.step # "announce"
    BY DEF Init, Idle
  <1>2. \A s \in Slots : owner[s] = NoClient => s \notin sessions
    BY ClientsAssumption DEF Init
  <1> QED
    BY <1>1, <1>2 DEF Init, SessionLife

\* Callers and the accept loop keep the life of the sessions.
LEMMA LifeAccept ==
    ASSUME TypeOK, SessionLife,
           (\E k \in Keys : AuthorizeAgain(k) \/ Authorize(k) \/ ExpireAttempt(k) \/ HangUp(k) \/ Accept(k))
             \/ AcceptStep \/ AcceptFails
    PROVE  SessionLife'
  <1>1. ASSUME NEW k \in Keys, AuthorizeAgain(k) \/ Authorize(k) \/ ExpireAttempt(k) \/ HangUp(k)
        PROVE  SessionLife'
    BY <1>1 DEF SessionLife, AuthorizeAgain, Authorize, ExpireAttempt, HangUp, session
  <1>2. ASSUME NEW k \in Keys, Accept(k)
        PROVE  SessionLife'
    BY <1>2 DEF SessionLife, Accept, session
  <1>3. CASE AcceptRefused \/ AcceptFails
    BY <1>3 DEF SessionLife, AcceptRefused, AcceptFails, Idle, session
  <1>4. CASE Register
    <2>1. PICK s \in Slots :
            /\ owner[s] = NoClient
            /\ sessions' = sessions \cup {s}
            /\ owner' = [owner EXCEPT ![s] = ClientOf[accept.key]]
            /\ accept' = [accept EXCEPT !.step = "announce", !.slot = s]
      BY <1>4 DEF Register
    <2>2. ClientOf[accept.key] # NoClient
      BY <1>4, ClientOfAssumption, ClientsAssumption DEF Register, TypeOK
    <2>3. UNCHANGED <<sender, closing, told, snapshot>>
      BY <1>4 DEF Register
    <2>4. accept'.step = "announce" /\ accept'.slot = s
      BY <2>1 DEF TypeOK
    <2>5. owner'[s] # NoClient /\ \A x \in Slots \ {s} : owner'[x] = owner[x]
      BY <2>1, <2>2 DEF TypeOK
    <2> QED
      BY <2>1, <2>3, <2>4, <2>5 DEF SessionLife
  <1>5. CASE Announce
    <2> DEFINE s == accept.slot
    <2>1. s \in Slots /\ owner[s] # NoClient /\ sender[s] = "off"
      BY <1>5 DEF Announce, SessionLife
    <2>2. /\ told' = [told EXCEPT ![s] = Tell(@, "connected")]
          /\ sender' = [sender EXCEPT ![s] = "on"]
          /\ UNCHANGED <<sessions, owner, closing, snapshot>>
          /\ accept'.step # "announce"
      BY <1>5 DEF Announce, Idle
    <2>3. /\ sender'[s] = "on" /\ told'[s] = Tell(told[s], "connected")
          /\ \A x \in Slots \ {s} : sender'[x] = sender[x] /\ told'[x] = told[x]
      BY <2>1, <2>2 DEF TypeOK
    <2>4. /\ closing[s] # "closed" => told'[s] = "connected"
          /\ closing[s] = "closed" => told'[s] = "disconnected-connected"
      BY <2>1, <2>3 DEF SessionLife, Tell
    <2> QED
      BY <2>1, <2>2, <2>3, <2>4 DEF SessionLife
  <1> QED
    BY <1>1, <1>2, <1>3, <1>4, <1>5 DEF AcceptStep

\* Senders and close keep the life of the sessions.
LEMMA LifeClose ==
    ASSUME TypeOK, SessionLife, NEW s \in Slots,
           SendFails(s) \/ SlowClient(s) \/ CloseStep(s) \/ SenderReturns(s) \/ Recycle(s)
    PROVE  SessionLife'
  <1>1. CASE SendFails(s) \/ SlowClient(s)
    BY <1>1 DEF SendFails, SlowClient, TypeOK, SessionLife
  <1>2. CASE CloseDeletes(s)
    BY <1>2 DEF CloseDeletes, TypeOK, SessionLife
  <1>3. CASE CloseTells(s)
    <2>1. /\ closing[s] = "deleted" /\ closing' = [closing EXCEPT ![s] = "closed"]
          /\ told' = [told EXCEPT ![s] = Tell(@, "disconnected")]
          /\ UNCHANGED <<accept, sessions, owner, sender, snapshot>>
      BY <1>3 DEF CloseTells
    <2>2. told'[s] = IF sender[s] = "off" THEN "disconnected" ELSE "connected-disconnected"
      BY <2>1 DEF SessionLife, Tell, TypeOK
    <2> QED
      BY <2>1, <2>2 DEF TypeOK, SessionLife
  <1>4. CASE SenderReturns(s)
    BY <1>4 DEF SenderReturns, TypeOK, SessionLife
  <1>5. CASE Recycle(s)
    BY <1>5 DEF Recycle, TypeOK, SessionLife
  <1> QED
    BY <1>1, <1>2, <1>3, <1>4, <1>5 DEF CloseStep

\* Run keeps the life of the sessions: what it has still to close is in use.
LEMMA LifeRun ==
    ASSUME TypeOK, SessionLife, Stop \/ RunStep
    PROVE  SessionLife'
  <1>1. CASE Stop \/ ClearPending \/ Finish
    BY <1>1 DEF Stop, ClearPending, Finish, SessionLife, session
  <1>2. CASE Snapshot
    BY <1>2 DEF Snapshot, SessionLife, session
  <1>3. ASSUME NEW s \in Slots, CloseOne(s)
        PROVE  SessionLife'
    BY <1>3 DEF CloseOne, TypeOK, SessionLife
  <1>4. ASSUME NEW s \in Slots, ClosedOne(s)
        PROVE  SessionLife'
    BY <1>4 DEF ClosedOne, SessionLife, session
  <1> QED
    BY <1>1, <1>2, <1>3, <1>4 DEF RunStep

\* The invariant that is inductive.
IndInv == TypeOK /\ ReservationsExact /\ PendingHasTimer /\ SessionLife

\* Every step keeps it.
LEMMA IndStep == IndInv /\ [Next]_vars => IndInv'
  <1> SUFFICES ASSUME IndInv, [Next]_vars PROVE IndInv'
    OBVIOUS
  <1>1. TypeOK /\ ReservationsExact /\ PendingHasTimer /\ SessionLife
    BY DEF IndInv
  <1>2. TypeOK' /\ ReservationsExact' /\ PendingHasTimer'
    BY <1>1, TypeStep, ReservationsStep, TimersStep
  <1>3. SessionLife'
    <2>1. CASE UNCHANGED vars
      BY <1>1, <2>1 DEF vars, session, SessionLife
    <2> QED
      BY <1>1, <2>1, LifeAccept, LifeClose, LifeRun DEF Next
  <1> QED
    BY <1>2, <1>3 DEF IndInv

\* It holds of every state the worker reaches.
LEMMA Inductive == Spec => []IndInv
  <1>1. Init => IndInv
    BY TypeInit, LifeInit DEF IndInv
  <1> QED
    BY <1>1, IndStep, PTL DEF Spec

-----------------------------------------------------------------------------
(* Theorems *)

\* The fields of worker and clientSession have their types; a reservation count
\* never becomes negative.
THEOREM TypeCorrect == Spec => []TypeOK
  BY Inductive, PTL DEF IndInv

\* reservations counts the pending handshakes of each client exactly, in any
\* order of callbacks, accepts, expiries and shutdown (worker.go: authorize,
\* expireAttempt, acceptLoop, closeAllSessions).
THEOREM ReservationsAreExact == Spec => []ReservationsExact
  BY Inductive, PTL DEF IndInv

\* Each authorized handshake has a running expireAttempt timer.
THEOREM PendingIsTimed == Spec => []PendingHasTimer
  BY Inductive, PTL DEF IndInv

\* close reports a session once, after it has left the map, whoever called it
\* and however many did (worker.go: clientSession.close).
THEOREM SessionsCloseOnce == Spec => []ClosedOnce
  <1>1. IndInv => ClosedOnce
    BY DEF IndInv, SessionLife, ClosedOnce
  <1> QED
    BY <1>1, Inductive, PTL

-----------------------------------------------------------------------------
(* Limits *)

\* A session that is registered counts once, for its own client.
LEMMA CountRegistered ==
    ASSUME pending \subseteq Keys, sessions \subseteq Slots,
           owner \in [Slots -> Clients \cup {NoClient}],
           NEW s \in Slots \ sessions, NEW d,
           sessions' = sessions \cup {s}, owner' = [owner EXCEPT ![s] = d]
    PROVE  /\ Cardinality(sessions)' = Cardinality(sessions) + 1
           /\ \A c : Cardinality(SessionsOf(c))' =
                IF c = d THEN Cardinality(SessionsOf(c)) + 1 ELSE Cardinality(SessionsOf(c))
  <1>1. Cardinality(sessions') = Cardinality(sessions) + 1
    BY Finite, FS_AddElement
  <1>2. SessionsOf(d)' = SessionsOf(d) \cup {s} /\ s \notin SessionsOf(d)
    BY DEF SessionsOf
  <1>3. Cardinality(SessionsOf(d)') = Cardinality(SessionsOf(d)) + 1
    BY <1>2, Finite, FS_AddElement
  <1>4. ASSUME NEW c, c # d
        PROVE  Cardinality(SessionsOf(c)') = Cardinality(SessionsOf(c))
    <2>1. SessionsOf(c)' = SessionsOf(c)
      BY <1>4 DEF SessionsOf
    <2> QED
      BY <2>1
  <1> QED
    BY <1>1, <1>3, <1>4

\* A step that adds no session and changes no owner of one counts no more
\* sessions, and one that adds no handshake counts no more of those.
LEMMA CountFewer ==
    ASSUME TypeOK, sessions' \subseteq sessions,
           \A s \in sessions' : owner'[s] = owner[s],
           pending' \subseteq pending
    PROVE  /\ Cardinality(sessions') \in Nat /\ Cardinality(sessions') <= Cardinality(sessions)
           /\ Cardinality(pending') \in Nat /\ Cardinality(pending') <= Cardinality(pending)
           /\ \A c : /\ Cardinality(SessionsOf(c)') \in Nat
                     /\ Cardinality(SessionsOf(c)') <= Cardinality(SessionsOf(c))
                     /\ Cardinality(PendingOf(c)') \in Nat
                     /\ Cardinality(PendingOf(c)') <= Cardinality(PendingOf(c))
  <1>1. /\ IsFiniteSet(pending) /\ IsFiniteSet(sessions)
        /\ \A c : IsFiniteSet(PendingOf(c)) /\ IsFiniteSet(SessionsOf(c))
    BY Finite DEF TypeOK
  <1>2. ASSUME NEW c
        PROVE  SessionsOf(c)' \in SUBSET SessionsOf(c) /\ PendingOf(c)' \in SUBSET PendingOf(c)
    BY DEF SessionsOf, PendingOf
  <1>3. /\ IsFiniteSet(pending') /\ IsFiniteSet(sessions')
        /\ \A c : IsFiniteSet(PendingOf(c)') /\ IsFiniteSet(SessionsOf(c)')
    BY <1>1, <1>2, FS_Subset
  <1> QED
    BY <1>1, <1>2, <1>3, FS_Subset, FS_CardinalityType

\* The part of LimitsHold that every step keeps in a listener.
WithinAll ==
    /\ \A c \in Clients : Cardinality(SessionsOf(c)) + Cardinality(PendingOf(c)) <= MaxSessions[c]
    /\ Cardinality(sessions) + Cardinality(pending) <= MaxClients

\* The numbers that are compared.
LEMMA CountTypes ==
    ASSUME TypeOK
    PROVE  /\ Cardinality(sessions) \in Nat /\ Cardinality(pending) \in Nat
           /\ \A c : Cardinality(SessionsOf(c)) \in Nat /\ Cardinality(PendingOf(c)) \in Nat
           /\ \A c \in Clients : MaxSessions[c] \in Nat
           /\ MaxClients \in Nat
  BY Finite, MaxSessionsAssumption, BoundsAssumption DEF TypeOK
\* Only authorize and the accept loop's registration may count more.
LEMMA OthersShrink ==
    ASSUME TypeOK, SessionLife, [Next]_vars,
           ~(\E k \in Keys : Authorize(k)), ~Register
    PROVE  /\ sessions' \subseteq sessions
           /\ \A s \in sessions' : owner'[s] = owner[s]
           /\ pending' \subseteq pending
  <1>1. pending' \subseteq pending
    BY AdmissionStep DEF Reserve, Free, Release, Keep, Clear
  <1>2. CASE UNCHANGED vars
    BY <1>1, <1>2 DEF vars, session
  <1>3. ASSUME NEW k \in Keys, AuthorizeAgain(k) \/ ExpireAttempt(k) \/ HangUp(k) \/ Accept(k)
        PROVE  UNCHANGED <<sessions, owner>>
    BY <1>3 DEF AuthorizeAgain, ExpireAttempt, HangUp, Accept, session
  <1>4. CASE AcceptRefused \/ Announce \/ AcceptFails
    BY <1>1, <1>4 DEF AcceptRefused, Announce, AcceptFails, session
  <1>5. ASSUME NEW s \in Slots, SendFails(s) \/ SlowClient(s) \/ CloseTells(s) \/ SenderReturns(s)
        PROVE  UNCHANGED <<sessions, owner>>
    BY <1>5 DEF SendFails, SlowClient, CloseTells, SenderReturns
  <1>6. ASSUME NEW s \in Slots, CloseDeletes(s)
        PROVE  sessions' \subseteq sessions /\ UNCHANGED owner
    BY <1>6 DEF CloseDeletes
  <1>7. ASSUME NEW s \in Slots, Recycle(s)
        PROVE  UNCHANGED sessions /\ \A x \in sessions : owner'[x] = owner[x]
    BY <1>7 DEF Recycle, SessionLife, TypeOK
  <1>8. CASE Stop \/ RunStep
    BY <1>1, <1>8 DEF Stop, RunStep, Snapshot, CloseOne, ClosedOne, ClearPending, Finish, session
  <1> QED
    BY <1>1, <1>2, <1>3, <1>4, <1>5, <1>6, <1>7, <1>8 DEF Next, AcceptStep, CloseStep

\* Authorize tests the limits of what is pending and registered together.
LEMMA LimitsAuthorize ==
    ASSUME IndInv, WithinAll, NEW k \in Keys, Authorize(k)
    PROVE  WithinAll'
  <1>1. TypeOK /\ ReservationsExact
    BY DEF IndInv
  <1>2. pending \subseteq Keys /\ sessions \subseteq Slots /\ ClientOf[k] \in Clients
    BY <1>1, ClientOfAssumption DEF TypeOK
  <1>3. /\ k \notin pending /\ pending' = pending \cup {k}
        /\ WithinLimits(ClientOf[k])
        /\ UNCHANGED <<sessions, owner>>
    BY DEF Authorize, session
  <1>4. /\ Cardinality(pending') = Cardinality(pending) + 1
        /\ \A c : Cardinality(PendingOf(c)') =
             IF c = ClientOf[k] THEN Cardinality(PendingOf(c)) + 1 ELSE Cardinality(PendingOf(c))
    BY <1>2, <1>3, CountAuthorized
  <1>5. \A c : SessionsOf(c)' = SessionsOf(c)
    BY <1>3 DEF SessionsOf
  <1>6. /\ Cardinality(PendingOf(ClientOf[k])) + Cardinality(SessionsOf(ClientOf[k])) < MaxSessions[ClientOf[k]]
        /\ Cardinality(sessions) + Cardinality(pending) < MaxClients
    BY <1>1, <1>2, <1>3 DEF WithinLimits, ReservationsExact
  <1>7. Cardinality(sessions') + Cardinality(pending') <= MaxClients
    BY <1>1, <1>3, <1>4, <1>6, CountTypes
  <1>8. ASSUME NEW c \in Clients
        PROVE  Cardinality(SessionsOf(c)') + Cardinality(PendingOf(c)') <= MaxSessions[c]
    BY <1>1, <1>4, <1>5, <1>6, CountTypes DEF WithinAll
  <1> QED
    BY <1>7, <1>8 DEF WithinAll

\* A registration turns one reservation into one session, under one lock.
LEMMA LimitsRegister ==
    ASSUME IndInv, WithinAll, Register
    PROVE  WithinAll'
  <1>1. TypeOK /\ SessionLife
    BY DEF IndInv
  <1>2. /\ pending \subseteq Keys /\ sessions \subseteq Slots
        /\ owner \in [Slots -> Clients \cup {NoClient}]
    BY <1>1 DEF TypeOK
  <1>3. accept.key \in pending /\ pending' = pending \ {accept.key}
    BY DEF Register, Release
  <1>4. PICK s \in Slots :
          /\ owner[s] = NoClient
          /\ sessions' = sessions \cup {s}
          /\ owner' = [owner EXCEPT ![s] = ClientOf[accept.key]]
    BY DEF Register
  <1>5. s \notin sessions
    BY <1>1, <1>4 DEF SessionLife
  <1>6. /\ Cardinality(sessions') = Cardinality(sessions) + 1
        /\ \A c : Cardinality(SessionsOf(c)') =
             IF c = ClientOf[accept.key] THEN Cardinality(SessionsOf(c)) + 1
             ELSE Cardinality(SessionsOf(c))
    BY <1>2, <1>4, <1>5, CountRegistered
  <1>7. /\ Cardinality(pending') = Cardinality(pending) - 1
        /\ \A c : Cardinality(PendingOf(c)') =
             IF c = ClientOf[accept.key] THEN Cardinality(PendingOf(c)) - 1
             ELSE Cardinality(PendingOf(c))
    BY <1>2, <1>3, CountReleased
  <1>8. Cardinality(sessions') + Cardinality(pending') <= MaxClients
    BY <1>1, <1>6, <1>7, CountTypes DEF WithinAll
  <1>9. ASSUME NEW c \in Clients
        PROVE  Cardinality(SessionsOf(c)') + Cardinality(PendingOf(c)') <= MaxSessions[c]
    BY <1>1, <1>6, <1>7, CountTypes DEF WithinAll
  <1> QED
    BY <1>8, <1>9 DEF WithinAll

\* Everything else counts no more than before.
LEMMA LimitsShrink ==
    ASSUME TypeOK, WithinAll,
           sessions' \subseteq sessions, \A s \in sessions' : owner'[s] = owner[s],
           pending' \subseteq pending
    PROVE  WithinAll'
  <1>1. Cardinality(sessions') + Cardinality(pending') <= MaxClients
    BY CountFewer, CountTypes DEF WithinAll
  <1>2. ASSUME NEW c \in Clients
        PROVE  Cardinality(SessionsOf(c)') + Cardinality(PendingOf(c)') <= MaxSessions[c]
    BY CountFewer, CountTypes DEF WithinAll
  <1> QED
    BY <1>1, <1>2 DEF WithinAll

\* A worker is a listener or a publisher for life.
LEMMA PublishStable ==
    ASSUME TypeOK, [Next]_vars
    PROVE  Publish' <=> Publish
  <1>1. CASE UNCHANGED accept
    BY <1>1 DEF Publish
  <1>2. CASE ~UNCHANGED accept
    <2>1. (\E k \in Keys : Accept(k)) \/ AcceptStep \/ AcceptFails
      BY <1>2 DEF Next, vars, AuthorizeAgain, Authorize, ExpireAttempt, HangUp, SendFails, SlowClient,
                  CloseStep, CloseDeletes, CloseTells, SenderReturns, Recycle, Stop, RunStep,
                  Snapshot, CloseOne, ClosedOne, ClearPending, Finish
    <2>2. accept.step \in {"wait", "register", "announce"}
      BY <2>1 DEF Accept, AcceptStep, AcceptRefused, Register, Announce, AcceptFails
    <2>3. accept'.step # "none"
      <3>1. CASE Register
        BY <3>1 DEF Register, TypeOK
      <3>2. CASE (\E k \in Keys : Accept(k)) \/ AcceptRefused \/ Announce \/ AcceptFails
        BY <3>2 DEF Accept, AcceptRefused, Announce, AcceptFails, Idle
      <3> QED
        BY <2>1, <3>1, <3>2 DEF AcceptStep
    <2> QED
      BY <2>2, <2>3 DEF Publish
  <1> QED
    BY <1>1, <1>2

\* README.md:182: the sessions and the authorized handshakes of a client, and
\* of the relay, never exceed their limits together (worker.go: authorize and
\* acceptLoop), for any number of callers, clients and session objects.
THEOREM LimitsAreKept == Spec => []LimitsHold
  <1> DEFINE Inv == IndInv /\ LimitsHold
  <1>1. Init => Inv
    <2> SUFFICES ASSUME Init PROVE LimitsHold
      BY TypeInit, LifeInit DEF IndInv
    <2> SUFFICES ASSUME ~Publish PROVE WithinAll
      BY DEF LimitsHold, WithinAll
    <2>1. pending = {} /\ sessions = {}
      BY DEF Init, Publish, Idle
    <2>2. \A c : SessionsOf(c) = {} /\ PendingOf(c) = {}
      BY <2>1 DEF SessionsOf, PendingOf
    <2>3. Cardinality({}) = 0
      BY FS_EmptySet
    <2> QED
      BY <2>1, <2>2, <2>3, MaxSessionsAssumption, BoundsAssumption DEF WithinAll
  <1>2. Inv /\ [Next]_vars => Inv'
    <2> SUFFICES ASSUME Inv, [Next]_vars PROVE Inv'
      OBVIOUS
    <2>1. IndInv' /\ TypeOK /\ SessionLife
      BY IndStep DEF IndInv
    <2>2. LimitsHold'
      <3> SUFFICES ASSUME ~Publish' PROVE WithinAll'
        BY DEF LimitsHold, WithinAll
      <3>1. WithinAll
        BY <2>1, PublishStable DEF LimitsHold, WithinAll
      <3>2. CASE (\E k \in Keys : Authorize(k)) \/ Register
        BY <3>1, <3>2, LimitsAuthorize, LimitsRegister
      <3>3. CASE ~(\E k \in Keys : Authorize(k)) /\ ~Register
        BY <2>1, <3>1, <3>3, OthersShrink, LimitsShrink
      <3> QED
        BY <3>2, <3>3
    <2> QED
      BY <2>1, <2>2
  <1>3. Inv => LimitsHold
    OBVIOUS
  <1> QED
    BY <1>1, <1>2, <1>3, PTL DEF Spec
=============================================================================

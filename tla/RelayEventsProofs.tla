-------------------------- MODULE RelayEventsProofs --------------------------
(***************************************************************************)
(* Proofs about RelayEvents, for any number of addresses and sessions, any *)
(* capacity of the channel and any limits.  Once nothing is on its way,    *)
(* the store shows the worker's sessions: the argument follows the two     *)
(* lifecycle events of each session from the worker to the store.  And the *)
(* attempt limiter bounds what an address is allowed and refuses nobody    *)
(* without cause: the argument balances its windows with what was allowed. *)
(* The backlog of emit, the limiter's table and the store's list of        *)
(* sessions keep to their bounds.                                          *)
(***************************************************************************)
EXTENDS RelayEvents, FiniteSetTheorems, TLAPS

-----------------------------------------------------------------------------
(* The inductive invariant of the sessions *)

SessionTypes == {"session_connected", "session_disconnected"}

\* Sessions are named in the events about them.
Named(q) == \A i \in 1 .. Len(q) : q[i].type \in SessionTypes => q[i].session \in Sessions

\* The queue q holds an event of this type about s.
Matches(e, type, s) == e.type = type /\ e.session = s
Holds(q, type, s) == \E i \in 1 .. Len(q) : Matches(q[i], type, s)
Once(q, type, s) ==
    \A i, j \in 1 .. Len(q) : Matches(q[i], type, s) /\ Matches(q[j], type, s) => i = j

Opens(s) == Holds(events, "session_connected", s)
Ends(s) == Holds(events, "session_disconnected", s)

\* A handshake is admitted once, and is pending until it becomes a session or expires.
Shaken(p, a, u) == a \subseteq Sessions /\ p \subseteq a /\ u \subseteq a /\ p \cap u = {}

\* The queue and the store's sessions.
Shape ==
    /\ alive \in BOOLEAN /\ settled \in BOOLEAN
    /\ events \in Seq(Event) /\ Named(events)
    /\ stored \in [Sessions -> {"none", "active", "ended"}]
    /\ Shaken(pending, admitted, used)
    /\ sessions \subseteq used /\ closing \subseteq used
    /\ sessions \cap closing = {}
    /\ accepting \in used \cup {NoSession}
    /\ over \subseteq Sessions /\ stale \subseteq over

\* The worker has told, or is about to tell, that s is over.
Told(s) == s \in used \ (sessions \cup closing)

\* The events of s while the worker runs: each is emitted once, the store has
\* read what the queue no longer holds, and s is stale when it read
\* session_connected last.
Tracked(s) ==
    /\ Once(events, "session_connected", s) /\ Once(events, "session_disconnected", s)
    /\ Opens(s) => s \in used /\ accepting # s
    /\ Ends(s) => Told(s)
    /\ s \in over <=> Told(s) /\ ~Ends(s)
    /\ s \notin used \/ Opens(s) \/ accepting = s => stored[s] # "active" /\ s \notin stale
    /\ s \in used /\ ~Opens(s) /\ accepting # s =>
          (stored[s] = "active" <=> s \notin over \/ s \in stale)

\* The worker is gone, its end is written: only stale sessions are active.
Written ==
    /\ over = Sessions
    /\ \A s \in Sessions : stored[s] = "active" <=> s \in stale

IndInv ==
    /\ Shape
    /\ ~alive => pending = {} /\ sessions = {} /\ accepting = NoSession /\ closing = {}
    /\ alive => ~settled /\ \A s \in Sessions : Tracked(s)
    /\ settled => Written

-----------------------------------------------------------------------------
(* The queue *)

\* An event is added at the end.
LEMMA AppendFacts ==
    ASSUME NEW q \in Seq(Event), NEW e \in Event, NEW type, NEW s
    PROVE  /\ Append(q, e) \in Seq(Event)
           /\ Holds(Append(q, e), type, s) <=> Holds(q, type, s) \/ Matches(e, type, s)
           /\ Once(q, type, s) /\ ~(Holds(q, type, s) /\ Matches(e, type, s))
                => Once(Append(q, e), type, s)
  <1> DEFINE r == Append(q, e)
  <1>1. /\ r \in Seq(Event) /\ Len(r) = Len(q) + 1 /\ Len(q) \in Nat
        /\ r[Len(q) + 1] = e /\ \A i \in 1 .. Len(q) : r[i] = q[i]
    OBVIOUS
  <1> HIDE DEF r
  <1>2. Holds(r, type, s) <=> Holds(q, type, s) \/ Matches(e, type, s)
    <2>1. ASSUME Holds(r, type, s) PROVE Holds(q, type, s) \/ Matches(e, type, s)
      <3>1. PICK i \in 1 .. Len(r) : Matches(r[i], type, s)
        BY <2>1 DEF Holds
      <3>2. i \in 1 .. Len(q) \/ i = Len(q) + 1
        BY <1>1
      <3> QED
        BY <1>1, <3>1, <3>2 DEF Holds
    <2>2. ASSUME Holds(q, type, s) PROVE Holds(r, type, s)
      <3>1. PICK i \in 1 .. Len(q) : Matches(q[i], type, s)
        BY <2>2 DEF Holds
      <3>2. i \in 1 .. Len(r) /\ r[i] = q[i]
        BY <1>1
      <3> QED
        BY <3>1, <3>2 DEF Holds
    <2>3. ASSUME Matches(e, type, s) PROVE Holds(r, type, s)
      <3>1. Len(q) + 1 \in 1 .. Len(r) /\ r[Len(q) + 1] = e
        BY <1>1
      <3> QED
        BY <2>3, <3>1 DEF Holds
    <2> QED
      BY <2>1, <2>2, <2>3
  <1>3. ASSUME Once(q, type, s), ~(Holds(q, type, s) /\ Matches(e, type, s))
        PROVE  Once(r, type, s)
    <2> SUFFICES ASSUME NEW i \in 1 .. Len(r), NEW j \in 1 .. Len(r),
                        Matches(r[i], type, s), Matches(r[j], type, s)
                 PROVE  i = j
      BY DEF Once
    <2>1. CASE i \in 1 .. Len(q) /\ j \in 1 .. Len(q)
      BY <1>1, <1>3, <2>1 DEF Once
    <2>2. CASE i = Len(q) + 1 /\ j \in 1 .. Len(q)
      BY <1>1, <1>3, <2>2 DEF Holds
    <2>3. CASE j = Len(q) + 1 /\ i \in 1 .. Len(q)
      BY <1>1, <1>3, <2>3 DEF Holds
    <2> QED
      BY <1>1, <2>1, <2>2, <2>3
  <1> QED
    BY <1>1, <1>2, <1>3 DEF r

\* The first event is taken.
LEMMA TailFacts ==
    ASSUME NEW q \in Seq(Event), q # << >>, NEW type, NEW s
    PROVE  /\ Tail(q) \in Seq(Event) /\ Head(q) \in Event
           /\ Holds(q, type, s) <=> Matches(Head(q), type, s) \/ Holds(Tail(q), type, s)
           /\ Once(q, type, s) => /\ Once(Tail(q), type, s)
                                  /\ ~(Matches(Head(q), type, s) /\ Holds(Tail(q), type, s))
  <1> DEFINE r == Tail(q)
             h == Head(q)
  <1>1. /\ r \in Seq(Event) /\ Len(q) \in Nat \ {0} /\ Len(r) = Len(q) - 1
        /\ h = q[1] /\ h \in Event /\ \A i \in 1 .. Len(r) : r[i] = q[i + 1]
    OBVIOUS
  <1> HIDE DEF r, h
  <1>2. ASSUME NEW i \in 1 .. Len(r)
        PROVE  i + 1 \in 1 .. Len(q) /\ i + 1 # 1
    BY <1>1
  <1>3. Holds(q, type, s) <=> Matches(h, type, s) \/ Holds(r, type, s)
    <2>1. ASSUME Holds(q, type, s) PROVE Matches(h, type, s) \/ Holds(r, type, s)
      <3>1. PICK i \in 1 .. Len(q) : Matches(q[i], type, s)
        BY <2>1 DEF Holds
      <3>2. CASE i = 1
        BY <1>1, <3>1, <3>2
      <3>3. CASE i # 1
        <4>1. i - 1 \in 1 .. Len(r) /\ (i - 1) + 1 = i
          BY <1>1, <3>3
        <4>2. r[i - 1] = q[i]
          BY <1>1, <4>1
        <4> QED
          BY <3>1, <4>1, <4>2 DEF Holds
      <3> QED
        BY <3>2, <3>3
    <2>2. ASSUME Matches(h, type, s) PROVE Holds(q, type, s)
      <3>1. 1 \in 1 .. Len(q)
        BY <1>1
      <3> QED
        BY <1>1, <2>2, <3>1 DEF Holds
    <2>3. ASSUME Holds(r, type, s) PROVE Holds(q, type, s)
      BY <1>1, <1>2, <2>3 DEF Holds
    <2> QED
      BY <2>1, <2>2, <2>3
  <1>4. ASSUME Once(q, type, s)
        PROVE  Once(r, type, s)
    <2> SUFFICES ASSUME NEW i \in 1 .. Len(r), NEW j \in 1 .. Len(r),
                        Matches(r[i], type, s), Matches(r[j], type, s)
                 PROVE  i = j
      BY DEF Once
    <2>1. i + 1 = j + 1
      BY <1>1, <1>2, <1>4 DEF Once
    <2> QED
      BY <2>1
  <1>5. ASSUME Once(q, type, s), Matches(h, type, s), Holds(r, type, s)
        PROVE  FALSE
    <2>1. PICK i \in 1 .. Len(r) : Matches(r[i], type, s)
      BY <1>5 DEF Holds
    <2>2. 1 \in 1 .. Len(q) /\ Matches(q[1], type, s) /\ Matches(q[i + 1], type, s)
      BY <1>1, <1>5, <2>1
    <2>3. 1 = i + 1
      BY <1>2, <1>5, <2>2 DEF Once
    <2> QED
      BY <1>2, <2>3
  <1> QED
    BY <1>1, <1>3, <1>4, <1>5 DEF r, h

\* Sessions stay named.
LEMMA NamedFacts ==
    ASSUME NEW q \in Seq(Event), Named(q)
    PROVE  /\ \A e \in Event : (e.type \in SessionTypes => e.session \in Sessions) => Named(Append(q, e))
           /\ q # << >> => Named(Tail(q)) /\ (Head(q).type \in SessionTypes => Head(q).session \in Sessions)
           /\ \A n \in 0 .. Len(q) : SubSeq(q, 1, n) \in Seq(Event) /\ Named(SubSeq(q, 1, n))
  <1>1. ASSUME NEW e \in Event, e.type \in SessionTypes => e.session \in Sessions
        PROVE  Named(Append(q, e))
    <2>1. /\ Len(Append(q, e)) = Len(q) + 1 /\ Len(q) \in Nat /\ Append(q, e)[Len(q) + 1] = e
          /\ \A i \in 1 .. Len(q) : Append(q, e)[i] = q[i]
      OBVIOUS
    <2> SUFFICES ASSUME NEW i \in 1 .. Len(Append(q, e)), Append(q, e)[i].type \in SessionTypes
                 PROVE  Append(q, e)[i].session \in Sessions
      BY DEF Named
    <2>2. i \in 1 .. Len(q) \/ i = Len(q) + 1
      BY <2>1
    <2> QED
      BY <1>1, <2>1, <2>2 DEF Named
  <1>2. ASSUME q # << >>
        PROVE  Named(Tail(q)) /\ (Head(q).type \in SessionTypes => Head(q).session \in Sessions)
    <2>1. /\ Len(q) \in Nat \ {0} /\ Len(Tail(q)) = Len(q) - 1 /\ Head(q) = q[1]
          /\ \A i \in 1 .. Len(Tail(q)) : Tail(q)[i] = q[i + 1]
      BY <1>2
    <2>2. 1 \in 1 .. Len(q) /\ \A i \in 1 .. Len(Tail(q)) : i + 1 \in 1 .. Len(q)
      BY <2>1
    <2> QED
      BY <2>1, <2>2 DEF Named
  <1>3. ASSUME NEW n \in 0 .. Len(q)
        PROVE  SubSeq(q, 1, n) \in Seq(Event) /\ Named(SubSeq(q, 1, n))
    <2>1. /\ SubSeq(q, 1, n) \in Seq(Event) /\ Len(SubSeq(q, 1, n)) = n
          /\ \A i \in 1 .. n : SubSeq(q, 1, n)[i] = q[i] /\ i \in 1 .. Len(q)
      OBVIOUS
    <2> QED
      BY <2>1 DEF Named
  <1> QED
    BY <1>1, <1>2, <1>3

\* An event that is not about a session changes nothing that is tracked, added
\* or dropped.
SameSessions(q, r) ==
    /\ r \in Seq(Event) /\ Named(r)
    /\ \A s \in Sessions, type \in SessionTypes :
          /\ Holds(r, type, s) <=> Holds(q, type, s)
          /\ Once(q, type, s) => Once(r, type, s)

LEMMA EmitOther ==
    ASSUME NEW q \in Seq(Event), Named(q), NEW e \in Event, e.type \notin SessionTypes
    PROVE  SameSessions(q, emit(q, e))
  <1>1. emit(q, e) = q \/ emit(q, e) = Append(q, e)
    BY DEF emit
  <1>2. ASSUME NEW s \in Sessions, NEW type \in SessionTypes
        PROVE  /\ Holds(Append(q, e), type, s) <=> Holds(q, type, s)
               /\ Once(q, type, s) => Once(Append(q, e), type, s)
    <2>1. ~Matches(e, type, s)
      BY DEF Matches
    <2> QED
      BY <2>1, AppendFacts
  <1>3. Append(q, e) \in Seq(Event)
    OBVIOUS
  <1>4. Named(Append(q, e))
    BY NamedFacts
  <1> QED
    BY <1>1, <1>2, <1>3, <1>4 DEF SameSessions

\* A lifecycle event is always added.
LEMMA EmitLifecycle ==
    ASSUME NEW q, NEW e, e.type \in Lifecycle
    PROVE  emit(q, e) = Append(q, e)
  BY DEF emit

\* What pruneSessions keeps: the active sessions.
LEMMA PruneFacts ==
    ASSUME NEW map \in [Sessions -> {"none", "active", "ended"}], NEW new \in pruneSessions(map)
    PROVE  /\ new \in [Sessions -> {"none", "active", "ended"}]
           /\ \A s \in Sessions : new[s] = "active" <=> map[s] = "active"
  <1>1. PICK gone \in SUBSET {s \in Sessions : map[s] = "ended"} :
           new = [s \in Sessions |-> IF s \in gone THEN "none" ELSE map[s]]
    BY DEF pruneSessions
  <1> QED
    BY <1>1

-----------------------------------------------------------------------------
(* The inductive invariant holds *)

LEMMA InitInd == Init => IndInv
  <1> SUFFICES ASSUME Init PROVE IndInv
    OBVIOUS
  <1>1. events \in Seq(Event) /\ Len(events) = 0
    BY DEF Init
  <1>2. Named(events) /\ \A s, type : ~Holds(events, type, s) /\ Once(events, type, s)
    BY <1>1 DEF Named, Holds, Once
  <1>3. Shape
    BY <1>1, <1>2 DEF Init, Shape, Shaken
  <1>4. \A s \in Sessions : Tracked(s)
    BY <1>2 DEF Init, Tracked, Told, Opens, Ends
  <1> QED
    BY <1>3, <1>4 DEF Init, IndInv

\* A step of the worker's loops and of the limiter.
LEMMA OtherEvent ==
    ASSUME IndInv, SameSessions(events, events'), Shaken(pending', admitted', used),
           ~alive => pending' = {},
           UNCHANGED <<alive, used, sessions, accepting, closing, stored, settled, over, stale>>
    PROVE  IndInv'
  <1>1. Shape'
    BY DEF IndInv, Shape, SameSessions
  <1>2. ASSUME alive, NEW s \in Sessions
        PROVE  Tracked(s)'
    <2>1. (Opens(s)' <=> Opens(s)) /\ (Ends(s)' <=> Ends(s))
      BY DEF SameSessions, SessionTypes, Opens, Ends
    <2>2. Tracked(s)
      BY <1>2 DEF IndInv
    <2>3. Once(events', "session_connected", s) /\ Once(events', "session_disconnected", s)
      BY <2>2 DEF Tracked, SameSessions, SessionTypes
    <2> QED
      BY <2>1, <2>2, <2>3 DEF Tracked, Told
  <1> QED
    BY <1>1, <1>2 DEF IndInv, Written

LEMMA LoopStep ==
    ASSUME IndInv,
           \/ \E ip \in Ips : Attempt(ip) \/ Refuse(ip)
           \/ \E s \in Sessions : SessionStats(s) \/ ExpireAttempt(s)
           \/ AcceptRefused \/ Ready \/ Packet \/ Second \/ RelayMetrics
    PROVE  IndInv'
  <1>0. events \in Seq(Event) /\ Named(events)
    BY DEF IndInv, Shape
  <1>1. UNCHANGED <<alive, used, sessions, accepting, closing, stored, settled, over, stale>>
    BY DEF Attempt, Refuse, SessionStats, ExpireAttempt, AcceptRefused, Ready, Packet, Second,
           RelayMetrics, worker, daemon
  <1>11. Shaken(pending', admitted', used) /\ (~alive => pending' = {})
    <2>1. Shaken(pending, admitted, used) /\ (~alive => pending = {}) /\ used \subseteq Sessions
      BY DEF IndInv, Shape, Shaken
    <2>2. CASE UNCHANGED <<pending, admitted>>
      BY <2>1, <2>2
    <2>3. ASSUME NEW s \in Sessions, ExpireAttempt(s)
          PROVE  Shaken(pending', admitted', used) /\ (~alive => pending' = {})
      BY <2>1, <2>3 DEF ExpireAttempt, Shaken
    <2>4. ASSUME NEW ip \in Ips, Attempt(ip)
          PROVE  Shaken(pending', admitted', used) /\ (~alive => pending' = {})
      <3>1. alive
        BY <2>4 DEF Attempt
      <3>2. \/ UNCHANGED <<pending, admitted>>
            \/ \E h \in Sessions \ admitted : pending' = pending \cup {h} /\ admitted' = admitted \cup {h}
        BY <2>4 DEF Attempt, handshakes
      <3> QED
        BY <2>1, <3>1, <3>2 DEF Shaken
    <2> QED
      BY <2>2, <2>3, <2>4 DEF Refuse, SessionStats, AcceptRefused, Ready, Packet, Second, RelayMetrics,
                              handshakes
  <1>2. SameSessions(events, events)
    BY <1>0 DEF SameSessions
  <1>3. ASSUME NEW type \in {"connection_rejected", "connection_attempt", "relay_ready"},
               NEW by \in {"callback", "acceptor", "run"}
        PROVE  Note(type, by) \in Event /\ Note(type, by).type \notin SessionTypes
    BY DEF Note, Of, Event, Lifecycle, SessionTypes
  <1>4. ASSUME NEW ip \in Ips, Attempt(ip)
        PROVE  SameSessions(events, events')
    <2> DEFINE q == emit(events, Note("connection_attempt", "callback"))
    <2>1. SameSessions(events, q)
      BY <1>0, <1>3, EmitOther
    <2>2. SameSessions(q, emit(q, Note("connection_rejected", "callback")))
      BY <1>3, <2>1, EmitOther DEF SameSessions
    <2>3. events' \in {q, emit(q, Note("connection_rejected", "callback"))}
      BY <1>4 DEF Attempt
    <2> HIDE DEF q
    <2> QED
      BY <2>1, <2>2, <2>3 DEF SameSessions
  <1>5. ASSUME NEW ip \in Ips, Refuse(ip)
        PROVE  SameSessions(events, events')
    <2>1. events' = emit(events, Note("connection_rejected", "callback")) \/ events' = events
      BY <1>5 DEF Refuse
    <2> QED
      BY <1>0, <1>2, <1>3, <2>1, EmitOther
  <1>6. ASSUME NEW s \in Sessions, SessionStats(s)
        PROVE  SameSessions(events, events')
    <2> DEFINE e == Of("session_stats", s, FALSE, "metrics")
    <2>1. e \in Event /\ e.type \notin SessionTypes
      BY DEF Of, Event, Lifecycle, SessionTypes
    <2>2. events' = emit(events, e) \/ events' = events
      BY <1>6 DEF SessionStats
    <2> HIDE DEF e
    <2> QED
      BY <1>0, <1>2, <2>1, <2>2, EmitOther
  <1>12. ASSUME NEW s \in Sessions, ExpireAttempt(s)
         PROVE  SameSessions(events, events')
    <2> DEFINE e == Of("connection_rejected", NoSession, FALSE, s)
    <2>1. e \in Event /\ e.type \notin SessionTypes
      BY DEF Of, Event, Lifecycle, SessionTypes
    <2>2. events' = emit(events, e)
      BY <1>12 DEF ExpireAttempt
    <2> HIDE DEF e
    <2> QED
      BY <1>0, <2>1, <2>2, EmitOther
  <1>7. CASE AcceptRefused
    BY <1>0, <1>1, <1>3, <1>7, <1>11, EmitOther, OtherEvent DEF AcceptRefused
  <1>8. CASE Ready
    BY <1>0, <1>1, <1>3, <1>8, <1>11, EmitOther, OtherEvent DEF Ready
  <1>9. CASE Packet \/ Second
    <2>1. events' = events
      BY <1>9 DEF Packet, Second
    <2> QED
      BY <1>1, <1>2, <1>11, <2>1, OtherEvent
  <1>10. CASE RelayMetrics
    <2> DEFINE b == inputStallReason
               e == Of("relay_metrics", NoSession, b, "metrics")
    <2>1. e \in Event /\ e.type \notin SessionTypes
      BY DEF Of, Event, Lifecycle, SessionTypes, inputStallReason
    <2>2. events' = emit(events, e)
      BY <1>10 DEF RelayMetrics
    <2> HIDE DEF e
    <2> QED
      BY <1>0, <1>1, <2>1, <2>2, <1>11, EmitOther, OtherEvent
  <1> QED
    BY <1>1, <1>4, <1>5, <1>6, <1>7, <1>8, <1>9, <1>10, <1>11, <1>12, OtherEvent

\* An event about one session says nothing of the others.
LEMMA OtherSession ==
    ASSUME NEW x \in Sessions, Tracked(x),
           \A type \in SessionTypes :
              /\ Holds(events', type, x) <=> Holds(events, type, x)
              /\ Once(events, type, x) => Once(events', type, x),
           x \in used <=> x \in used', x \in sessions <=> x \in sessions',
           x \in closing <=> x \in closing', accepting = x <=> accepting' = x,
           x \in over <=> x \in over', x \in stale <=> x \in stale',
           stored[x] = "active" <=> stored'[x] = "active"
    PROVE  Tracked(x)'
  <1>1. (Opens(x)' <=> Opens(x)) /\ (Ends(x)' <=> Ends(x))
    BY DEF SessionTypes, Opens, Ends
  <1>2. Once(events', "session_connected", x) /\ Once(events', "session_disconnected", x)
    BY DEF Tracked, SessionTypes
  <1>3. Told(x)' <=> Told(x)
    BY DEF Told
  <1> QED
    BY <1>1, <1>2, <1>3 DEF Tracked

\* The accept loop and close: a session's events are emitted once, each.
LEMMA SessionStep ==
    ASSUME IndInv,
           \/ Announce
           \/ \E s \in Sessions : Register(s) \/ CloseDeletes(s) \/ CloseTells(s)
    PROVE  IndInv'
  <1>0. Shape
    BY DEF IndInv
  <1>1. alive /\ ~settled /\ UNCHANGED <<alive, settled, stored, over, stale>>
    <2>1. alive
      BY DEF IndInv, Announce, Register, CloseDeletes, CloseTells
    <2>2. UNCHANGED <<alive, settled, stored, over, stale>>
      BY DEF Announce, Register, CloseDeletes, CloseTells, daemon
    <2> QED
      BY <2>1, <2>2 DEF IndInv
  <1>2. \A x \in Sessions : Tracked(x)
    BY <1>1 DEF IndInv
  <1>3. SUFFICES Shape' /\ \A x \in Sessions : Tracked(x)'
    BY <1>1 DEF IndInv
  <1>4. ASSUME NEW s \in Sessions, Register(s)
        PROVE  Shape' /\ \A x \in Sessions : Tracked(x)'
    <2>1. /\ s \notin used /\ used' = used \cup {s} /\ sessions' = sessions \cup {s}
          /\ accepting = NoSession /\ accepting' = s /\ UNCHANGED <<closing, events, admitted>>
          /\ s \in pending /\ pending' = pending \ {s}
      BY <1>0, <1>4 DEF Register, Shape, Shaken
    <2>2. Shape'
      <3>1. Shaken(pending', admitted', used')
        BY <1>0, <2>1 DEF Shape, Shaken
      <3>2. sessions' \cap closing' = {}
        BY <1>0, <2>1 DEF Shape
      <3> QED
        BY <1>0, <1>1, <2>1, <3>1, <3>2 DEF Shape
    <2>3. ASSUME NEW x \in Sessions, x # s
          PROVE  Tracked(x)'
      <3>1. accepting # x
        BY <2>1, RelayEventsConstants
      <3> QED
        BY <1>1, <1>2, <2>1, <2>3, <3>1, OtherSession
    <2>4. Tracked(s)'
      <3>1. ~Opens(s) /\ ~Ends(s) /\ s \notin over /\ stored[s] # "active" /\ s \notin stale
        BY <1>2, <2>1 DEF Tracked, Told
      <3>2. ~Opens(s)' /\ ~Ends(s)' /\ ~Told(s)'
        BY <2>1, <3>1 DEF Opens, Ends, Told
      <3> QED
        BY <1>1, <1>2, <2>1, <3>1, <3>2 DEF Tracked
    <2> QED
      BY <2>2, <2>3, <2>4
  <1>5. ASSUME NEW s \in Sessions, CloseDeletes(s)
        PROVE  Shape' /\ \A x \in Sessions : Tracked(x)'
    <2>1. /\ s \in sessions /\ sessions' = sessions \ {s} /\ closing' = closing \cup {s}
          /\ UNCHANGED <<used, accepting, events, pending, admitted>>
      BY <1>5 DEF CloseDeletes, handshakes
    <2>2. Shape'
      BY <1>0, <1>1, <2>1 DEF Shape
    <2>3. ASSUME NEW x \in Sessions
          PROVE  Tracked(x)'
      <3>1. Told(x)' <=> Told(x)
        BY <2>1 DEF Told
      <3>2. (Opens(x)' <=> Opens(x)) /\ (Ends(x)' <=> Ends(x))
        BY <2>1 DEF Opens, Ends
      <3> QED
        BY <1>1, <1>2, <2>1, <3>1, <3>2 DEF Tracked
    <2> QED
      BY <2>2, <2>3
  <1>6. CASE Announce
    <2>0. PICK s \in Sessions : s = accepting
      BY <1>0, <1>6 DEF Announce, Shape, Shaken
    <2> DEFINE e == Of("session_connected", s, FALSE, "acceptor")
    <2>1. s \in Sessions /\ s \in used /\ s # NoSession
      BY <1>0, <1>6, <2>0 DEF Announce, Shape
    <2>2. e \in Event /\ e.type = "session_connected" /\ e.session = s
      BY <2>1 DEF Of, Event, Lifecycle
    <2>3. events' = emit(events, e) /\ accepting' = NoSession /\ UNCHANGED <<used, sessions, closing, pending, admitted>>
      BY <1>6, <2>0 DEF Announce, handshakes
    <2> HIDE DEF e
    <2>4. events' = Append(events, e)
      BY <2>2, <2>3, EmitLifecycle DEF Lifecycle
    <2>5. Shape'
      <3>1. Named(Append(events, e)) /\ Append(events, e) \in Seq(Event)
        BY <1>0, <2>1, <2>2, NamedFacts DEF Shape
      <3> QED
        BY <1>0, <1>1, <2>3, <2>4, <3>1 DEF Shape
    <2>6. ASSUME NEW x \in Sessions, NEW type \in SessionTypes
          PROVE  /\ Holds(events', type, x) <=> Holds(events, type, x) \/ Matches(e, type, x)
                 /\ Once(events, type, x) /\ ~(Holds(events, type, x) /\ Matches(e, type, x))
                      => Once(events', type, x)
      BY <1>0, <2>2, <2>4, AppendFacts DEF Shape
    <2>7. ASSUME NEW x \in Sessions, x # s
          PROVE  Tracked(x)'
      <3>1. \A type \in SessionTypes : ~Matches(e, type, x)
        BY <2>2, <2>7 DEF Matches
      <3>2. accepting # x /\ accepting' # x
        BY <2>0, <2>3, <2>7, RelayEventsConstants
      <3> QED
        BY <1>1, <1>2, <2>3, <2>6, <3>1, <3>2, OtherSession
    <2>8. Tracked(s)'
      <3>1. Matches(e, "session_connected", s) /\ ~Matches(e, "session_disconnected", s)
        BY <2>2 DEF Matches
      <3>2. ~Opens(s) /\ stored[s] # "active" /\ s \notin stale
        BY <1>2, <2>0 DEF Tracked
      <3>3. Opens(s)' /\ (Ends(s)' <=> Ends(s))
        BY <2>6, <3>1 DEF SessionTypes, Opens, Ends
      <3>4. Once(events', "session_connected", s) /\ Once(events', "session_disconnected", s)
        BY <1>2, <2>6, <3>1, <3>2 DEF SessionTypes, Tracked, Opens
      <3>5. s # accepting' /\ (Told(s)' <=> Told(s))
        BY <2>1, <2>3 DEF Told
      <3> QED
        BY <1>1, <1>2, <2>1, <2>3, <3>2, <3>3, <3>4, <3>5 DEF Tracked
    <2> QED
      BY <2>5, <2>7, <2>8
  <1>7. ASSUME NEW s \in Sessions, CloseTells(s)
        PROVE  Shape' /\ \A x \in Sessions : Tracked(x)'
    <2> DEFINE e == Of("session_disconnected", s, FALSE, s)
    <2>1. e \in Event /\ e.type = "session_disconnected" /\ e.session = s
      BY DEF Of, Event, Lifecycle
    <2>2. /\ s \in closing /\ closing' = closing \ {s} /\ events' = emit(events, e)
          /\ UNCHANGED <<used, sessions, accepting, pending, admitted>>
      BY <1>7 DEF CloseTells, handshakes
    <2> HIDE DEF e
    <2>3. events' = Append(events, e)
      BY <2>1, <2>2, EmitLifecycle DEF Lifecycle
    <2>4. Shape'
      <3>1. Named(Append(events, e)) /\ Append(events, e) \in Seq(Event)
        BY <1>0, <2>1, NamedFacts DEF Shape
      <3> QED
        BY <1>0, <1>1, <2>2, <2>3, <3>1 DEF Shape
    <2>5. ASSUME NEW x \in Sessions, NEW type \in SessionTypes
          PROVE  /\ Holds(events', type, x) <=> Holds(events, type, x) \/ Matches(e, type, x)
                 /\ Once(events, type, x) /\ ~(Holds(events, type, x) /\ Matches(e, type, x))
                      => Once(events', type, x)
      BY <1>0, <2>1, <2>3, AppendFacts DEF Shape
    <2>6. ASSUME NEW x \in Sessions, x # s
          PROVE  Tracked(x)'
      <3>1. \A type \in SessionTypes : ~Matches(e, type, x)
        BY <2>1, <2>6 DEF Matches
      <3> QED
        BY <1>1, <1>2, <2>2, <2>5, <2>6, <3>1, OtherSession
    <2>7. Tracked(s)'
      <3>1. Matches(e, "session_disconnected", s) /\ ~Matches(e, "session_connected", s)
        BY <2>1 DEF Matches
      <3>2. s \in used /\ s \notin sessions /\ ~Told(s)
        BY <1>0, <2>2 DEF Shape, Told
      <3>3. ~Ends(s) /\ s \notin over
        BY <1>2, <3>2 DEF Tracked
      <3>4. Ends(s)' /\ (Opens(s)' <=> Opens(s))
        BY <2>5, <3>1 DEF SessionTypes, Opens, Ends
      <3>5. Once(events', "session_connected", s) /\ Once(events', "session_disconnected", s)
        BY <1>2, <2>5, <3>1, <3>3 DEF SessionTypes, Tracked, Ends
      <3>6. Told(s)'
        BY <2>2, <3>2 DEF Told
      <3> QED
        BY <1>1, <1>2, <2>2, <3>2, <3>3, <3>4, <3>5, <3>6 DEF Tracked
    <2> QED
      BY <2>4, <2>6, <2>7
  <1> QED
    BY <1>4, <1>5, <1>6, <1>7

\* The daemon reads an event.
LEMMA ReadStep ==
    ASSUME IndInv, readEvents
    PROVE  IndInv'
  <1> DEFINE e == Head(events)
  <1>0. Shape
    BY DEF IndInv
  <1>1. /\ events \in Seq(Event) /\ Named(events) /\ events # << >> /\ events' = Tail(events)
        /\ UNCHANGED <<alive, used, sessions, accepting, closing, settled, pending, admitted>>
    BY <1>0 DEF readEvents, Shape, worker, handshakes
  <1>2. ASSUME NEW x \in Sessions, NEW type \in SessionTypes
        PROVE  /\ Holds(events, type, x) <=> Matches(e, type, x) \/ Holds(events', type, x)
               /\ Once(events, type, x) => /\ Once(events', type, x)
                                           /\ ~(Matches(e, type, x) /\ Holds(events', type, x))
    BY <1>1, TailFacts
  <1>3. /\ events' \in Seq(Event) /\ Named(events')
        /\ e.type \in SessionTypes => e.session \in Sessions
    <2>1. Tail(events) \in Seq(Event)
      BY <1>1
    <2> QED
      BY <1>1, <2>1, NamedFacts
  <1>4. ApplyWorkerEvent(e)
    BY DEF readEvents
  <1> HIDE DEF e
  <1>5. CASE e.type = "session_connected"
    <2> DEFINE s == e.session
    <2>1. s \in Sessions
      BY <1>3, <1>5 DEF SessionTypes
    <2>2. /\ stored' = [stored EXCEPT ![s] = "active"]
          /\ stale' = IF s \in over THEN stale \cup {s} ELSE stale
          /\ UNCHANGED over
      BY <1>4, <1>5 DEF ApplyWorkerEvent, Connected
    <2> HIDE DEF s
    <2>3. /\ stored' \in [Sessions -> {"none", "active", "ended"}] /\ stored'[s] = "active"
          /\ \A x \in Sessions \ {s} : stored'[x] = stored[x]
      BY <1>0, <2>1, <2>2 DEF Shape
    <2>4. Shape'
      BY <1>0, <1>1, <1>3, <2>2, <2>3 DEF Shape
    <2>5. settled => Written'
      BY <2>1, <2>2, <2>3 DEF IndInv, Written
    <2>6. ASSUME alive, NEW x \in Sessions
          PROVE  Tracked(x)'
      <3>0. Tracked(x)
        BY <2>6 DEF IndInv
      <3>1. CASE x # s
        <4>1. \A type \in SessionTypes : ~Matches(e, type, x)
          BY <3>1 DEF Matches, s
        <4>2. \A type \in SessionTypes :
                 /\ Holds(events', type, x) <=> Holds(events, type, x)
                 /\ Once(events, type, x) => Once(events', type, x)
          BY <1>2, <4>1
        <4>3. (x \in stale <=> x \in stale') /\ (stored[x] = "active" <=> stored'[x] = "active")
          BY <2>2, <2>3, <3>1
        <4> QED
          BY <1>1, <2>2, <3>0, <4>2, <4>3, OtherSession
      <3>2. CASE x = s
        <4>1. Matches(e, "session_connected", x) /\ ~Matches(e, "session_disconnected", x)
          BY <1>5, <3>2 DEF Matches, s
        <4>2. Once(events', "session_connected", x) /\ Once(events', "session_disconnected", x)
          BY <1>2, <3>0 DEF Tracked, SessionTypes
        <4>3. Opens(x) /\ ~Opens(x)' /\ (Ends(x)' <=> Ends(x))
          BY <1>2, <3>0, <4>1 DEF Tracked, SessionTypes, Opens, Ends
        <4>4. Told(x)' <=> Told(x)
          BY <1>1 DEF Told
        <4>5. x \in used /\ accepting # x /\ x \notin stale
          BY <3>0, <4>3 DEF Tracked
        <4> QED
          BY <1>1, <2>2, <2>3, <3>0, <3>2, <4>2, <4>3, <4>4, <4>5 DEF Tracked
      <3> QED
        BY <3>1, <3>2
    <2> QED
      BY <1>1, <2>4, <2>5, <2>6 DEF IndInv
  <1>6. CASE e.type = "session_disconnected"
    <2> DEFINE s == e.session
               map == [stored EXCEPT ![s] = "ended"]
    <2>1. s \in Sessions
      BY <1>3, <1>6 DEF SessionTypes
    <2>2. stored' \in pruneSessions(map) /\ over' = over \cup {s} /\ stale' = stale \ {s}
      BY <1>4, <1>6 DEF ApplyWorkerEvent, Disconnected
    <2> HIDE DEF s
    <2>3. map \in [Sessions -> {"none", "active", "ended"}] /\ map[s] = "ended"
          /\ \A x \in Sessions \ {s} : map[x] = stored[x]
      BY <1>0, <2>1 DEF Shape
    <2> HIDE DEF map
    <2>4. /\ stored' \in [Sessions -> {"none", "active", "ended"}] /\ stored'[s] # "active"
          /\ \A x \in Sessions \ {s} : stored'[x] = "active" <=> stored[x] = "active"
      BY <2>1, <2>2, <2>3, PruneFacts
    <2>5. Shape'
      BY <1>0, <1>1, <1>3, <2>1, <2>2, <2>4 DEF Shape
    <2>6. settled => Written'
      BY <2>1, <2>2, <2>4 DEF IndInv, Written
    <2>7. ASSUME alive, NEW x \in Sessions
          PROVE  Tracked(x)'
      <3>0. Tracked(x)
        BY <2>7 DEF IndInv
      <3>1. CASE x # s
        <4>1. \A type \in SessionTypes : ~Matches(e, type, x)
          BY <3>1 DEF Matches, s
        <4>2. \A type \in SessionTypes :
                 /\ Holds(events', type, x) <=> Holds(events, type, x)
                 /\ Once(events, type, x) => Once(events', type, x)
          BY <1>2, <4>1
        <4>3. /\ x \in stale <=> x \in stale'
              /\ x \in over <=> x \in over'
              /\ stored[x] = "active" <=> stored'[x] = "active"
          BY <2>2, <2>4, <3>1
        <4> QED
          BY <1>1, <3>0, <4>2, <4>3, OtherSession
      <3>2. CASE x = s
        <4>1. Matches(e, "session_disconnected", x) /\ ~Matches(e, "session_connected", x)
          BY <1>6, <3>2 DEF Matches, s
        <4>2. Once(events', "session_connected", x) /\ Once(events', "session_disconnected", x)
          BY <1>2, <3>0 DEF Tracked, SessionTypes
        <4>3. Ends(x) /\ ~Ends(x)' /\ (Opens(x)' <=> Opens(x))
          BY <1>2, <3>0, <4>1 DEF Tracked, SessionTypes, Opens, Ends
        <4>4. Told(x)' /\ Told(x)
          BY <1>1, <3>0, <4>3 DEF Told, Tracked
        <4>5. x \in over' /\ x \notin stale' /\ stored'[x] # "active"
          BY <2>2, <2>4, <3>2
        <4> QED
          BY <1>1, <3>0, <4>2, <4>3, <4>4, <4>5 DEF Tracked
      <3> QED
        BY <3>1, <3>2
    <2> QED
      BY <1>1, <2>5, <2>6, <2>7 DEF IndInv
  <1>7. CASE e.type \notin SessionTypes
    <2>1. UNCHANGED <<stored, over, stale>>
      BY <1>4, <1>7 DEF ApplyWorkerEvent, SessionTypes
    <2>2. \A x \in Sessions, type \in SessionTypes : ~Matches(e, type, x)
      BY <1>7 DEF Matches
    <2>3. SameSessions(events, events')
      BY <1>2, <1>3, <2>2 DEF SameSessions
    <2>4. Shaken(pending', admitted', used) /\ (~alive => pending' = {})
      BY <1>1 DEF IndInv, Shape
    <2> QED
      BY <1>1, <2>1, <2>3, <2>4, OtherEvent
  <1> QED
    BY <1>5, <1>6, <1>7 DEF SessionTypes

\* The worker ends and the daemon writes its end.
LEMMA EndStep ==
    ASSUME IndInv, Exit \/ wait \/ PipeCloses
    PROVE  IndInv'
  <1>0. Shape
    BY DEF IndInv
  <1>1. CASE Exit
    <2>1. PICK n \in 0 .. Len(events) : events' = SubSeq(events, 1, n)
      BY <1>1 DEF Exit
    <2>2. events' \in Seq(Event) /\ Named(events')
      BY <1>0, <2>1, NamedFacts DEF Shape
    <2>3. /\ alive /\ ~alive' /\ alive' \in BOOLEAN
          /\ sessions' = {} /\ accepting' = NoSession /\ closing' = {}
          /\ pending' = {} /\ UNCHANGED <<used, admitted, stored, settled, over, stale>>
      BY <1>1 DEF Exit, daemon
    <2>4. Shape'
      BY <1>0, <2>2, <2>3 DEF Shape, Shaken
    <2> QED
      BY <2>3, <2>4 DEF IndInv
  <1>2. CASE wait
    <2> DEFINE map == CloseRelaySessions(stored)
    <2>1. /\ ~alive /\ settled' = TRUE /\ stored' \in pruneSessions(map) /\ over' = Sessions /\ stale' = {}
          /\ UNCHANGED <<alive, used, sessions, accepting, closing, events, pending, admitted>>
      BY <1>2 DEF wait, worker, handshakes
    <2>2. map \in [Sessions -> {"none", "active", "ended"}] /\ \A s \in Sessions : map[s] # "active"
      BY <1>0 DEF CloseRelaySessions, Shape
    <2> HIDE DEF map
    <2>3. /\ stored' \in [Sessions -> {"none", "active", "ended"}]
          /\ \A s \in Sessions : stored'[s] # "active"
      BY <2>1, <2>2, PruneFacts
    <2>4. Shape'
      BY <1>0, <2>1, <2>3 DEF Shape
    <2>5. Written'
      BY <2>1, <2>3 DEF Written
    <2> QED
      BY <2>1, <2>4, <2>5 DEF IndInv
  <1>3. CASE PipeCloses
    <2>1. /\ ~alive /\ events' = << >>
          /\ UNCHANGED <<alive, used, sessions, accepting, closing, stored, settled, over, stale>>
          /\ UNCHANGED <<pending, admitted>>
      BY <1>3 DEF PipeCloses, worker, handshakes, daemon
    <2>2. events' \in Seq(Event) /\ Named(events')
      BY <2>1 DEF Named
    <2>3. Shape'
      BY <1>0, <2>1, <2>2 DEF Shape
    <2> QED
      BY <2>1, <2>3 DEF IndInv, Written
  <1> QED
    BY <1>1, <1>2, <1>3

\* The inductive invariant, for every behaviour.
LEMMA AlwaysInd == Spec => []IndInv
  <1>1. IndInv /\ [Next]_vars => IndInv'
    <2> SUFFICES ASSUME IndInv, [Next]_vars PROVE IndInv'
      OBVIOUS
    <2>1. CASE UNCHANGED vars
      <3>1. /\ UNCHANGED <<alive, used, sessions, accepting, closing, stored, settled, over, stale>>
            /\ UNCHANGED <<events, pending, admitted>>
        BY <2>1 DEF vars, worker, handshakes, daemon
      <3>2. SameSessions(events, events')
        BY <3>1 DEF IndInv, Shape, SameSessions
      <3>3. Shaken(pending', admitted', used) /\ (~alive => pending' = {})
        BY <3>1 DEF IndInv, Shape
      <3> QED
        BY <3>1, <3>2, <3>3, OtherEvent
    <2>2. CASE Next
      BY <2>2, LoopStep, SessionStep, ReadStep, EndStep DEF Next
    <2> QED
      BY <2>1, <2>2
  <1> QED
    BY <1>1, InitInd, PTL DEF Spec

-----------------------------------------------------------------------------
(* Theorem about the sessions *)

\* Once everything on its way has arrived, the store shows exactly the worker's
\* sessions as connected, and those that were overtaken by their end, for any
\* capacity of the channel and however many events were dropped, kept a
\* goroutine waiting or were lost with the worker (emit, close, ApplyWorkerEvent,
\* CloseRelaySessions).
THEOREM SessionsShown == Spec => []SessionsAgree
  <1>1. IndInv => SessionsAgree
    <2> SUFFICES ASSUME IndInv, Quiet, NEW s \in Sessions
                 PROVE  stored[s] = "active" <=> s \in sessions \cup stale
      <3>1. IndInv => sessions \cup stale \subseteq Sessions
        BY DEF IndInv, Shape, Shaken
      <3> QED
        BY <3>1 DEF SessionsAgree
    <2>1. ~Opens(s) /\ ~Ends(s) /\ accepting # s /\ s \notin closing
      BY RelayEventsConstants DEF Quiet, Opens, Ends, Holds
    <2>2. CASE alive
      <3>1. Tracked(s) /\ stale \subseteq over /\ sessions \subseteq used
        BY <2>2 DEF IndInv, Shape
      <3>2. CASE s \in used
        BY <2>1, <3>1, <3>2 DEF Tracked, Told
      <3>3. CASE s \notin used
        BY <3>1, <3>3 DEF Tracked
      <3> QED
        BY <3>2, <3>3
    <2>3. CASE ~alive
      BY <2>3 DEF IndInv, Quiet, Written
    <2> QED
      BY <2>2, <2>3
  <1> QED
    BY <1>1, AlwaysInd, PTL

-----------------------------------------------------------------------------
(* The inductive invariant of the attempt limiter *)

\* What a window has let through: all it has counted, up to the limit.
Granted(window) == IF window.count <= Limit THEN window.count ELSE Limit

\* An address and its window, if it has one that is not over: what was allowed
\* since the window opened is what the window has counted, the attempt that
\* opened it came first, and less than a limit is left of earlier windows.
Balanced(table, ip, g) ==
    IF ip \in DOMAIN table /\ table[ip].age < Window
    THEN LET a == table[ip].age IN
         /\ g[a] = Granted(table[ip])
         /\ a >= 1 => g[a - 1] < g[a]
         /\ g[Window - 1] < g[a] + Limit
    ELSE g[0] = 0 /\ g[Window - 1] < Limit

Totals == {g \in [0 .. Window - 1 -> Nat] :
             \A j, k \in 0 .. Window - 1 : j <= k => g[j] <= g[k]}

TableEntry == [age : 0 .. Window, count : 1 .. Limit + 1, reported : BOOLEAN]

\* A table the limiter can hold.
Table(table) ==
    /\ DOMAIN table \subseteq Ips
    /\ IsFiniteSet(DOMAIN table) /\ Cardinality(DOMAIN table) <= MaxTracked
    /\ \A ip \in DOMAIN table : table[ip] \in TableEntry

LimiterInv ==
    /\ Table(attempts)
    /\ grants \in [Ips -> Totals]
    /\ \A ip \in Ips : Balanced(attempts, ip, grants[ip])

-----------------------------------------------------------------------------
(* The attempt limiter *)

LEMMA MinOfTwo ==
    ASSUME NEW x \in Nat, NEW y \in Nat
    PROVE  Min({x, y}) = IF x <= y THEN x ELSE y
  <1>1. \E m \in {x, y} : \A z \in {x, y} : m <= z
    OBVIOUS
  <1>2. Min({x, y}) \in {x, y} /\ \A z \in {x, y} : Min({x, y}) <= z
    BY <1>1 DEF Min
  <1> QED
    BY <1>2

\* A sweep forgets windows that are over and no others, and only for an address
\* that has none.
LEMMA SweptFacts ==
    ASSUME Table(attempts), NEW ip \in Ips
    PROVE  /\ Table(Swept(ip)) /\ DOMAIN Swept(ip) \subseteq DOMAIN attempts
           /\ \A i \in DOMAIN Swept(ip) : Swept(ip)[i] = attempts[i]
           /\ \A i \in DOMAIN attempts \ DOMAIN Swept(ip) : attempts[i].age >= Window
           /\ ip \in DOMAIN Swept(ip) <=> ip \in DOMAIN attempts
           /\ ip \notin DOMAIN Swept(ip) /\ Cardinality(DOMAIN Swept(ip)) >= MaxTracked
                => DOMAIN Swept(ip) = Fresh(attempts)
  <1>0. MaxTracked \in Nat /\ Window \in Nat
    BY RelayEventsConstants
  <1>1. CASE ip \notin DOMAIN attempts /\ Cardinality(DOMAIN attempts) >= MaxTracked
    <2>1. Swept(ip) = [i \in Fresh(attempts) |-> attempts[i]]
      BY <1>1 DEF Swept
    <2>2. Fresh(attempts) \subseteq DOMAIN attempts
      BY DEF Fresh
    <2>3. IsFiniteSet(Fresh(attempts)) /\ Cardinality(Fresh(attempts)) <= MaxTracked
      <3>1. /\ IsFiniteSet(Fresh(attempts)) /\ Cardinality(Fresh(attempts)) <= Cardinality(DOMAIN attempts)
        BY <2>2, FS_Subset DEF Table
      <3>2. Cardinality(Fresh(attempts)) \in Nat /\ Cardinality(DOMAIN attempts) \in Nat
        BY <3>1, FS_CardinalityType DEF Table
      <3> QED
        BY <1>0, <3>1, <3>2 DEF Table
    <2>4. \A i \in DOMAIN attempts \ Fresh(attempts) : attempts[i].age >= Window
      BY <1>0 DEF Fresh, Table, TableEntry
    <2> QED
      BY <1>1, <2>1, <2>2, <2>3, <2>4 DEF Table
  <1>2. CASE ~(ip \notin DOMAIN attempts /\ Cardinality(DOMAIN attempts) >= MaxTracked)
    BY <1>2 DEF Swept
  <1> QED
    BY <1>1, <1>2

\* An address is added to the table, or its window replaced.
LEMMA TrackFacts ==
    ASSUME NEW table, Table(table), NEW ip \in Ips, NEW window \in TableEntry,
           ip \in DOMAIN table \/ Cardinality(DOMAIN table) < MaxTracked
    PROVE  /\ Table(Track(table, ip, window))
           /\ DOMAIN Track(table, ip, window) = DOMAIN table \cup {ip}
           /\ Track(table, ip, window)[ip] = window
           /\ \A i \in DOMAIN table \ {ip} : Track(table, ip, window)[i] = table[i]
  <1>0. MaxTracked \in Nat
    BY RelayEventsConstants
  <1>1. IsFiniteSet(DOMAIN table \cup {ip}) /\ Cardinality(DOMAIN table \cup {ip}) <= MaxTracked
    <2>1. CASE ip \in DOMAIN table
      <3>1. DOMAIN table \cup {ip} = DOMAIN table
        BY <2>1
      <3> QED
        BY <3>1 DEF Table
    <2>2. CASE ip \notin DOMAIN table
      <3>1. /\ IsFiniteSet(DOMAIN table \cup {ip})
            /\ Cardinality(DOMAIN table \cup {ip}) = Cardinality(DOMAIN table) + 1
            /\ Cardinality(DOMAIN table) \in Nat
        BY <2>2, FS_AddElement, FS_CardinalityType DEF Table
      <3> QED
        BY <1>0, <2>2, <3>1
    <2> QED
      BY <2>1, <2>2
  <1> QED
    BY <1>1 DEF Table, Track

\* A window's entry when it refuses.
LEMMA Refused ==
    ASSUME NEW A, NEW C, NEW c \in C, NEW w \in [age : A, count : Nat, reported : BOOLEAN]
    PROVE  LET r == [w EXCEPT !.reported = TRUE, !.count = c] IN
           r \in [age : A, count : C, reported : BOOLEAN] /\ r.age = w.age /\ r.count = c
  OBVIOUS

\* Every answer keeps the balance: an attempt that is allowed is counted, one that
\* is not changes nothing that was counted, and no window is forgotten early.
\* Whoever is refused has used up the limit within the window, or has met a table
\* of windows none of which is over.
LEMMA AnswerFacts ==
    ASSUME LimiterInv, NEW ip \in Ips
    PROVE  LET answer == allowConnectionAttempt(ip) IN
           /\ Table(answer.table)
           /\ \A i \in Ips \ {ip} : Balanced(answer.table, i, grants[i])
           /\ answer.allowed =>
                Balanced(answer.table, ip, [k \in 0 .. Window - 1 |-> grants[ip][k] + 1])
           /\ ~answer.allowed => Balanced(answer.table, ip, grants[ip])
           /\ ~answer.allowed =>
                \/ grants[ip][Window - 1] >= Limit
                \/ ip \notin DOMAIN attempts /\ Cardinality(Fresh(attempts)) >= MaxTracked
  <1> DEFINE answer == allowConnectionAttempt(ip)
             table == Swept(ip)
             known == ip \in DOMAIN table
             full == ~known /\ Cardinality(DOMAIN table) >= MaxTracked
             opens == ~known \/ table[ip].age >= Window
             counted == [table[ip] EXCEPT !.count = @ + 1]
             g == grants[ip]
             more == [k \in 0 .. Window - 1 |-> grants[ip][k] + 1]
  <1>0. Window \in Nat \ {0} /\ Limit \in Nat \ {0} /\ MaxTracked \in Nat \ {0}
    BY RelayEventsConstants
  <1>1. /\ Table(table) /\ DOMAIN table \subseteq DOMAIN attempts
        /\ \A i \in DOMAIN table : table[i] = attempts[i]
        /\ \A i \in DOMAIN attempts \ DOMAIN table : attempts[i].age >= Window
        /\ known <=> ip \in DOMAIN attempts
        /\ full => ip \notin DOMAIN attempts /\ Cardinality(Fresh(attempts)) >= MaxTracked
    <2>1. Table(attempts)
      BY DEF LimiterInv
    <2> HIDE DEF table
    <2>2. /\ Table(table) /\ DOMAIN table \subseteq DOMAIN attempts
          /\ \A i \in DOMAIN table : table[i] = attempts[i]
          /\ \A i \in DOMAIN attempts \ DOMAIN table : attempts[i].age >= Window
          /\ known <=> ip \in DOMAIN attempts
          /\ full => DOMAIN table = Fresh(attempts)
      BY <2>1, SweptFacts DEF table
    <2> QED
      BY <2>2
  <1>2. g \in Totals
    BY DEF LimiterInv
  <1>3. CASE full
    <2>1. answer = [allowed |-> FALSE, report |-> FALSE, table |-> table]
      BY <1>3 DEF allowConnectionAttempt
    <2>2. ~answer.allowed /\ answer.table = table
      BY <2>1
    <2> HIDE DEF answer, table
    <2>3. \A i \in Ips : Balanced(table, i, grants[i])
      BY <1>1, <1>0 DEF LimiterInv, Balanced, Table, TableEntry
    <2> QED
      BY <1>1, <1>3, <2>2, <2>3 DEF answer
  <1>4. CASE ~full /\ opens
    <2> DEFINE w == [age |-> 0, count |-> 1, reported |-> FALSE]
    <2>1. answer.allowed /\ answer.table = Track(table, ip, w)
      BY <1>4 DEF allowConnectionAttempt
    <2>2. w \in TableEntry /\ w.age = 0 /\ w.count = 1
      BY <1>0 DEF TableEntry
    <2> HIDE DEF answer, table, w
    <2>3. known \/ Cardinality(DOMAIN table) < MaxTracked
      BY <1>0, <1>1, <1>4, FS_CardinalityType DEF Table
    <2>4. /\ Table(Track(table, ip, w)) /\ DOMAIN Track(table, ip, w) = DOMAIN table \cup {ip}
          /\ Track(table, ip, w)[ip] = w
          /\ \A i \in DOMAIN table \ {ip} : Track(table, ip, w)[i] = table[i]
      BY <1>1, <2>2, <2>3, TrackFacts
    <2>5. \A i \in Ips \ {ip} : Balanced(answer.table, i, grants[i])
      BY <1>0, <1>1, <2>1, <2>4 DEF LimiterInv, Balanced, Table, TableEntry
    <2>6. Balanced(answer.table, ip, more)
      <3>1. g[0] = 0 /\ g[Window - 1] < Limit
        BY <1>0, <1>1, <1>4 DEF LimiterInv, Balanced, Table, TableEntry
      <3>2. more[0] = 1 /\ more[Window - 1] = g[Window - 1] + 1 /\ g[Window - 1] \in Nat
        BY <1>0, <1>2, <3>1 DEF Totals
      <3> HIDE DEF more, g
      <3> QED
        BY <1>0, <2>1, <2>2, <2>4, <3>1, <3>2 DEF Balanced, Granted
    <2> QED
      BY <2>1, <2>4, <2>5, <2>6 DEF answer
  <1>5. CASE ~full /\ ~opens
    <2> DEFINE a == table[ip].age
               n == table[ip].count
    <2>1. /\ known /\ table[ip] \in TableEntry /\ a \in 0 .. Window - 1 /\ n \in 1 .. Limit + 1
      <3> HIDE DEF table
      <3>1. known /\ table[ip] \in TableEntry /\ ~(table[ip].age >= Window)
        BY <1>1, <1>5 DEF Table
      <3> QED
        BY <1>0, <3>1 DEF TableEntry
    <2>2. /\ counted.age = a /\ counted.count = n + 1 /\ counted.reported = table[ip].reported
          /\ counted.reported \in BOOLEAN
      BY <2>1 DEF TableEntry
    <2>3. /\ g[a] = Granted(table[ip]) /\ (a >= 1 => g[a - 1] < g[a]) /\ g[Window - 1] < g[a] + Limit
      BY <1>0, <1>1, <2>1 DEF LimiterInv, Balanced
    <2>4. \A k \in 0 .. Window - 1 : g[k] \in Nat /\ more[k] = g[k] + 1
      BY <1>2 DEF Totals
    <2>5. CASE Counts(counted)
      <3>1. answer.allowed /\ answer.table = Track(table, ip, counted)
        BY <1>5, <2>5 DEF allowConnectionAttempt
      <3>2. n + 1 <= Limit /\ counted \in TableEntry
        BY <1>0, <2>1, <2>2, <2>5 DEF Counts, TableEntry
      <3> HIDE DEF answer, table, counted, a, n, g, more
      <3>4. /\ Table(Track(table, ip, counted)) /\ DOMAIN Track(table, ip, counted) = DOMAIN table \cup {ip}
            /\ Track(table, ip, counted)[ip] = counted
            /\ \A i \in DOMAIN table \ {ip} : Track(table, ip, counted)[i] = table[i]
        BY <1>1, <2>1, <3>2, TrackFacts
      <3>5. \A i \in Ips \ {ip} : Balanced(answer.table, i, grants[i])
        BY <1>0, <1>1, <3>1, <3>4 DEF LimiterInv, Balanced, Table, TableEntry
      <3>6. Balanced(answer.table, ip, more)
        <4>1. g[a] = n
          BY <1>0, <2>1, <2>3, <3>2 DEF Granted, n
        <4>2. more[a] = n + 1 /\ more[Window - 1] = g[Window - 1] + 1 /\ g[Window - 1] \in Nat
          BY <1>0, <2>1, <2>4, <4>1
        <4>3. a >= 1 => more[a - 1] < more[a]
          <5>1. a >= 1 => a - 1 \in 0 .. Window - 1
            BY <1>0, <2>1
          <5> QED
            BY <2>1, <2>3, <2>4, <5>1
        <4>4. more[Window - 1] < more[a] + Limit
          BY <1>0, <2>1, <2>3, <4>1, <4>2
        <4>5. Granted(counted) = n + 1
          BY <2>2, <3>2 DEF Granted
        <4> QED
          BY <1>0, <2>1, <2>2, <3>1, <3>4, <4>2, <4>3, <4>4, <4>5 DEF Balanced
      <3> QED
        BY <3>1, <3>4, <3>5, <3>6 DEF answer, more
    <2>6. CASE ~Counts(counted)
      <3> DEFINE w == [counted EXCEPT !.reported = TRUE, !.count = Limit + 1]
      <3>1. ~answer.allowed /\ answer.table = Track(table, ip, w)
        BY <1>5, <2>6 DEF allowConnectionAttempt
      <3>2. n >= Limit
        BY <1>0, <2>1, <2>2, <2>6 DEF Counts
      <3>3. w \in TableEntry /\ w.age = a /\ w.count = Limit + 1
        <4>1. counted \in [age : 0 .. Window, count : Nat, reported : BOOLEAN]
          BY <1>0, <2>1 DEF TableEntry
        <4>2. Limit + 1 \in 1 .. Limit + 1
          BY <1>0
        <4> QED
          BY <2>2, <4>1, <4>2, Refused DEF TableEntry
      <3> HIDE DEF answer, table, counted, a, n, g, w
      <3>4. /\ Table(Track(table, ip, w)) /\ DOMAIN Track(table, ip, w) = DOMAIN table \cup {ip}
            /\ Track(table, ip, w)[ip] = w
            /\ \A i \in DOMAIN table \ {ip} : Track(table, ip, w)[i] = table[i]
        BY <1>1, <2>1, <3>3, TrackFacts
      <3>5. \A i \in Ips \ {ip} : Balanced(answer.table, i, grants[i])
        BY <1>0, <1>1, <3>1, <3>4 DEF LimiterInv, Balanced, Table, TableEntry
      <3>6. g[a] = Limit /\ Granted(w) = Limit
        BY <1>0, <2>1, <2>3, <3>2, <3>3 DEF Granted, n
      <3>7. Balanced(answer.table, ip, g)
        BY <1>0, <2>1, <2>3, <3>1, <3>3, <3>4, <3>6 DEF Balanced
      <3>8. g[Window - 1] >= Limit
        <4>1. Window - 1 \in 0 .. Window - 1 /\ a <= Window - 1
          BY <1>0, <2>1
        <4>2. g[a] <= g[Window - 1]
          BY <1>2, <2>1, <4>1 DEF Totals
        <4> QED
          BY <1>0, <2>4, <3>6, <4>1, <4>2
      <3> QED
        BY <3>1, <3>4, <3>5, <3>7, <3>8 DEF answer, g
    <2> QED
      BY <2>5, <2>6
  <1> QED
    BY <1>3, <1>4, <1>5

\* An empty table, of a worker that starts.
LEMMA EmptyLimiter ==
    ASSUME attempts' = << >>, grants' = [ip \in Ips |-> NoGrants]
    PROVE  LimiterInv'
  <1>1. DOMAIN attempts' = {} /\ IsFiniteSet({}) /\ Cardinality({}) = 0
    BY FS_EmptySet
  <1>2. NoGrants \in Totals /\ NoGrants[0] = 0 /\ NoGrants[Window - 1] = 0
    BY RelayEventsConstants DEF NoGrants, Totals
  <1> QED
    BY <1>1, <1>2, RelayEventsConstants DEF LimiterInv, Table, Balanced

\* The steps that reach the limiter; a restarted worker has an empty table.
LEMMA LimiterStep ==
    ASSUME LimiterInv, [Next]_vars
    PROVE  LimiterInv'
  <1>0. Window \in Nat \ {0} /\ Limit \in Nat \ {0} /\ MaxTracked \in Nat \ {0}
    BY RelayEventsConstants
  <1>1. ASSUME UNCHANGED <<attempts, grants>>
        PROVE  LimiterInv'
    BY <1>1 DEF LimiterInv, Table, Balanced
  <1>2. ASSUME NEW ip \in Ips, Attempt(ip)
        PROVE  LimiterInv'
    <2> DEFINE answer == allowConnectionAttempt(ip)
               more == [k \in 0 .. Window - 1 |-> grants[ip][k] + 1]
    <2>1. answer.allowed /\ attempts' = answer.table /\ grants' = [grants EXCEPT ![ip] = more]
      BY <1>2 DEF Attempt
    <2>2. /\ Table(answer.table) /\ Balanced(answer.table, ip, more)
          /\ \A i \in Ips \ {ip} : Balanced(answer.table, i, grants[i])
      BY <2>1, AnswerFacts
    <2>3. more \in Totals
      <3>1. \A j, k \in 0 .. Window - 1 :
               grants[ip][j] \in Nat /\ (j <= k => grants[ip][j] <= grants[ip][k])
        BY DEF LimiterInv, Totals
      <3>2. \A j, k \in 0 .. Window - 1 : j <= k => grants[ip][j] + 1 <= grants[ip][k] + 1
        BY <3>1
      <3> QED
        BY <3>1, <3>2 DEF Totals
    <2> HIDE DEF answer, more
    <2>4. /\ grants' \in [Ips -> Totals] /\ grants'[ip] = more
          /\ \A i \in Ips \ {ip} : grants'[i] = grants[i]
      BY <2>1, <2>3 DEF LimiterInv
    <2> QED
      BY <2>1, <2>2, <2>4 DEF LimiterInv, Table, Balanced
  <1>3. ASSUME NEW ip \in Ips, Refuse(ip)
        PROVE  LimiterInv'
    <2> DEFINE answer == allowConnectionAttempt(ip)
    <2>1. ~answer.allowed /\ attempts' = answer.table /\ grants' = grants
      BY <1>3 DEF Refuse
    <2>2. Table(answer.table) /\ \A i \in Ips : Balanced(answer.table, i, grants[i])
      BY <2>1, AnswerFacts
    <2> HIDE DEF answer
    <2> QED
      BY <2>1, <2>2 DEF LimiterInv, Table, Balanced
  <1>4. CASE Second
    <2> DEFINE older(g) == [k \in 0 .. Window - 1 |-> IF k = 0 THEN 0 ELSE g[k - 1]]
    <2>1. /\ DOMAIN attempts' = DOMAIN attempts
          /\ \A i \in DOMAIN attempts :
               attempts'[i] = [attempts[i] EXCEPT !.age = Min({attempts[i].age + 1, Window})]
          /\ grants' = [i \in Ips |-> older(grants[i])]
      BY <1>4 DEF Second
    <2>2. ASSUME NEW i \in DOMAIN attempts
          PROVE  /\ attempts[i].age \in 0 .. Window /\ attempts[i].count \in 1 .. Limit + 1
                 /\ attempts'[i] \in TableEntry /\ attempts'[i].count = attempts[i].count
                 /\ attempts'[i].age = IF attempts[i].age < Window THEN attempts[i].age + 1 ELSE Window
      <3> DEFINE m == Min({attempts[i].age + 1, Window})
      <3>1. attempts[i] \in TableEntry
        BY DEF LimiterInv, Table
      <3>2. attempts[i].age \in 0 .. Window /\ attempts[i].count \in 1 .. Limit + 1
        BY <3>1 DEF TableEntry
      <3>3. m = IF attempts[i].age < Window THEN attempts[i].age + 1 ELSE Window
        BY <1>0, <3>2, MinOfTwo
      <3>4. m \in 0 .. Window
        BY <1>0, <3>2, <3>3
      <3>5. attempts'[i] = [attempts[i] EXCEPT !.age = m]
        BY <2>1
      <3> HIDE DEF m
      <3>6. attempts'[i] \in TableEntry /\ attempts'[i].count = attempts[i].count /\ attempts'[i].age = m
        BY <3>1, <3>4, <3>5 DEF TableEntry
      <3> QED
        BY <3>2, <3>3, <3>6
    <2>3. Table(attempts')
      BY <2>1, <2>2 DEF LimiterInv, Table
    <2>4. ASSUME NEW i \in Ips
          PROVE  older(grants[i]) \in Totals /\ Balanced(attempts', i, older(grants[i]))
      <3> DEFINE g == grants[i]
                 h == older(g)
      <3>1. g \in Totals /\ Balanced(attempts, i, g)
        BY DEF LimiterInv
      <3>2. h[0] = 0 /\ \A k \in 1 .. Window - 1 : k - 1 \in 0 .. Window - 1 /\ h[k] = g[k - 1]
        BY <1>0
      <3>3. h \in Totals
        <4>1. \A k \in 0 .. Window - 1 : g[k] \in Nat
          BY <3>1 DEF Totals
        <4>2. h \in [0 .. Window - 1 -> Nat]
          BY <1>0, <4>1
        <4>3. ASSUME NEW j \in 0 .. Window - 1, NEW k \in 0 .. Window - 1, j <= k
              PROVE  h[j] <= h[k]
          <5>1. CASE j = 0
            BY <3>2, <4>2, <5>1
          <5>2. CASE j # 0
            <6>1. j \in 1 .. Window - 1 /\ k \in 1 .. Window - 1 /\ j - 1 <= k - 1
              BY <1>0, <4>3, <5>2
            <6>2. h[j] = g[j - 1] /\ h[k] = g[k - 1] /\ g[j - 1] <= g[k - 1]
              BY <3>1, <3>2, <6>1 DEF Totals
            <6> QED
              BY <6>2
          <5> QED
            BY <5>1, <5>2
        <4> QED
          BY <4>2, <4>3 DEF Totals
      <3> HIDE DEF h
      <3>4. \A j, k \in 0 .. Window - 1 : g[j] \in Nat /\ (j <= k => g[j] <= g[k])
        BY <3>1 DEF Totals
      <3> HIDE DEF g
      <3>5. h[Window - 1] <= g[Window - 1] /\ h[Window - 1] \in Nat
        <4>1. CASE Window = 1
          BY <1>0, <3>2, <3>4, <4>1
        <4>2. CASE Window # 1
          <5>1. Window - 1 \in 1 .. Window - 1 /\ Window - 2 \in 0 .. Window - 1
            BY <1>0, <4>2
          <5>2. h[Window - 1] = g[Window - 2]
            BY <1>0, <3>2, <5>1
          <5> QED
            BY <1>0, <3>4, <5>1, <5>2
        <4> QED
          BY <4>1, <4>2
      <3>6. ASSUME i \in DOMAIN attempts, attempts[i].age < Window
            PROVE  Balanced(attempts', i, h)
        <4> DEFINE a == attempts[i].age
        <4>1. /\ a \in 0 .. Window - 1 /\ g[a] = Granted(attempts[i])
              /\ (a >= 1 => g[a - 1] < g[a]) /\ g[Window - 1] < g[a] + Limit
          BY <1>0, <2>2, <3>1, <3>6 DEF Balanced
        <4>2. attempts'[i].age = a + 1 /\ Granted(attempts'[i]) = Granted(attempts[i])
          BY <2>2, <3>6 DEF Granted
        <4>3. Granted(attempts[i]) \in 1 .. Limit
          BY <1>0, <2>2, <3>6 DEF Granted
        <4> HIDE DEF a
        <4>4. h[a] < g[a]
          <5>1. CASE a = 0
            BY <1>0, <3>2, <4>1, <4>3, <5>1
          <5>2. CASE a >= 1
            <6>1. a \in 1 .. Window - 1
              BY <1>0, <4>1, <5>2
            <6> QED
              BY <3>2, <4>1, <5>2, <6>1
          <5> QED
            BY <1>0, <4>1, <5>1, <5>2
        <4>5. CASE a + 1 < Window
          <5>1. a + 1 \in 1 .. Window - 1 /\ (a + 1) - 1 = a
            BY <1>0, <4>1, <4>5
          <5>2. h[a + 1] = g[a]
            BY <3>2, <5>1
          <5>3. h[Window - 1] < h[a + 1] + Limit
            BY <1>0, <3>4, <3>5, <4>1, <5>2
          <5> QED
            BY <1>0, <2>1, <3>6, <4>1, <4>2, <4>4, <4>5, <5>1, <5>2, <5>3 DEF Balanced
        <4>6. CASE ~(a + 1 < Window)
          <5>1. a = Window - 1
            BY <1>0, <4>1, <4>6
          <5>2. h[Window - 1] < Limit
            BY <1>0, <3>4, <3>5, <4>1, <4>3, <4>4, <5>1
          <5> QED
            BY <1>0, <3>2, <4>2, <4>6, <5>2 DEF Balanced
        <4> QED
          BY <4>5, <4>6
      <3>7. ASSUME ~(i \in DOMAIN attempts /\ attempts[i].age < Window)
            PROVE  Balanced(attempts', i, h)
        <4>1. g[Window - 1] < Limit /\ g[Window - 1] \in Nat
          BY <1>0, <3>1, <3>4, <3>7 DEF Balanced
        <4>2. h[0] = 0 /\ h[Window - 1] < Limit
          BY <1>0, <3>2, <3>5, <4>1
        <4>3. ~(i \in DOMAIN attempts' /\ attempts'[i].age < Window)
          BY <1>0, <2>1, <2>2, <3>7
        <4> QED
          BY <4>2, <4>3 DEF Balanced
      <3> QED
        BY <3>3, <3>6, <3>7 DEF h, g
    <2> HIDE DEF older
    <2>5. grants' \in [Ips -> Totals] /\ \A i \in Ips : Balanced(attempts', i, grants'[i])
      BY <2>1, <2>4
    <2> QED
      BY <2>3, <2>5 DEF LimiterInv, Table, Balanced
  <1>5. CASE Exit
    <2>1. attempts' = << >> /\ grants' = [ip \in Ips |-> NoGrants]
      BY <1>5 DEF Exit
    <2> QED
      BY <2>1, EmptyLimiter
  <1>6. CASE UNCHANGED vars
    BY <1>1, <1>6 DEF vars, limiter
  <1>7. CASE Next
    <2>1. CASE \E s \in Sessions :
                  ExpireAttempt(s) \/ Register(s) \/ CloseDeletes(s) \/ CloseTells(s) \/ SessionStats(s)
      BY <1>1, <2>1 DEF ExpireAttempt, Register, CloseDeletes, CloseTells, SessionStats, limiter
    <2>2. CASE AcceptRefused \/ Announce \/ Ready \/ Packet \/ RelayMetrics
      BY <1>1, <2>2 DEF AcceptRefused, Announce, Ready, Packet, RelayMetrics, limiter
    <2>3. CASE readEvents \/ wait \/ PipeCloses
      BY <1>1, <2>3 DEF readEvents, wait, PipeCloses, limiter
    <2> QED
      BY <1>2, <1>3, <1>4, <1>5, <1>7, <2>1, <2>2, <2>3 DEF Next
  <1> QED
    BY <1>6, <1>7

LEMMA AlwaysLimiter == Spec => []LimiterInv
  <1>1. Init => LimiterInv
    <2> SUFFICES ASSUME Init PROVE LimiterInv
      OBVIOUS
    <2>1. attempts = << >> /\ grants = [ip \in Ips |-> NoGrants]
      BY DEF Init
    <2>2. DOMAIN attempts = {} /\ IsFiniteSet({}) /\ Cardinality({}) = 0
      BY <2>1, FS_EmptySet
    <2>3. NoGrants \in Totals /\ NoGrants[0] = 0 /\ NoGrants[Window - 1] = 0
      BY RelayEventsConstants DEF NoGrants, Totals
    <2> QED
      BY <2>1, <2>2, <2>3, RelayEventsConstants DEF LimiterInv, Table, Balanced
  <1> QED
    BY <1>1, LimiterStep, PTL DEF Spec

-----------------------------------------------------------------------------
(* Theorems about the limiter *)

\* No address is allowed twice the limit in any sliding minute, though
\* allowConnectionAttempt counts in fixed windows and forgets them when its table
\* is full: for any limit, any length of the window and any size of the table.
THEOREM FloodIsBounded == Spec => []FloodBounded
  <1>1. LimiterInv => FloodBounded
    <2> SUFFICES ASSUME LimiterInv, NEW ip \in Ips
                 PROVE  grants[ip][Window - 1] < 2 * Limit
      BY DEF FloodBounded, Recent
    <2>0. Window \in Nat \ {0} /\ Limit \in Nat \ {0}
      BY RelayEventsConstants
    <2>1. \A k \in 0 .. Window - 1 : grants[ip][k] \in Nat
      BY DEF LimiterInv, Totals
    <2>2. grants[ip][Window - 1] \in Nat
      BY <2>0, <2>1
    <2>3. CASE ip \in DOMAIN attempts /\ attempts[ip].age < Window
      <3>1. /\ grants[ip][attempts[ip].age] = Granted(attempts[ip])
            /\ grants[ip][Window - 1] < grants[ip][attempts[ip].age] + Limit
        BY <2>3 DEF LimiterInv, Balanced
      <3>2. Granted(attempts[ip]) \in 1 .. Limit
        BY <2>0, <2>3 DEF LimiterInv, Table, TableEntry, Granted
      <3> QED
        BY <2>0, <2>2, <3>1, <3>2
    <2>4. CASE ~(ip \in DOMAIN attempts /\ attempts[ip].age < Window)
      <3>1. grants[ip][Window - 1] < Limit
        BY <2>4 DEF LimiterInv, Balanced
      <3> QED
        BY <2>0, <2>2, <3>1
    <2> QED
      BY <2>3, <2>4
  <1> QED
    BY <1>1, AlwaysLimiter, PTL

\* Nobody is refused without cause (allowConnectionAttempt): the address has been
\* allowed the limit in the last minute, or it is new and the table is full of
\* addresses whose minute is not over.
THEOREM RefusalHasCause == Spec => []RefusedForCause
  <1>1. LimiterInv => RefusedForCause
    BY AnswerFacts DEF RefusedForCause, Recent
  <1> QED
    BY <1>1, AlwaysLimiter, PTL

\* The table of allowConnectionAttempt never holds more than maxTrackedIPs
\* addresses, however many call.
THEOREM TableIsBounded ==
    Spec => [](IsFiniteSet(DOMAIN attempts) /\ Cardinality(DOMAIN attempts) <= MaxTracked)
  <1>1. LimiterInv => IsFiniteSet(DOMAIN attempts) /\ Cardinality(DOMAIN attempts) <= MaxTracked
    BY DEF LimiterInv, Table
  <1> QED
    BY <1>1, AlwaysLimiter, PTL

-----------------------------------------------------------------------------
(* The backlog of the channel *)

\* The events of q whose goroutines wait in emit, and whether g's is among them.
Beyond(q) == Capacity + 1 .. Len(q)
Blocked(q, g) == \E i \in Beyond(q) : q[i].by = g

\* Beyond the capacity there are lifecycle events only, each of another goroutine:
\* the callback, the acceptor, or the timer of a handshake in U or the one that
\* closes its session.
Queue(q, U) ==
    /\ q \in Seq(Event)
    /\ \A i \in Beyond(q) : q[i].type \in Lifecycle /\ q[i].by \in U \cup {"callback", "acceptor"}
    /\ \A i, j \in Beyond(q) : q[i].by = q[j].by => i = j

\* A goroutine that is about to emit a lifecycle event does not wait already.
Backlog ==
    /\ IsFiniteSet(admitted)
    /\ Queue(events, admitted)
    /\ accepting # NoSession => ~Blocked(events, "acceptor")
    /\ \A s \in pending \cup sessions \cup closing : ~Blocked(events, s)

\* What emit does to the backlog: a lifecycle event of a goroutine that does not
\* wait joins it, any other event never does.
LEMMA EmitBacklog ==
    ASSUME NEW q, NEW U, Queue(q, U), NEW e \in Event,
           e.type \in Lifecycle => e.by \in U \cup {"callback", "acceptor"} /\ ~Blocked(q, e.by)
    PROVE  /\ Queue(emit(q, e), U)
           /\ \A g : Blocked(emit(q, e), g) => Blocked(q, g) \/ (e.type \in Lifecycle /\ g = e.by)
  <1> DEFINE r == Append(q, e)
  <1>0. Capacity \in Nat \ {0} /\ q \in Seq(Event) /\ Len(q) \in Nat
    BY RelayEventsConstants DEF Queue
  <1>1. CASE emit(q, e) = q
    BY <1>1
  <1>2. CASE emit(q, e) # q
    <2>1. emit(q, e) = r /\ (Len(q) < Capacity \/ e.type \in Lifecycle)
      BY <1>2 DEF emit
    <2>2. /\ r \in Seq(Event) /\ Len(r) = Len(q) + 1
          /\ r[Len(q) + 1] = e /\ \A i \in 1 .. Len(q) : r[i] = q[i]
      BY <1>0
    <2> HIDE DEF r
    <2>3. CASE Len(q) < Capacity
      <3>1. Beyond(r) = {}
        BY <1>0, <2>2, <2>3 DEF Beyond
      <3> QED
        BY <2>1, <2>2, <3>1 DEF Queue, Blocked
    <2>4. CASE ~(Len(q) < Capacity)
      <3>1. e.type \in Lifecycle /\ Beyond(r) = Beyond(q) \cup {Len(q) + 1} /\ Len(q) + 1 \notin Beyond(q)
        BY <1>0, <2>1, <2>2, <2>4 DEF Beyond
      <3>2. \A i \in Beyond(q) : r[i] = q[i]
        BY <1>0, <2>2 DEF Beyond
      <3>3. \A i \in Beyond(q) : q[i].by # e.by
        BY <3>1 DEF Blocked
      <3>4. \A i, j \in Beyond(r) : r[i].by = r[j].by => i = j
        BY <2>2, <3>1, <3>2, <3>3 DEF Queue
      <3>5. Queue(r, U)
        BY <2>2, <3>1, <3>2, <3>4 DEF Queue
      <3> QED
        BY <2>1, <2>2, <3>1, <3>2, <3>5 DEF Blocked
    <2> QED
      BY <2>3, <2>4
  <1> QED
    BY <1>1, <1>2

\* The backlog when the first event is read, or when the end of q is lost.
LEMMA ShorterBacklog ==
    ASSUME NEW q, NEW U, Queue(q, U)
    PROVE  /\ q # << >> => Queue(Tail(q), U) /\ \A g : Blocked(Tail(q), g) => Blocked(q, g)
           /\ \A n \in 0 .. Len(q) : Queue(SubSeq(q, 1, n), U)
  <1>0. Capacity \in Nat \ {0} /\ q \in Seq(Event) /\ Len(q) \in Nat
    BY RelayEventsConstants DEF Queue
  <1>1. ASSUME q # << >>
        PROVE  Queue(Tail(q), U) /\ \A g : Blocked(Tail(q), g) => Blocked(q, g)
    <2> DEFINE r == Tail(q)
    <2>1. /\ r \in Seq(Event) /\ Len(r) = Len(q) - 1
          /\ \A i \in 1 .. Len(r) : r[i] = q[i + 1]
      BY <1>0, <1>1
    <2> HIDE DEF r
    <2>2. \A i \in Beyond(r) : i + 1 \in Beyond(q) /\ r[i] = q[i + 1] /\ i \in Nat
      BY <1>0, <2>1 DEF Beyond
    <2>3. ASSUME NEW i \in Beyond(r), NEW j \in Beyond(r), r[i].by = r[j].by
          PROVE  i = j
      <3>1. i + 1 = j + 1
        BY <2>2, <2>3 DEF Queue
      <3> QED
        BY <2>2, <3>1
    <2>4. Queue(r, U)
      BY <2>1, <2>2, <2>3 DEF Queue
    <2>5. \A g : Blocked(r, g) => Blocked(q, g)
      BY <2>2 DEF Blocked
    <2> QED
      BY <2>4, <2>5 DEF r
  <1>2. ASSUME NEW n \in 0 .. Len(q)
        PROVE  Queue(SubSeq(q, 1, n), U)
    <2> DEFINE r == SubSeq(q, 1, n)
    <2>1. r \in Seq(Event) /\ Len(r) = n /\ \A i \in 1 .. n : r[i] = q[i]
      BY <1>0
    <2> HIDE DEF r
    <2>2. \A i \in Beyond(r) : i \in Beyond(q) /\ r[i] = q[i]
      BY <1>0, <2>1 DEF Beyond
    <2> QED
      BY <2>1, <2>2 DEF Queue, r
  <1> QED
    BY <1>1, <1>2

\* One event per waiting goroutine: the backlog is at most as long as the worker
\* has goroutines that emit lifecycle events.
LEMMA QueueLength ==
    ASSUME NEW q, NEW U, IsFiniteSet(U), Queue(q, U)
    PROVE  Len(q) <= Capacity + 2 + Cardinality(U)
  <1> DEFINE G == U \cup {"callback"} \cup {"acceptor"}
             f == [i \in Beyond(q) |-> q[i].by]
  <1>0. Capacity \in Nat \ {0} /\ q \in Seq(Event) /\ Len(q) \in Nat /\ Cardinality(U) \in Nat
    BY RelayEventsConstants, FS_CardinalityType DEF Queue
  <1>1. IsFiniteSet(U \cup {"callback"}) /\ Cardinality(U \cup {"callback"}) <= Cardinality(U) + 1
    <2>1. /\ IsFiniteSet(U \cup {"callback"})
          /\ Cardinality(U \cup {"callback"}) =
                IF "callback" \in U THEN Cardinality(U) ELSE Cardinality(U) + 1
      BY FS_AddElement
    <2> QED
      BY <1>0, <2>1
  <1>2. Cardinality(U \cup {"callback"}) \in Nat
    BY <1>1, FS_CardinalityType
  <1>3. IsFiniteSet(G) /\ Cardinality(G) <= Cardinality(U) + 2 /\ Cardinality(G) \in Nat
    <2>1. IsFiniteSet(G) /\ Cardinality(G) <= Cardinality(U \cup {"callback"}) + 1
      BY <1>1, <1>2, FS_AddElement
    <2>2. Cardinality(G) \in Nat
      BY <2>1, FS_CardinalityType
    <2> HIDE DEF G
    <2> QED
      BY <1>0, <1>1, <1>2, <2>1, <2>2
  <1>4. f \in [Beyond(q) -> G]
    BY DEF Queue
  <1>5. \A i, j \in Beyond(q) : f[i] = f[j] => i = j
    BY DEF Queue
  <1>6. /\ IsFiniteSet(Beyond(q))
        /\ Cardinality(Beyond(q)) = IF Capacity + 1 > Len(q) THEN 0 ELSE Len(q) - (Capacity + 1) + 1
    <2>1. Capacity + 1 \in Int /\ Len(q) \in Int
      BY <1>0
    <2> QED
      BY <2>1, FS_Interval DEF Beyond
  <1> HIDE DEF f, G
  <1>7. ~(Cardinality(G) < Cardinality(Beyond(q)))
    BY <1>3, <1>4, <1>5, <1>6, FS_PigeonHole
  <1> QED
    BY <1>0, <1>3, <1>6, <1>7

\* Events that leave the backlog's goroutines alone.
LEMMA BacklogKept ==
    ASSUME Backlog, Queue(events', admitted), UNCHANGED admitted,
           \A g : Blocked(events', g) => Blocked(events, g) \/ g \in {"callback", "acceptor"},
           pending' \cup sessions' \cup closing' \subseteq pending \cup sessions \cup closing,
           pending \cup sessions \cup closing \subseteq Sessions,
           accepting' # NoSession => ~Blocked(events', "acceptor")
    PROVE  Backlog'
  BY RelayEventsConstants DEF Backlog, Queue, Blocked, Beyond

LEMMA WaitsBlocked ==
    ASSUME events \in Seq(Event), NEW g
    PROVE  Waits(g) <=> Blocked(events, g)
  <1>1. Capacity \in Nat \ {0} /\ Len(events) \in Nat /\ DOMAIN events = 1 .. Len(events)
    BY RelayEventsConstants
  <1>2. \A i : i \in Beyond(events) <=> i \in DOMAIN events /\ i > Capacity
    BY <1>1 DEF Beyond
  <1> QED
    BY <1>2 DEF Waits, Blocked

IsEvent(e, lifecycle, g) == e \in Event /\ e.by = g /\ (e.type \in Lifecycle <=> lifecycle)

\* Every step keeps the backlog in order.
LEMMA BacklogStep ==
    ASSUME IndInv, Backlog, [Next]_vars
    PROVE  Backlog'
  <1>0. /\ Queue(events, admitted) /\ events \in Seq(Event)
        /\ pending \cup sessions \cup closing \subseteq Sessions /\ sessions \cap closing = {}
        /\ pending \cap (sessions \cup closing) = {}
        /\ admitted \subseteq Sessions /\ pending \subseteq admitted /\ used \subseteq admitted
        /\ sessions \subseteq used /\ closing \subseteq used
        /\ accepting \in used \cup {NoSession} /\ NoSession \notin Sessions
        /\ "callback" \notin Sessions /\ "acceptor" \notin Sessions
    BY RelayEventsConstants DEF IndInv, Shape, Shaken, Backlog
  <1>1. /\ \A s \in Sessions : /\ IsEvent(Of("session_disconnected", s, FALSE, s), TRUE, s)
                               /\ IsEvent(Of("session_connected", s, FALSE, "acceptor"), TRUE, "acceptor")
                               /\ IsEvent(Of("session_stats", s, FALSE, "metrics"), FALSE, "metrics")
                               /\ IsEvent(Of("connection_rejected", NoSession, FALSE, s), TRUE, s)
        /\ IsEvent(Note("connection_rejected", "callback"), TRUE, "callback")
        /\ IsEvent(Note("connection_rejected", "acceptor"), TRUE, "acceptor")
        /\ IsEvent(Note("connection_attempt", "callback"), FALSE, "callback")
        /\ IsEvent(Note("relay_ready", "run"), FALSE, "run")
        /\ \A reason \in BOOLEAN : IsEvent(Of("relay_metrics", NoSession, reason, "metrics"), FALSE, "metrics")
    BY DEF IsEvent, Note, Of, Event, Lifecycle
  <1>2. \A e \in Event : e.type \notin Lifecycle =>
           Queue(emit(events, e), admitted) /\ \A g : Blocked(emit(events, e), g) => Blocked(events, g)
    BY <1>0, EmitBacklog
  <1>3. ASSUME NEW ip \in Ips, Attempt(ip)
        PROVE  Backlog'
    <2> DEFINE a == Note("connection_attempt", "callback")
               b == Note("connection_rejected", "callback")
    <2>1. a \in Event /\ b \in Event /\ a.type \notin Lifecycle /\ b.type \in Lifecycle /\ b.by = "callback"
      BY <1>1 DEF IsEvent
    <2>2. ~Blocked(events, "callback") /\ UNCHANGED <<sessions, closing, accepting>>
      BY <1>0, <1>3, WaitsBlocked DEF Attempt, worker
    <2>3. \/ events' = emit(emit(events, a), b) /\ UNCHANGED <<pending, admitted>>
          \/ /\ events' = emit(events, a)
             /\ \E h \in Sessions \ admitted : pending' = pending \cup {h} /\ admitted' = admitted \cup {h}
      BY <1>3 DEF Attempt, handshakes
    <2> HIDE DEF a, b
    <2>4. /\ Queue(emit(events, a), admitted)
          /\ \A g : Blocked(emit(events, a), g) => Blocked(events, g)
      BY <1>2, <2>1
    <2>5. /\ Queue(emit(emit(events, a), b), admitted)
          /\ \A g : Blocked(emit(emit(events, a), b), g) => Blocked(emit(events, a), g) \/ g = "callback"
      BY <2>1, <2>2, <2>4, EmitBacklog
    <2>6. /\ Queue(events', admitted)
          /\ \A g : Blocked(events', g) => Blocked(events, g) \/ g = "callback"
      BY <2>3, <2>4, <2>5
    <2>7. accepting' # NoSession => ~Blocked(events', "acceptor")
      BY <2>2, <2>6 DEF Backlog
    <2>8. CASE UNCHANGED <<pending, admitted>>
      BY <1>0, <2>2, <2>6, <2>7, <2>8, BacklogKept
    <2>9. ASSUME NEW h \in Sessions \ admitted, pending' = pending \cup {h}, admitted' = admitted \cup {h}
          PROVE  Backlog'
      <3>1. IsFiniteSet(admitted')
        BY <2>9, FS_AddElement DEF Backlog
      <3>2. Queue(events', admitted')
        BY <2>6, <2>9 DEF Queue
      <3>3. ~Blocked(events', h)
        <4>1. h # "callback" /\ h # "acceptor"
          BY <1>0
        <4> QED
          BY <2>6, <4>1 DEF Queue, Blocked
      <3>4. ASSUME NEW x \in pending' \cup sessions' \cup closing'
            PROVE  ~Blocked(events', x)
        <4>1. CASE x = h
          BY <3>3, <4>1
        <4>2. CASE x # h
          <5>1. x \in pending \cup sessions \cup closing /\ x # "callback"
            BY <1>0, <2>2, <2>9, <3>4, <4>2
          <5> QED
            BY <2>6, <5>1 DEF Backlog
        <4> QED
          BY <4>1, <4>2
      <3> QED
        BY <2>7, <3>1, <3>2, <3>4 DEF Backlog, Queue, Blocked, Beyond
    <2> QED
      BY <2>3, <2>8, <2>9
  <1>4. ASSUME NEW ip \in Ips, Refuse(ip)
        PROVE  Backlog'
    <2> DEFINE b == Note("connection_rejected", "callback")
    <2>1. b \in Event /\ b.type \in Lifecycle /\ b.by = "callback"
      BY <1>1 DEF IsEvent
    <2>2. ~Blocked(events, "callback") /\ UNCHANGED <<sessions, closing, accepting, pending, admitted>>
      BY <1>0, <1>4, WaitsBlocked DEF Refuse, worker, handshakes
    <2>3. events' \in {events, emit(events, b)}
      BY <1>4 DEF Refuse
    <2> HIDE DEF b
    <2>4. /\ Queue(events', admitted)
          /\ \A g : Blocked(events', g) => Blocked(events, g) \/ g = "callback"
      BY <1>0, <2>1, <2>2, <2>3, EmitBacklog
    <2>5. accepting' # NoSession => ~Blocked(events', "acceptor")
      BY <2>2, <2>4 DEF Backlog
    <2> QED
      BY <1>0, <2>2, <2>4, <2>5, BacklogKept
  <1>5. CASE AcceptRefused \/ Announce
    <2>1. PICK e \in Event : /\ e.type \in Lifecycle /\ e.by = "acceptor" /\ events' = emit(events, e)
                             /\ ~Blocked(events, "acceptor")
                             /\ UNCHANGED <<sessions, closing, pending, admitted>> /\ accepting' = NoSession
      <3>1. CASE AcceptRefused
        BY <1>0, <1>1, <3>1, WaitsBlocked DEF AcceptRefused, worker, handshakes, IsEvent
      <3>2. CASE Announce
        <4>1. accepting \in Sessions /\ ~Blocked(events, "acceptor")
          BY <1>0, <3>2 DEF Announce, Backlog
        <4> QED
          BY <1>1, <3>2, <4>1 DEF Announce, handshakes, IsEvent
      <3> QED
        BY <1>5, <3>1, <3>2
    <2>2. /\ Queue(events', admitted)
          /\ \A g : Blocked(events', g) => Blocked(events, g) \/ g = "acceptor"
      BY <1>0, <2>1, EmitBacklog
    <2> QED
      BY <1>0, <2>1, <2>2, BacklogKept
  <1>6. ASSUME NEW s \in Sessions, Register(s)
        PROVE  Backlog'
    <2>1. /\ s \in pending /\ pending' = pending \ {s} /\ sessions' = sessions \cup {s}
          /\ ~Blocked(events, "acceptor") /\ UNCHANGED <<closing, events, admitted>>
      BY <1>0, <1>6, WaitsBlocked DEF Register
    <2>2. pending' \cup sessions' \cup closing' \subseteq pending \cup sessions \cup closing
      BY <2>1
    <2>3. Queue(events', admitted) /\ \A g : Blocked(events', g) <=> Blocked(events, g)
      BY <1>0, <2>1 DEF Queue, Blocked, Beyond
    <2> QED
      BY <1>0, <2>1, <2>2, <2>3, BacklogKept
  <1>7. ASSUME NEW s \in Sessions, CloseDeletes(s)
        PROVE  Backlog'
    <2>1. /\ pending' \cup sessions' \cup closing' \subseteq pending \cup sessions \cup closing
          /\ UNCHANGED <<admitted, accepting, events>>
      BY <1>7 DEF CloseDeletes, handshakes
    <2>2. Queue(events', admitted) /\ \A g : Blocked(events', g) => Blocked(events, g)
      BY <1>0, <2>1
    <2>3. accepting' # NoSession => ~Blocked(events', "acceptor")
      BY <2>1, <2>2 DEF Backlog
    <2> QED
      BY <1>0, <2>1, <2>2, <2>3, BacklogKept
  <1>8. ASSUME NEW s \in Sessions, CloseTells(s) \/ ExpireAttempt(s)
        PROVE  Backlog'
    <2>1. PICK e \in Event : e.type \in Lifecycle /\ e.by = s /\ events' = emit(events, e)
      BY <1>1, <1>8 DEF CloseTells, ExpireAttempt, IsEvent
    <2>2. /\ s \in pending \cup closing
          /\ pending' \cup sessions' \cup closing' \subseteq (pending \cup sessions \cup closing) \ {s}
          /\ UNCHANGED <<accepting, admitted>>
      BY <1>0, <1>8 DEF CloseTells, ExpireAttempt, worker, handshakes
    <2>3. ~Blocked(events, s) /\ s \in admitted
      BY <1>0, <2>2 DEF Backlog
    <2>4. /\ Queue(events', admitted)
          /\ \A g : Blocked(events', g) => Blocked(events, g) \/ g = s
      BY <1>0, <2>1, <2>3, EmitBacklog
    <2>5. \A x \in pending' \cup sessions' \cup closing' : ~Blocked(events', x)
      BY <2>2, <2>4 DEF Backlog
    <2>6. accepting' # NoSession => ~Blocked(events', "acceptor")
      BY <1>0, <2>2, <2>4 DEF Backlog
    <2> QED
      BY <2>2, <2>4, <2>5, <2>6 DEF Backlog, Queue, Blocked, Beyond
  <1>9. CASE Ready \/ RelayMetrics \/ Packet \/ Second \/ wait \/ readEvents \/ UNCHANGED vars
             \/ \E s \in Sessions : SessionStats(s)
    <2>1. UNCHANGED <<sessions, closing, accepting, pending, admitted>>
      BY <1>9 DEF Ready, RelayMetrics, Packet, Second, wait, readEvents, SessionStats, vars, worker, handshakes
    <2>2. Queue(events', admitted) /\ \A g : Blocked(events', g) => Blocked(events, g)
      <3>1. CASE events' = events
        BY <1>0, <3>1
      <3>2. ASSUME NEW e \in Event, e.type \notin Lifecycle, events' = emit(events, e)
            PROVE  Queue(events', admitted) /\ \A g : Blocked(events', g) => Blocked(events, g)
        BY <1>2, <3>2
      <3>3. CASE Packet \/ Second \/ wait \/ UNCHANGED vars
        BY <3>1, <3>3 DEF Packet, Second, wait, vars
      <3>4. CASE readEvents
        BY <1>0, <3>4, ShorterBacklog DEF readEvents
      <3>5. CASE Ready
        BY <1>1, <3>2, <3>5 DEF Ready, IsEvent
      <3>6. CASE RelayMetrics
        <4>1. inputStallReason \in BOOLEAN
          BY DEF inputStallReason
        <4> QED
          BY <1>1, <3>2, <3>6, <4>1 DEF RelayMetrics, IsEvent
      <3>7. ASSUME NEW s \in Sessions, SessionStats(s)
            PROVE  Queue(events', admitted) /\ \A g : Blocked(events', g) => Blocked(events, g)
        BY <1>1, <3>1, <3>2, <3>7 DEF SessionStats, IsEvent
      <3> QED
        BY <1>9, <3>3, <3>4, <3>5, <3>6, <3>7
    <2>3. accepting' # NoSession => ~Blocked(events', "acceptor")
      BY <2>1, <2>2 DEF Backlog
    <2> QED
      BY <1>0, <2>1, <2>2, <2>3, BacklogKept
  <1>10. CASE Exit \/ PipeCloses
    <2>1. /\ pending' = {} /\ sessions' = {} /\ closing' = {} /\ accepting' = NoSession /\ admitted' = admitted
          /\ \E n \in 0 .. Len(events) : events' = SubSeq(events, 1, n)
      <3>1. CASE Exit
        BY <3>1 DEF Exit
      <3>2. CASE PipeCloses
        <4>1. pending = {} /\ sessions = {} /\ closing = {} /\ accepting = NoSession
          BY <3>2 DEF PipeCloses, IndInv
        <4>2. SubSeq(events, 1, 0) = << >> /\ 0 \in 0 .. Len(events)
          BY <1>0
        <4> QED
          BY <3>2, <4>1, <4>2 DEF PipeCloses, worker, handshakes
      <3> QED
        BY <1>10, <3>1, <3>2
    <2>2. Queue(events', admitted')
      BY <1>0, <2>1, ShorterBacklog
    <2> QED
      BY <2>1, <2>2 DEF Backlog, Queue, Blocked, Beyond
  <1> QED
    BY <1>3, <1>4, <1>5, <1>6, <1>7, <1>8, <1>9, <1>10 DEF Next

\* The order holds in every behaviour.
LEMMA AlwaysBacklog == Spec => [](IndInv /\ Backlog)
  <1>1. Init => Backlog
    <2> SUFFICES ASSUME Init PROVE Backlog
      OBVIOUS
    <2>1. /\ events \in Seq(Event) /\ Len(events) = 0 /\ IsFiniteSet(admitted)
          /\ accepting = NoSession /\ pending \cup sessions \cup closing = {}
      BY FS_EmptySet DEF Init
    <2>2. Beyond(events) = {}
      BY <2>1, RelayEventsConstants DEF Beyond
    <2> QED
      BY <2>1, <2>2 DEF Backlog, Queue
  <1> QED
    BY <1>1, BacklogStep, AlwaysInd, PTL DEF Spec

-----------------------------------------------------------------------------
(* The store's completed sessions *)

Ended(map) == {s \in Sessions : map[s] = "ended"}
Listed(map) == {s \in Sessions : map[s] # "none"}

\* pruneSessionsLocked leaves no more than maxCompletedSessions of them.
Pruned(map) ==
    /\ map \in [Sessions -> {"none", "active", "ended"}]
    /\ IsFiniteSet(Listed(map)) /\ Cardinality(Ended(map)) <= MaxCompleted

LEMMA PruneBounds ==
    ASSUME NEW map \in [Sessions -> {"none", "active", "ended"}], IsFiniteSet(Listed(map)),
           NEW new \in pruneSessions(map)
    PROVE  Pruned(new)
  <1>1. PICK gone \in SUBSET Ended(map) :
           /\ Cardinality(Ended(map) \ gone) = Min({Cardinality(Ended(map)), MaxCompleted})
           /\ new = [s \in Sessions |-> IF s \in gone THEN "none" ELSE map[s]]
    BY DEF pruneSessions, Ended
  <1>2. Ended(new) = Ended(map) \ gone /\ Listed(new) \subseteq Listed(map)
    BY <1>1 DEF Ended, Listed
  <1>3. Ended(map) \subseteq Listed(map)
    BY DEF Ended, Listed
  <1>4. Cardinality(Ended(map)) \in Nat
    BY <1>3, FS_Subset, FS_CardinalityType
  <1>5. Cardinality(Ended(new)) <= MaxCompleted
    <2>1. MaxCompleted \in Nat
      BY RelayEventsConstants
    <2> DEFINE n == Cardinality(Ended(map))
    <2>2. Min({n, MaxCompleted}) = IF n <= MaxCompleted THEN n ELSE MaxCompleted
      BY <1>4, <2>1, MinOfTwo
    <2>3. Cardinality(Ended(new)) = Min({n, MaxCompleted})
      BY <1>1, <1>2
    <2> HIDE DEF n
    <2> QED
      BY <1>4, <2>1, <2>2, <2>3 DEF n
  <1>6. IsFiniteSet(Listed(new))
    BY <1>2, FS_Subset
  <1> QED
    BY <1>5, <1>6, PruneFacts DEF Pruned

\* Every step keeps the store's bound.
LEMMA PrunedStep ==
    ASSUME IndInv, Pruned(stored), [Next]_vars
    PROVE  Pruned(stored')
  <1>1. CASE stored' = stored
    BY <1>1
  <1>2. CASE readEvents
    <2> DEFINE e == Head(events)
    <2>1. e \in Event /\ (e.type \in SessionTypes => e.session \in Sessions)
      BY <1>2, NamedFacts, TailFacts DEF IndInv, Shape, readEvents
    <2>2. ApplyWorkerEvent(e)
      BY <1>2 DEF readEvents
    <2> HIDE DEF e
    <2>3. CASE e.type = "session_connected"
      <3>1. stored' = [stored EXCEPT ![e.session] = "active"] /\ e.session \in Sessions
        BY <2>1, <2>2, <2>3 DEF ApplyWorkerEvent, Connected, SessionTypes
      <3>2. /\ stored' \in [Sessions -> {"none", "active", "ended"}]
            /\ Listed(stored') = Listed(stored) \cup {e.session}
            /\ Ended(stored') = Ended(stored) \ {e.session}
        BY <3>1 DEF Pruned, Listed, Ended
      <3>3. IsFiniteSet(Listed(stored'))
        BY <3>2, FS_AddElement DEF Pruned
      <3>4. Ended(stored) \subseteq Listed(stored) /\ Ended(stored') \subseteq Ended(stored)
        BY <3>2 DEF Ended, Listed
      <3>5. IsFiniteSet(Ended(stored))
        BY <3>4, FS_Subset DEF Pruned
      <3>6. /\ Cardinality(Ended(stored')) <= Cardinality(Ended(stored))
            /\ Cardinality(Ended(stored)) \in Nat /\ Cardinality(Ended(stored')) \in Nat
        BY <3>4, <3>5, FS_Subset, FS_CardinalityType
      <3>7. Cardinality(Ended(stored')) <= MaxCompleted
        BY <3>6, RelayEventsConstants DEF Pruned
      <3> QED
        BY <3>2, <3>3, <3>7 DEF Pruned
    <2>4. CASE e.type = "session_disconnected"
      <3> DEFINE map == [stored EXCEPT ![e.session] = "ended"]
      <3>1. stored' \in pruneSessions(map) /\ e.session \in Sessions
        BY <2>1, <2>2, <2>4 DEF ApplyWorkerEvent, Disconnected, SessionTypes
      <3>2. /\ map \in [Sessions -> {"none", "active", "ended"}]
            /\ Listed(map) = Listed(stored) \cup {e.session}
        BY <3>1 DEF Pruned, Listed
      <3> HIDE DEF map
      <3>3. IsFiniteSet(Listed(map))
        BY <3>2, FS_AddElement DEF Pruned
      <3> QED
        BY <3>1, <3>2, <3>3, PruneBounds
    <2>5. CASE e.type \notin SessionTypes
      BY <1>1, <2>2, <2>5 DEF ApplyWorkerEvent, SessionTypes
    <2> QED
      BY <2>3, <2>4, <2>5 DEF SessionTypes
  <1>3. CASE wait
    <2> DEFINE map == CloseRelaySessions(stored)
    <2>1. stored' \in pruneSessions(map)
      BY <1>3 DEF wait
    <2>2. map \in [Sessions -> {"none", "active", "ended"}] /\ Listed(map) = Listed(stored)
      BY DEF Pruned, Listed, CloseRelaySessions
    <2> HIDE DEF map
    <2> QED
      BY <2>1, <2>2, PruneBounds DEF Pruned
  <1>4. CASE \/ \E ip \in Ips : Attempt(ip) \/ Refuse(ip)
             \/ \E s \in Sessions :
                   ExpireAttempt(s) \/ Register(s) \/ CloseDeletes(s) \/ CloseTells(s) \/ SessionStats(s)
    BY <1>1, <1>4 DEF Attempt, Refuse, ExpireAttempt, Register, CloseDeletes, CloseTells, SessionStats, daemon
  <1>5. CASE \/ AcceptRefused \/ Announce \/ Ready \/ Packet \/ Second \/ RelayMetrics
             \/ Exit \/ PipeCloses \/ UNCHANGED vars
    BY <1>1, <1>5 DEF AcceptRefused, Announce, Ready, Packet, Second, RelayMetrics, Exit, PipeCloses,
                      daemon, vars
  <1> QED
    BY <1>2, <1>3, <1>4, <1>5 DEF Next

-----------------------------------------------------------------------------
(* Types *)

\* The clock of the worker's loops and the store's status.
Plain ==
    /\ ready \in BOOLEAN /\ silence \in 0 .. Timeout
    /\ round = NoRound \/ round \subseteq Sessions
    /\ status \in {"starting", "running", "degraded", "error", "stopped"}

LEMMA PlainStep ==
    ASSUME IndInv, Plain, [Next]_vars
    PROVE  Plain'
  <1>0. Timeout \in Nat \ {0}
    BY RelayEventsConstants
  <1>1. CASE Second
    <2>1. silence' = Min({silence + 1, Timeout}) /\ round' = sessions /\ UNCHANGED <<ready, status>>
      BY <1>1 DEF Second, worker, daemon
    <2>2. silence + 1 \in Nat /\ silence \in Nat
      BY <1>0 DEF Plain
    <2>3. silence' \in 0 .. Timeout
      BY <1>0, <2>1, <2>2, MinOfTwo
    <2>4. sessions \subseteq Sessions
      BY DEF IndInv, Shape, Shaken
    <2> QED
      BY <2>1, <2>3, <2>4 DEF Plain
  <1>2. CASE readEvents
    <2>1. UNCHANGED <<ready, silence, round>> /\ ApplyWorkerEvent(Head(events))
      BY <1>2 DEF readEvents, worker, clock
    <2>2. status' = status \/ status' = StatusAfter(Head(events))
      BY <2>1 DEF ApplyWorkerEvent, Connected, Disconnected
    <2>3. status' \in {status, "running", "degraded"}
      BY <2>2 DEF StatusAfter
    <2> QED
      BY <2>1, <2>3 DEF Plain, NoRound
  <1>3. CASE Exit
    <2>1. silence' = 0 /\ round' = NoRound /\ UNCHANGED <<ready, status>>
      BY <1>3 DEF Exit, daemon
    <2> QED
      BY <1>0, <2>1 DEF Plain, NoRound
  <1>4. CASE Packet \/ wait \/ RelayMetrics \/ Ready
    <2>1. /\ ready' \in {ready, TRUE} /\ silence' \in {silence, 0} /\ round' \in {round, NoRound}
          /\ status' \in {status, "error", "stopped"}
      BY <1>4 DEF Packet, wait, RelayMetrics, Ready, worker, clock, daemon
    <2>2. ready' \in BOOLEAN
      BY <2>1, Zenon DEF Plain
    <2>3. silence' \in 0 .. Timeout
      BY <1>0, <2>1 DEF Plain
    <2>4. round' = NoRound \/ round' \subseteq Sessions
      BY <2>1 DEF Plain
    <2>5. status' \in {"starting", "running", "degraded", "error", "stopped"}
      BY <2>1 DEF Plain
    <2> QED
      BY <2>2, <2>3, <2>4, <2>5 DEF Plain, NoRound
  <1>5. CASE \E s \in Sessions : SessionStats(s)
    <2>1. PICK s \in Sessions : /\ round # NoRound /\ round' = round \ {s}
                                /\ UNCHANGED <<ready, silence, status>>
      BY <1>5 DEF SessionStats, worker, daemon
    <2> QED
      BY <2>1 DEF Plain, NoRound
  <1>6. CASE \/ \E ip \in Ips : Attempt(ip) \/ Refuse(ip)
             \/ \E s \in Sessions : ExpireAttempt(s) \/ Register(s) \/ CloseDeletes(s) \/ CloseTells(s)
             \/ AcceptRefused \/ Announce \/ PipeCloses \/ UNCHANGED vars
    <2>1. UNCHANGED <<ready, silence, round, status>>
      BY <1>6 DEF Attempt, Refuse, ExpireAttempt, Register, CloseDeletes, CloseTells, AcceptRefused, Announce,
                  PipeCloses, vars, worker, clock, daemon
    <2> QED
      BY <2>1 DEF Plain, NoRound
  <1> QED
    BY <1>1, <1>2, <1>3, <1>4, <1>5, <1>6 DEF Next

\* The limiter's table, the backlog of emit (beyond the capacity only goroutines
\* with a lifecycle event, each with one: the callback, the accept loop, and for
\* each admitted handshake its timer or the one that closes its session)
\* and the completed sessions of the store (pruneSessionsLocked) keep to their
\* bounds, and every variable to its type.
THEOREM TypeCorrect == Spec => []TypeOK
  <1>1. Init => Pruned(stored) /\ Plain
    <2> SUFFICES ASSUME Init PROVE Pruned(stored) /\ Plain
      OBVIOUS
    <2>1. Listed(stored) = {} /\ Ended(stored) = {} /\ stored \in [Sessions -> {"none", "active", "ended"}]
      BY DEF Init, Listed, Ended
    <2>2. Pruned(stored)
      BY <2>1, FS_EmptySet, RelayEventsConstants DEF Pruned
    <2>3. Plain
      <3>1. 0 \in 0 .. Timeout
        BY RelayEventsConstants
      <3>2. ready = FALSE /\ silence = 0 /\ round = NoRound /\ status = "starting"
        BY DEF Init
      <3> QED
        BY <3>1, <3>2 DEF Plain
    <2> QED
      BY <2>2, <2>3
  <1>2. IndInv /\ Pruned(stored) /\ Plain /\ [Next]_vars => (Pruned(stored) /\ Plain)'
    <2> SUFFICES ASSUME IndInv, Pruned(stored), Plain, [Next]_vars PROVE Pruned(stored') /\ Plain'
      BY DEF Pruned, Listed, Ended
    <2> QED
      BY PrunedStep, PlainStep
  <1>3. IndInv /\ Backlog /\ LimiterInv /\ FloodBounded /\ Pruned(stored) /\ Plain => TypeOK
    <2> SUFFICES ASSUME IndInv, Backlog, LimiterInv, FloodBounded, Pruned(stored), Plain PROVE TypeOK
      OBVIOUS
    <2>1. /\ alive \in BOOLEAN /\ settled \in BOOLEAN
          /\ admitted \subseteq Sessions /\ pending \subseteq admitted /\ used \subseteq admitted
          /\ pending \cap used = {} /\ sessions \subseteq used /\ closing \subseteq used
          /\ accepting \in used \cup {NoSession} /\ over \subseteq Sessions /\ stale \subseteq Sessions
      BY DEF IndInv, Shape, Shaken
    <2>2. /\ events \in Seq(Event) /\ Len(events) <= Capacity + 2 + Cardinality(admitted)
          /\ \A i \in Capacity + 1 .. Len(events) : events[i].type \in Lifecycle
      BY QueueLength DEF Backlog, Queue, Beyond
    <2>3. grants \in [Ips -> [0 .. Window - 1 -> 0 .. 2 * Limit]]
      <3>0. Window \in Nat \ {0} /\ Limit \in Nat \ {0}
        BY RelayEventsConstants
      <3>1. ASSUME NEW ip \in Ips
            PROVE  grants[ip] \in [0 .. Window - 1 -> 0 .. 2 * Limit]
        <4>1. grants[ip] \in Totals /\ grants[ip][Window - 1] < 2 * Limit
          BY DEF LimiterInv, FloodBounded, Recent
        <4>2. /\ grants[ip] \in [0 .. Window - 1 -> Nat] /\ Window - 1 \in 0 .. Window - 1
              /\ \A k \in 0 .. Window - 1 : k <= Window - 1 /\ grants[ip][k] <= grants[ip][Window - 1]
          BY <3>0, <4>1 DEF Totals
        <4>3. \A k \in 0 .. Window - 1 : grants[ip][k] \in 0 .. 2 * Limit
          BY <3>0, <4>1, <4>2
        <4> QED
          BY <4>2, <4>3
      <3> QED
        BY <3>1 DEF LimiterInv
    <2>4. /\ DOMAIN attempts \subseteq Ips /\ Cardinality(DOMAIN attempts) <= MaxTracked
          /\ \A ip \in DOMAIN attempts :
                attempts[ip] \in [age : 0 .. Window, count : 1 .. Limit + 1, reported : BOOLEAN]
      BY DEF LimiterInv, Table, TableEntry
    <2> QED
      BY <2>1, <2>2, <2>3, <2>4 DEF TypeOK, Plain, Pruned, Ended
  <1> QED
    BY <1>1, <1>2, <1>3, AlwaysBacklog, AlwaysLimiter, FloodIsBounded, PTL DEF Spec
=============================================================================

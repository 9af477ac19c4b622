-------------------------- MODULE RelayStoreProofs --------------------------
(***************************************************************************)
(* Proofs about RelayStore, for any ids, request bodies and bounds.  A     *)
(* configuration that one call after another has built, or that load has   *)
(* read back, is Sound; Sound and the types are inductive together, and    *)
(* what was told of a credential is ordered by its versions.               *)
(***************************************************************************)
EXTENDS RelayStore, TLAPS

-----------------------------------------------------------------------------
(* The inductive invariant *)

\* What the calls and load have checked of relays rs and clients cs: each on
\* its own, the clients' relays, the default clients and the endpoints.
SoundRelay(n) ==
    Publish(n) => n.encryption # "" /\ ~n.compat /\ (n.encryption = "aes" => n.version >= 1)

Sound(rs, cs) ==
    /\ \A r \in DOMAIN rs : SoundRelay(rs[r]) /\ DefaultServes(r, rs[r], cs)
    /\ \A c \in DOMAIN cs : /\ cs[c].relays # {} /\ cs[c].relays \subseteq DOMAIN rs
                            /\ ~(cs[c].encryption = "none" /\ cs[c].open)
    /\ \A r, o \in DOMAIN rs :
          r # o /\ Listener(rs[r]) /\ Listener(rs[o]) => rs[r].endpoint # rs[o].endpoint

\* A call is under way, and memory is in use, only while the store is up; the
\* response is sent after the rename.
Running ==
    /\ mode # "up" => relays = Empty /\ clients = Empty /\ stage = "idle"
    /\ stage = "idle" => reply = {}
    /\ stage = "reply" => file.relays = relays /\ file.clients = clients

Configured == TypeOK /\ Running /\ Sound(relays, clients) /\ Sound(file.relays, file.clients)

\* A version that was told is no newer than that of its relay or client in the
\* file and, while the store is up, in memory, unless that was created since.
ToldIn(rs, cs) ==
    \A t \in told : <<t[1], t[2]>> \notin anew =>
       /\ t[1] = "relay" /\ t[2] \in DOMAIN rs => rs[t[2]].version >= t[3]
       /\ t[1] = "client" /\ t[2] \in DOMAIN cs => cs[t[2]].version >= t[3]

\* What a response will tell is the version in memory, newer than any told.
ReplyIsNew ==
    \A n \in reply :
       /\ n[1] = "relay" => n[2] \in DOMAIN relays /\ relays[n[2]].version = n[3]
       /\ n[1] = "client" => n[2] \in DOMAIN clients /\ clients[n[2]].version = n[3]
       /\ \A t \in told : t[1] = n[1] /\ t[2] = n[2] /\ <<n[1], n[2]>> \notin anew => t[3] < n[3]

VersionsGrow ==
    /\ ToldIn(file.relays, file.clients)
    /\ mode = "up" => ToldIn(relays, clients)
    /\ ReplyIsNew

\* Every key of the configuration rs, cs was told, is lost, or is in creds.
KeysKnown(rs, cs, creds) ==
    /\ \A r \in DOMAIN rs : KeyedRelay(rs[r]) =>
          \/ Given("relay", r, rs[r].version) \/ <<"relay", r>> \in lost
          \/ <<"relay", r, rs[r].version>> \in creds
    /\ \A c \in DOMAIN cs : cs[c].encryption = "aes" =>
          \/ Given("client", c, cs[c].version) \/ <<"client", c>> \in lost
          \/ <<"client", c, cs[c].version>> \in creds

\* The keys of memory are known while the store is up, those of the file while
\* it is not.
KeysTold ==
    /\ mode = "up" => KeysKnown(relays, clients, reply)
    /\ mode # "up" => KeysKnown(file.relays, file.clients, {})
-----------------------------------------------------------------------------
(* The helpers *)

\* Put changes one id; all others stay.
LEMMA PutFacts ==
    ASSUME NEW f, NEW D, NEW V, Partial(f, D, V), NEW k \in D, NEW v \in V
    PROVE  /\ Partial(Put(f, k, v), D, V)
           /\ DOMAIN Put(f, k, v) = DOMAIN f \cup {k}
           /\ Put(f, k, v)[k] = v
           /\ \A x \in DOMAIN f \ {k} : Put(f, k, v)[x] = f[x]
  BY DEF Partial, Put

\* Drop removes one id; all others stay.
LEMMA DropFacts ==
    ASSUME NEW f, NEW D, NEW V, Partial(f, D, V), NEW k
    PROVE  /\ Partial(Drop(f, k), D, V)
           /\ DOMAIN Drop(f, k) = DOMAIN f \ {k}
           /\ \A x \in DOMAIN f \ {k} : Drop(f, k)[x] = f[x]
  BY DEF Partial, Drop, Restrict

\* The empty map.
LEMMA EmptyFacts ==
    ASSUME NEW D, NEW V
    PROVE  Partial(Empty, D, V) /\ DOMAIN Empty = {}
  BY DEF Partial, Empty

\* The defaults of a number.
LEMMA NumberFacts ==
    /\ \A v \in Nat : AtLeastOne(v) \in Nat /\ AtLeastOne(v) >= 1 /\ AtLeastOne(v) >= v
                      /\ (v >= 1 => AtLeastOne(v) = v)
    /\ \A v, d \in Int : Defaulted(v, d) \in Int
    /\ \A v, d \in Int : v # 0 => Defaulted(v, d) = v
  BY DEF AtLeastOne, Defaulted

\* What normalizeRelay does to each field.
LEMMA NormalRelayFields ==
    ASSUME NEW q \in RelayBody
    PROVE  LET n == NormalRelay(q)
               p == q.direction = "publish"
           IN  /\ n \in RelayBody
               /\ n.direction = IF q.direction = "" THEN "listener" ELSE q.direction
               /\ n.encryption = IF p /\ q.encryption = "" THEN "aes" ELSE q.encryption
               /\ n.version = IF p THEN AtLeastOne(q.version) ELSE q.version
               /\ n.compat = (~p /\ q.compat)
               /\ n.default = IF ~p /\ q.compat THEN q.default ELSE NoClient
               /\ n.timeout = Defaulted(q.timeout, 10)
               /\ n.input = q.input /\ n.endpoint = q.endpoint /\ n.enabled = q.enabled
  <1> DEFINE p == q.direction = "publish"
             d == IF q.direction = "" THEN "listener" ELSE q.direction
             e == IF p /\ q.encryption = "" THEN "aes" ELSE q.encryption
             v == IF p THEN AtLeastOne(q.version) ELSE q.version
             m == ~p /\ q.compat
             f == IF ~p /\ q.compat THEN q.default ELSE NoClient
             t == Defaulted(q.timeout, 10)
  <1>1. NormalRelay(q) = [q EXCEPT !.direction = d, !.encryption = e, !.version = v,
                                   !.compat = m, !.default = f, !.timeout = t]
    BY DEF NormalRelay
  <1>2. /\ q.direction \in {"", "listener", "publish"} /\ q.encryption \in Encryptions
        /\ q.version \in Nat /\ q.timeout \in Int /\ q.default \in ClientIds \cup {NoClient}
    BY DEF RelayBody
  <1>3. d \in {"listener", "publish"} /\ e \in Encryptions
    BY <1>2 DEF Encryptions
  <1>4. v \in Nat
    BY <1>2, NumberFacts
  <1>5. t \in Int
    <2>1. q.timeout \in Int
      BY <1>2
    <2> QED
      BY <2>1 DEF Defaulted
  <1>6. m \in BOOLEAN /\ f \in ClientIds \cup {NoClient}
    BY <1>2
  <1> HIDE DEF p, d, e, v, m, f, t
  <1>7. NormalRelay(q) \in RelayBody
    BY <1>1, <1>3, <1>4, <1>5, <1>6 DEF RelayBody
  <1>8. LET n == NormalRelay(q)
        IN  /\ n.direction = d /\ n.encryption = e /\ n.version = v
            /\ n.compat = m /\ n.default = f /\ n.timeout = t
            /\ n.input = q.input /\ n.endpoint = q.endpoint /\ n.enabled = q.enabled
    BY <1>1 DEF RelayBody
  <1> QED
    BY <1>7, <1>8 DEF p, d, e, v, m, f, t

\* What normalizeClientLocked does to each field.
LEMMA NormalClientFields ==
    ASSUME NEW q \in ClientBody
    PROVE  LET n == NormalClient(q)
           IN  /\ n \in ClientBody
               /\ n.encryption = IF q.encryption = "" THEN "aes" ELSE q.encryption
               /\ n.limit = Defaulted(q.limit, 1)
               /\ n.version = AtLeastOne(q.version)
               /\ n.relays = q.relays /\ n.open = q.open /\ n.cidrs = q.cidrs /\ n.enabled = q.enabled
  <1> DEFINE e == IF q.encryption = "" THEN "aes" ELSE q.encryption
             l == Defaulted(q.limit, 1)
             v == AtLeastOne(q.version)
  <1>1. NormalClient(q) = [q EXCEPT !.encryption = e, !.limit = l, !.version = v]
    BY DEF NormalClient
  <1>2. q.encryption \in Encryptions /\ q.limit \in Int /\ q.version \in Nat
    BY DEF ClientBody
  <1>3. e \in Encryptions
    BY <1>2 DEF Encryptions
  <1>4. l \in Int
    BY <1>2 DEF Defaulted
  <1>5. v \in Nat
    BY <1>2, NumberFacts
  <1> HIDE DEF e, l, v
  <1>6. NormalClient(q) \in ClientBody
    BY <1>1, <1>3, <1>4, <1>5 DEF ClientBody
  <1>7. LET n == NormalClient(q)
        IN  /\ n.encryption = e /\ n.limit = l /\ n.version = v
            /\ n.relays = q.relays /\ n.open = q.open /\ n.cidrs = q.cidrs /\ n.enabled = q.enabled
    BY <1>1 DEF ClientBody
  <1> QED
    BY <1>6, <1>7 DEF e, l, v

\* A relay is its fields.
LEMMA RelayFields ==
    ASSUME NEW n \in RelayBody
    PROVE  n = [direction |-> n.direction, endpoint |-> n.endpoint, encryption |-> n.encryption,
                compat |-> n.compat, default |-> n.default, timeout |-> n.timeout,
                input |-> n.input, version |-> n.version, enabled |-> n.enabled]
  BY DEF RelayBody

\* A client is its fields.
LEMMA ClientFields ==
    ASSUME NEW n \in ClientBody
    PROVE  n = [relays |-> n.relays, encryption |-> n.encryption, open |-> n.open,
                cidrs |-> n.cidrs, limit |-> n.limit, enabled |-> n.enabled, version |-> n.version]
  BY DEF ClientBody

\* What is stored is a body.
LEMMA StoredIsBody == StoredRelay \subseteq RelayBody /\ StoredClient \subseteq ClientBody
  <1>1. /\ 3..300 \subseteq Int /\ 1..1000 \subseteq Int
        /\ 0..MaxVersion \subseteq Nat /\ 1..MaxVersion \subseteq Nat
    BY VersionAssumption
  <1>2. /\ {"listener", "publish"} \subseteq {"", "listener", "publish"}
        /\ {"aes", "none"} \subseteq Encryptions
        /\ {"valid"} \subseteq {"valid", "invalid"}
    BY DEF Encryptions
  <1>3. ASSUME NEW n \in StoredRelay PROVE n \in RelayBody
    BY <1>1, <1>2 DEF StoredRelay, RelayBody
  <1>4. ASSUME NEW n \in StoredClient PROVE n \in ClientBody
    BY <1>1, <1>2 DEF StoredClient, ClientBody
  <1> QED
    BY <1>3, <1>4

\* A body with the ranges of a stored relay is one.
LEMMA RelayIsStored ==
    ASSUME NEW n \in RelayBody, n.direction \in {"listener", "publish"}, n.input = "valid",
           n.timeout \in 3..300, n.version \in 0..MaxVersion
    PROVE  n \in StoredRelay
  <1>1. n = [direction |-> n.direction, endpoint |-> n.endpoint, encryption |-> n.encryption,
             compat |-> n.compat, default |-> n.default, timeout |-> n.timeout, input |-> n.input,
             version |-> n.version, enabled |-> n.enabled]
    BY DEF RelayBody
  <1>2. /\ n.endpoint \in Nat /\ n.encryption \in Encryptions /\ n.compat \in BOOLEAN
        /\ n.default \in ClientIds \cup {NoClient} /\ n.enabled \in BOOLEAN
    BY DEF RelayBody
  <1> QED
    BY <1>1, <1>2 DEF StoredRelay

\* A body with the ranges of a stored client is one.
LEMMA ClientIsStored ==
    ASSUME NEW n \in ClientBody, n.encryption \in {"aes", "none"}, n.cidrs = "valid",
           n.limit \in 1..1000, n.version \in 1..MaxVersion
    PROVE  n \in StoredClient
  <1>1. n = [relays |-> n.relays, encryption |-> n.encryption, open |-> n.open, cidrs |-> n.cidrs,
             limit |-> n.limit, enabled |-> n.enabled, version |-> n.version]
    BY DEF ClientBody
  <1>2. n.relays \in SUBSET RelayIds /\ n.open \in BOOLEAN /\ n.enabled \in BOOLEAN
    BY DEF ClientBody
  <1> QED
    BY <1>1, <1>2 DEF StoredClient
-----------------------------------------------------------------------------
(* Sound configurations *)

\* No other listener of rs has the endpoint of n.
Apart(rs, id, n) ==
    \A o \in DOMAIN rs \ {id} : ~(Listener(n) /\ Listener(rs[o]) /\ n.endpoint = rs[o].endpoint)

\* A relay that is put on its id, checked as UpsertRelay does.
LEMMA SoundPutRelay ==
    ASSUME NEW rs, NEW cs, Partial(rs, RelayIds, StoredRelay), Sound(rs, cs),
           NEW id \in RelayIds, NEW n \in StoredRelay,
           SoundRelay(n), DefaultServes(id, n, cs),
           Apart(rs, id, n)
    PROVE  Partial(Put(rs, id, n), RelayIds, StoredRelay) /\ Sound(Put(rs, id, n), cs)
  <1> DEFINE new == Put(rs, id, n)
  <1>1. /\ Partial(new, RelayIds, StoredRelay)
        /\ DOMAIN new = DOMAIN rs \cup {id}
        /\ new[id] = n
        /\ \A x \in DOMAIN rs \ {id} : new[x] = rs[x]
    <2>1. \A x \in DOMAIN rs \ {id} : new[x] = rs[x]
      BY DEF Put
    <2> QED
      BY <2>1, PutFacts
  <1> HIDE DEF new
  <1>2. \A r \in DOMAIN new : SoundRelay(new[r]) /\ DefaultServes(r, new[r], cs)
    BY <1>1 DEF Sound
  <1>3. \A c \in DOMAIN cs : /\ cs[c].relays # {} /\ cs[c].relays \subseteq DOMAIN new
                             /\ ~(cs[c].encryption = "none" /\ cs[c].open)
    BY <1>1 DEF Sound
  <1>4. ASSUME NEW r \in DOMAIN new, NEW o \in DOMAIN new,
               r # o, Listener(new[r]), Listener(new[o])
        PROVE  new[r].endpoint # new[o].endpoint
    BY <1>1, <1>4 DEF Sound, Apart
  <1>5. Sound(new, cs)
    BY <1>2, <1>3, <1>4 DEF Sound
  <1> QED
    BY <1>1, <1>5 DEF new

\* A relay that no client names is dropped.
LEMMA SoundDropRelay ==
    ASSUME NEW rs, NEW cs, Partial(rs, RelayIds, StoredRelay), Sound(rs, cs),
           NEW id, \A c \in DOMAIN cs : id \notin cs[c].relays
    PROVE  Partial(Drop(rs, id), RelayIds, StoredRelay) /\ Sound(Drop(rs, id), cs)
  <1> DEFINE new == Drop(rs, id)
  <1>1. /\ Partial(new, RelayIds, StoredRelay)
        /\ DOMAIN new = DOMAIN rs \ {id}
        /\ \A x \in DOMAIN rs \ {id} : new[x] = rs[x]
    BY DropFacts
  <1> HIDE DEF new
  <1>2. Sound(new, cs)
    BY <1>1 DEF Sound
  <1> QED
    BY <1>1, <1>2 DEF new

\* A client that is put on its id and that still serves the relays it is the
\* default of.
LEMMA SoundPutClient ==
    ASSUME NEW rs, NEW cs, Partial(cs, ClientIds, StoredClient), Sound(rs, cs),
           NEW id \in ClientIds, NEW n \in StoredClient,
           n.relays # {}, n.relays \subseteq DOMAIN rs, ~(n.encryption = "none" /\ n.open),
           \A r \in DOMAIN rs : rs[r].compat /\ rs[r].default = id => n.enabled /\ r \in n.relays
    PROVE  Partial(Put(cs, id, n), ClientIds, StoredClient) /\ Sound(rs, Put(cs, id, n))
  <1> DEFINE new == Put(cs, id, n)
  <1>1. /\ Partial(new, ClientIds, StoredClient)
        /\ DOMAIN new = DOMAIN cs \cup {id}
        /\ new[id] = n
        /\ \A x \in DOMAIN cs \ {id} : new[x] = cs[x]
    BY PutFacts
  <1> HIDE DEF new
  <1>2. ASSUME NEW r \in DOMAIN rs PROVE SoundRelay(rs[r]) /\ DefaultServes(r, rs[r], new)
    BY <1>1 DEF Sound, DefaultServes
  <1>3. \A c \in DOMAIN new : /\ new[c].relays # {} /\ new[c].relays \subseteq DOMAIN rs
                              /\ ~(new[c].encryption = "none" /\ new[c].open)
    BY <1>1 DEF Sound
  <1>4. Sound(rs, new)
    BY <1>2, <1>3 DEF Sound
  <1> QED
    BY <1>1, <1>4 DEF new

\* A client that is no relay's default is dropped.
LEMMA SoundDropClient ==
    ASSUME NEW rs, NEW cs, Partial(cs, ClientIds, StoredClient), Sound(rs, cs),
           NEW id, \A r \in DOMAIN rs : ~(rs[r].compat /\ rs[r].default = id)
    PROVE  Partial(Drop(cs, id), ClientIds, StoredClient) /\ Sound(rs, Drop(cs, id))
  <1> DEFINE new == Drop(cs, id)
  <1>1. /\ Partial(new, ClientIds, StoredClient)
        /\ DOMAIN new = DOMAIN cs \ {id}
        /\ \A x \in DOMAIN cs \ {id} : new[x] = cs[x]
    BY DropFacts
  <1> HIDE DEF new
  <1>2. Sound(rs, new)
    BY <1>1 DEF Sound, DefaultServes
  <1> QED
    BY <1>1, <1>2 DEF new

\* load leaves a stored relay as it is, but for a version zero of a publisher
\* without encryption and the default client of a relay that uses none.
LEMMA LoadedRelay ==
    ASSUME NEW n \in StoredRelay, SoundRelay(n)
    PROVE  LET m == NormalRelay(n)
           IN  /\ m \in StoredRelay /\ SoundRelay(m)
               /\ m.direction = n.direction /\ m.endpoint = n.endpoint
               /\ m.encryption = n.encryption /\ m.compat = n.compat
               /\ m.compat => m.default = n.default
               /\ m.version >= n.version
               /\ KeyedRelay(m) <=> KeyedRelay(n)
               /\ KeyedRelay(n) => m.version = n.version
               /\ m.version = n.version \/ Publish(n)
               /\ NormalRelay(m) = m
  <1> DEFINE m == NormalRelay(n)
             k == NormalRelay(m)
  <1>0. n \in RelayBody
    BY StoredIsBody
  <1>1. /\ n.direction \in {"listener", "publish"} /\ n.encryption \in Encryptions
        /\ n.version \in 0..MaxVersion /\ n.timeout \in 3..300 /\ n.input = "valid"
    BY DEF StoredRelay
  <1>2. n.compat \in BOOLEAN
    BY DEF StoredRelay
  <1>3. /\ m \in RelayBody
        /\ m.direction = IF n.direction = "" THEN "listener" ELSE n.direction
        /\ m.encryption = IF Publish(n) /\ n.encryption = "" THEN "aes" ELSE n.encryption
        /\ m.version = IF Publish(n) THEN AtLeastOne(n.version) ELSE n.version
        /\ m.compat = (~Publish(n) /\ n.compat)
        /\ m.default = IF ~Publish(n) /\ n.compat THEN n.default ELSE NoClient
        /\ m.timeout = Defaulted(n.timeout, 10)
        /\ m.input = n.input /\ m.endpoint = n.endpoint /\ m.enabled = n.enabled
    BY <1>0, NormalRelayFields DEF Publish
  <1>4. m.direction = n.direction /\ m.encryption = n.encryption
    BY <1>1, <1>3 DEF SoundRelay
  <1>5. m.compat = n.compat
    BY <1>2, <1>3 DEF SoundRelay
  <1>6. m.timeout = n.timeout
    <2>1. n.timeout # 0
      BY <1>1
    <2> QED
      BY <1>3, <2>1 DEF Defaulted
  <1>7. /\ m.version \in 0..MaxVersion /\ m.version >= n.version
        /\ Publish(n) => m.version >= 1
        /\ n.version >= 1 => m.version = n.version
        /\ m.version = n.version \/ Publish(n)
    <2>1. n.version \in 0..MaxVersion
      BY <1>1
    <2>2. m.version = n.version \/ (Publish(n) /\ m.version = AtLeastOne(n.version))
      BY <1>3
    <2>3. Publish(n) => m.version = AtLeastOne(n.version)
      BY <1>3
    <2> QED
      BY <2>1, <2>2, <2>3, VersionAssumption DEF AtLeastOne
  <1>8. /\ k \in RelayBody
        /\ k.direction = IF m.direction = "" THEN "listener" ELSE m.direction
        /\ k.encryption = IF Publish(m) /\ m.encryption = "" THEN "aes" ELSE m.encryption
        /\ k.version = IF Publish(m) THEN AtLeastOne(m.version) ELSE m.version
        /\ k.compat = (~Publish(m) /\ m.compat)
        /\ k.default = IF ~Publish(m) /\ m.compat THEN m.default ELSE NoClient
        /\ k.timeout = Defaulted(m.timeout, 10)
        /\ k.input = m.input /\ k.endpoint = m.endpoint /\ k.enabled = m.enabled
    BY <1>3, NormalRelayFields DEF Publish
  <1> HIDE DEF m, k
  <1>9. m \in StoredRelay
    BY <1>1, <1>3, <1>4, <1>6, <1>7, RelayIsStored
  <1>10. SoundRelay(m)
    BY <1>4, <1>5, <1>7 DEF SoundRelay, Publish
  <1>11. /\ KeyedRelay(m) <=> KeyedRelay(n)
         /\ KeyedRelay(n) => m.version = n.version
    BY <1>4, <1>7 DEF KeyedRelay, Publish, SoundRelay
  <1>12. m.compat => m.default = n.default
    BY <1>3, <1>5 DEF SoundRelay
  <1>13. k = m
    <2>1. k.direction = m.direction /\ k.encryption = m.encryption
      BY <1>1, <1>4, <1>8, <1>10 DEF SoundRelay
    <2>2. k.compat = m.compat
      BY <1>2, <1>5, <1>8, <1>10 DEF SoundRelay
    <2>3. k.default = m.default
      BY <1>3, <1>4, <1>5, <1>8 DEF Publish
    <2>4. k.timeout = m.timeout
      <3>1. m.timeout # 0
        BY <1>1, <1>6
      <3> QED
        BY <1>8, <3>1 DEF Defaulted
    <2>5. k.version = m.version
      <3>1. m.version \in 0..MaxVersion /\ (Publish(m) => m.version >= 1)
        BY <1>4, <1>7 DEF Publish
      <3>2. k.version = m.version \/ (Publish(m) /\ k.version = AtLeastOne(m.version))
        BY <1>8
      <3> QED
        BY <3>1, <3>2 DEF AtLeastOne
    <2>6. k.input = m.input /\ k.endpoint = m.endpoint /\ k.enabled = m.enabled
      BY <1>8
    <2> QED
      BY <1>3, <1>8, <2>1, <2>2, <2>3, <2>4, <2>5, <2>6, RelayFields
  <1> QED
    BY <1>3, <1>4, <1>5, <1>7, <1>9, <1>10, <1>11, <1>12, <1>13 DEF m, k

\* load leaves a stored client as it is.
LEMMA LoadedClient ==
    ASSUME NEW n \in StoredClient
    PROVE  NormalClient(n) = n
  <1> DEFINE m == NormalClient(n)
  <1>1. n \in ClientBody
    BY StoredIsBody
  <1>2. n.encryption \in {"aes", "none"} /\ n.limit \in 1..1000 /\ n.version \in 1..MaxVersion
    BY DEF StoredClient
  <1>3. /\ m \in ClientBody
        /\ m.encryption = IF n.encryption = "" THEN "aes" ELSE n.encryption
        /\ m.limit = Defaulted(n.limit, 1)
        /\ m.version = AtLeastOne(n.version)
        /\ m.relays = n.relays /\ m.open = n.open /\ m.cidrs = n.cidrs /\ m.enabled = n.enabled
    BY <1>1, NormalClientFields
  <1> HIDE DEF m
  <1>4. m.encryption = n.encryption
    BY <1>2, <1>3
  <1>5. m.limit = n.limit
    <2>1. n.limit # 0
      BY <1>2
    <2> QED
      BY <1>3, <2>1 DEF Defaulted
  <1>6. m.version = n.version
    <2>1. n.version \in Nat /\ n.version >= 1
      BY <1>2, VersionAssumption
    <2> QED
      BY <1>3, <2>1, NumberFacts
  <1>7. m = n
    BY <1>1, <1>3, <1>4, <1>5, <1>6, ClientFields
  <1> QED
    BY <1>7 DEF m
-----------------------------------------------------------------------------
(* Every call keeps the configuration sound *)

\* Relays and clients that are stored and sound.
Proper(rs, cs) ==
    /\ Partial(rs, RelayIds, StoredRelay)
    /\ Partial(cs, ClientIds, StoredClient)
    /\ Sound(rs, cs)

\* What UpsertRelay stores: the normalised body, with the version that the relay
\* had, and a new one when it becomes an encrypted publisher.
LEMMA RelayToStoreFacts ==
    ASSUME Proper(relays, clients), NEW id \in RelayIds, NEW q \in RelayRequests,
           RelayAccepted(NormalRelay(q)), RelayToStore(id, NormalRelay(q)).version <= MaxVersion
    PROVE  LET n == NormalRelay(q)
               s == RelayToStore(id, n)
           IN  /\ s \in StoredRelay /\ SoundRelay(s)
               /\ s.direction = n.direction /\ s.endpoint = n.endpoint
               /\ s.compat = n.compat /\ s.default = n.default
               /\ KeyedRelay(s) <=> KeyedRelay(n)
               /\ id \in DOMAIN relays =>
                     /\ s.version >= relays[id].version
                     /\ KeyedRelay(relays[id]) => s.version = relays[id].version
                     /\ KeyedRelay(n) /\ ~KeyedRelay(relays[id]) => s.version > relays[id].version
  <1> DEFINE n == NormalRelay(q)
             s == RelayToStore(id, n)
             p == q.direction = "publish"
  <1>0. q \in RelayBody
    BY RequestsAssumption
  <1>1. q.version \in Nat /\ q.direction \in {"", "listener", "publish"}
    BY <1>0 DEF RelayBody
  <1>2. /\ n \in RelayBody
        /\ n.direction = IF q.direction = "" THEN "listener" ELSE q.direction
        /\ n.encryption = IF p /\ q.encryption = "" THEN "aes" ELSE q.encryption
        /\ n.version = IF p THEN AtLeastOne(q.version) ELSE q.version
        /\ n.compat = (~p /\ q.compat)
    BY <1>0, NormalRelayFields
  <1>3. n.direction \in {"listener", "publish"} /\ (Publish(n) <=> p)
    BY <1>1, <1>2 DEF Publish
  <1>4. n.version \in Nat /\ (p => n.version >= 1)
    <2>1. AtLeastOne(q.version) \in Nat /\ AtLeastOne(q.version) >= 1
      BY <1>1, NumberFacts
    <2> QED
      BY <1>1, <1>2, <2>1
  <1>5. n.input = "valid" /\ n.timeout \in 3..300
    BY DEF RelayAccepted
  <1>6. Publish(n) => n.encryption # "" /\ ~n.compat
    BY <1>2, <1>3
  <1> HIDE DEF n
  <1>7. CASE id \notin DOMAIN relays
    <2>1. s = n
      BY <1>7 DEF RelayToStore
    <2>2. n.version <= MaxVersion
      BY <2>1 DEF n
    <2>3. n.version \in 0..MaxVersion
      BY <1>4, <2>2, VersionAssumption
    <2>4. n \in StoredRelay
      BY <1>2, <1>3, <1>5, <2>3, RelayIsStored
    <2>5. SoundRelay(n)
      BY <1>3, <1>4, <1>6 DEF SoundRelay
    <2> QED
      BY <1>7, <2>1, <2>4, <2>5 DEF n
  <1>8. CASE id \in DOMAIN relays
    <2> DEFINE v == relays[id].version + IF KeyedRelay(n) /\ ~KeyedRelay(relays[id]) THEN 1 ELSE 0
    <2>1. s = [n EXCEPT !.version = v]
      BY <1>8 DEF RelayToStore
    <2>2. relays[id] \in StoredRelay /\ SoundRelay(relays[id])
      BY <1>8 DEF Proper, Partial, Sound
    <2>3. relays[id].version \in 0..MaxVersion
      BY <2>2 DEF StoredRelay
    <2>4. v \in Nat
      BY <2>3, VersionAssumption
    <2>5. /\ v >= relays[id].version
          /\ KeyedRelay(relays[id]) => v = relays[id].version
          /\ KeyedRelay(n) /\ ~KeyedRelay(relays[id]) => v > relays[id].version
      BY <2>3, VersionAssumption
    <2>6. KeyedRelay(n) => v >= 1
      <3>1. KeyedRelay(relays[id]) => relays[id].version >= 1
        BY <2>2 DEF SoundRelay, KeyedRelay
      <3> QED
        BY <2>3, <2>4, <2>5, <3>1, VersionAssumption
    <2> HIDE DEF v
    <2>7. s \in RelayBody
      BY <1>2, <2>1, <2>4 DEF RelayBody
    <2>8. /\ s.direction = n.direction /\ s.endpoint = n.endpoint
          /\ s.compat = n.compat /\ s.default = n.default
          /\ s.encryption = n.encryption /\ s.timeout = n.timeout /\ s.input = n.input
          /\ s.version = v
      BY <1>2, <2>1 DEF RelayBody
    <2>9. v <= MaxVersion
      BY <2>8 DEF n
    <2> HIDE DEF s
    <2>10. s.version \in 0..MaxVersion
      BY <2>4, <2>8, <2>9, VersionAssumption
    <2>11. s \in StoredRelay
      BY <1>3, <1>5, <2>7, <2>8, <2>10, RelayIsStored
    <2>12. KeyedRelay(s) <=> KeyedRelay(n)
      BY <2>8 DEF KeyedRelay, Publish
    <2>13. SoundRelay(s)
      BY <1>6, <2>6, <2>8 DEF SoundRelay, Publish, KeyedRelay
    <2> QED
      BY <2>5, <2>8, <2>11, <2>12, <2>13 DEF s, n
  <1> QED
    BY <1>7, <1>8

\* UpsertRelay.
LEMMA ProperUpsertRelay ==
    ASSUME Proper(relays, clients), NEW id \in RelayIds, NEW q \in RelayRequests, UpsertRelay(id, q)
    PROVE  Proper(relays', clients') /\ reply' \subseteq Credential
  <1> DEFINE n == NormalRelay(q)
             s == RelayToStore(id, n)
  <1>1. /\ RelayAccepted(n) /\ EndpointFree(id, n) /\ DefaultServes(id, n, clients)
        /\ s.version <= MaxVersion
        /\ relays' = Put(relays, id, s) /\ clients' = clients
        /\ reply' \subseteq {<<"relay", id, s.version>>}
    BY DEF UpsertRelay, Saves
  <1>2. /\ s \in StoredRelay /\ SoundRelay(s)
        /\ s.direction = n.direction /\ s.endpoint = n.endpoint
        /\ s.compat = n.compat /\ s.default = n.default
    BY <1>1, RelayToStoreFacts
  <1> HIDE DEF n, s
  <1>3. DefaultServes(id, s, clients) /\ Apart(relays, id, s)
    BY <1>1, <1>2 DEF DefaultServes, Apart, EndpointFree, Listener
  <1>4. s.version \in Nat
    BY <1>2, StoredIsBody DEF RelayBody
  <1>5. Partial(relays, RelayIds, StoredRelay) /\ Sound(relays, clients)
    BY DEF Proper
  <1>6. Partial(relays', RelayIds, StoredRelay) /\ Sound(relays', clients)
    BY <1>1, <1>2, <1>3, <1>5, SoundPutRelay
  <1> QED
    BY <1>1, <1>4, <1>6 DEF Proper, Credential

\* RotateRelayKey.
LEMMA ProperRotateRelay ==
    ASSUME Proper(relays, clients), NEW id \in RelayIds, RotateRelayKey(id)
    PROVE  /\ Proper(relays', clients') /\ reply' \subseteq Credential
           /\ DOMAIN relays' = DOMAIN relays
           /\ relays'[id].version = relays[id].version + 1
           /\ \A r \in DOMAIN relays \ {id} : relays'[r] = relays[r]
  <1> DEFINE o == relays[id]
             s == [o EXCEPT !.version = @ + 1]
  <1>1. /\ id \in DOMAIN relays /\ o.version < MaxVersion
        /\ Publish(o)
        /\ relays' = [relays EXCEPT ![id].version = @ + 1] /\ clients' = clients
        /\ reply' = {<<"relay", id, o.version + 1>>}
    BY DEF RotateRelayKey, Saves
  <1>2. o \in StoredRelay /\ SoundRelay(o) /\ DefaultServes(id, o, clients)
    BY <1>1 DEF Proper, Partial, Sound
  <1>3. o.version \in 0..MaxVersion
    BY <1>2 DEF StoredRelay
  <1>4. o.version + 1 \in 0..MaxVersion /\ o.version + 1 \in Nat /\ o.version + 1 >= 1
    BY <1>1, <1>3, VersionAssumption
  <1>5. /\ s \in StoredRelay /\ s.version = o.version + 1
        /\ s.direction = o.direction /\ s.endpoint = o.endpoint /\ s.encryption = o.encryption
        /\ s.compat = o.compat /\ s.default = o.default
    BY <1>2, <1>4 DEF StoredRelay
  <1>6. relays' = Put(relays, id, s)
    BY <1>1 DEF Put, Proper, Partial
  <1> HIDE DEF s
  <1>7. SoundRelay(s) /\ DefaultServes(id, s, clients)
    BY <1>2, <1>4, <1>5 DEF SoundRelay, DefaultServes, Publish
  <1>8. Apart(relays, id, s)
    BY <1>1, <1>5 DEF Apart, Listener, Publish
  <1>9. Partial(relays', RelayIds, StoredRelay) /\ Sound(relays', clients)
    BY <1>2, <1>5, <1>6, <1>7, <1>8, SoundPutRelay DEF Proper
  <1>10. Proper(relays', clients') /\ reply' \subseteq Credential
    BY <1>1, <1>4, <1>9 DEF Proper, Credential
  <1>11. /\ DOMAIN relays' = DOMAIN relays
         /\ relays'[id].version = relays[id].version + 1
         /\ \A r \in DOMAIN relays \ {id} : relays'[r] = relays[r]
    BY <1>1, <1>5, <1>6 DEF Put
  <1> QED
    BY <1>10, <1>11

\* DeleteRelay.
LEMMA ProperDeleteRelay ==
    ASSUME Proper(relays, clients), NEW id \in RelayIds, DeleteRelay(id)
    PROVE  Proper(relays', clients') /\ reply' \subseteq Credential
  BY SoundDropRelay DEF Proper, DeleteRelay, Saves
\* What UpsertClient stores: the normalised body with the version the client
\* had, and a new one when its encryption is turned on.
LEMMA UpsertClientFacts ==
    ASSUME Proper(relays, clients), NEW id \in ClientIds, NEW q \in ClientRequests, UpsertClient(id, q)
    PROVE  \E s \in StoredClient :
             /\ clients' = Put(clients, id, s) /\ relays' = relays
             /\ s.relays # {} /\ s.relays \subseteq DOMAIN relays
             /\ ~(s.encryption = "none" /\ s.open)
             /\ StaysDefault(id, s)
             /\ id \in DOMAIN clients => s.version >= clients[id].version
             /\ \/ /\ reply' = {<<"client", id, s.version>>}
                   /\ id \in DOMAIN clients => s.version > clients[id].version
                \/ /\ reply' = {}
                   /\ s.encryption = "aes" =>
                         /\ id \in DOMAIN clients /\ clients[id].encryption = "aes"
                         /\ s.version = clients[id].version
  <1> DEFINE b == [q EXCEPT !.version = VersionOf(id)]
             n == NormalClient(b)
             turned == id \in DOMAIN clients /\ clients[id].encryption = "none" /\ n.encryption = "aes"
             s == IF turned THEN [n EXCEPT !.version = @ + 1] ELSE n
             issues == n.encryption = "aes" /\ (id \notin DOMAIN clients \/ turned)
  <1>1. /\ ClientAccepted(n, relays) /\ StaysDefault(id, n)
        /\ s.version <= MaxVersion
        /\ clients' = Put(clients, id, s) /\ relays' = relays
        /\ reply' = IF issues THEN {<<"client", id, s.version>>} ELSE {}
    BY DEF UpsertClient, Saves
  <1>2. id \in DOMAIN clients => clients[id] \in StoredClient
    BY DEF Proper, Partial
  <1>3. id \in DOMAIN clients => /\ clients[id].version \in 1..MaxVersion
                                 /\ clients[id].encryption \in {"aes", "none"}
    BY <1>2 DEF StoredClient
  <1>4. VersionOf(id) \in Nat /\ VersionOf(id) >= 1
    BY <1>3, VersionAssumption DEF VersionOf
  <1>5. q \in ClientBody
    BY RequestsAssumption
  <1>6. b \in ClientBody /\ b.version = VersionOf(id)
    BY <1>4, <1>5 DEF ClientBody
  <1> HIDE DEF b
  <1>7. /\ n \in ClientBody
        /\ n.encryption = IF b.encryption = "" THEN "aes" ELSE b.encryption
        /\ n.version = AtLeastOne(b.version)
    BY <1>6, NormalClientFields
  <1>8. n.version = VersionOf(id)
    BY <1>4, <1>6, <1>7, NumberFacts
  <1>9. n.encryption \in {"aes", "none"}
    <2>1. b.encryption \in Encryptions
      BY <1>6 DEF ClientBody
    <2> QED
      BY <1>7, <2>1 DEF Encryptions
  <1> HIDE DEF n
  <1>10. s \in ClientBody /\ s.relays = n.relays /\ s.encryption = n.encryption /\ s.open = n.open
         /\ s.cidrs = n.cidrs /\ s.limit = n.limit /\ s.enabled = n.enabled
    <2>1. CASE turned
      <3>1. n.version + 1 \in Nat
        BY <1>4, <1>8
      <3> QED
        BY <1>7, <2>1, <3>1 DEF ClientBody
    <2>2. CASE ~turned
      BY <1>7, <2>2
    <2> QED
      BY <2>1, <2>2
  <1>11. s.version = IF turned THEN n.version + 1 ELSE n.version
    BY <1>7 DEF ClientBody
  <1> HIDE DEF s
  <1>12. s.version \in 1..MaxVersion
    <2>1. s.version = n.version + 1 \/ s.version = n.version
      BY <1>11
    <2> QED
      BY <1>1, <1>4, <1>8, <2>1, VersionAssumption
  <1>13. s \in StoredClient
    BY <1>1, <1>9, <1>10, <1>12, ClientIsStored DEF ClientAccepted
  <1>14. /\ s.relays # {} /\ s.relays \subseteq DOMAIN relays
         /\ ~(s.encryption = "none" /\ s.open)
         /\ StaysDefault(id, s)
    BY <1>1, <1>10 DEF ClientAccepted, StaysDefault
  <1>15. id \in DOMAIN clients => /\ s.version >= clients[id].version
                                  /\ turned => s.version > clients[id].version
                                  /\ ~turned => s.version = clients[id].version
    <2>1. id \in DOMAIN clients => n.version = clients[id].version
      BY <1>8 DEF VersionOf
    <2> QED
      BY <1>3, <1>11, <2>1
  <1>16. \/ /\ reply' = {<<"client", id, s.version>>}
            /\ id \in DOMAIN clients => s.version > clients[id].version
         \/ /\ reply' = {}
            /\ s.encryption = "aes" => /\ id \in DOMAIN clients /\ clients[id].encryption = "aes"
                                       /\ s.version = clients[id].version
    BY <1>1, <1>3, <1>10, <1>15
  <1> QED
    BY <1>1, <1>13, <1>14, <1>15, <1>16

\* CreateClient and UpsertClient.
LEMMA ProperUpsertClient ==
    ASSUME Proper(relays, clients), NEW id \in ClientIds, NEW q \in ClientRequests, UpsertClient(id, q)
    PROVE  Proper(relays', clients') /\ reply' \subseteq Credential
  <1>1. PICK s \in StoredClient :
             /\ clients' = Put(clients, id, s) /\ relays' = relays
             /\ s.relays # {} /\ s.relays \subseteq DOMAIN relays
             /\ ~(s.encryption = "none" /\ s.open)
             /\ StaysDefault(id, s)
             /\ reply' \subseteq {<<"client", id, s.version>>}
    BY UpsertClientFacts
  <1>2. \A r \in DOMAIN relays : relays[r].compat /\ relays[r].default = id => s.enabled /\ r \in s.relays
    BY <1>1 DEF StaysDefault, DefaultOf
  <1>3. Partial(clients', ClientIds, StoredClient) /\ Sound(relays, clients')
    BY <1>1, <1>2, SoundPutClient DEF Proper
  <1>4. s.version \in Nat
    BY StoredIsBody DEF ClientBody
  <1> QED
    BY <1>1, <1>3, <1>4 DEF Proper, Credential

\* RotateClientKey.
LEMMA ProperRotateClient ==
    ASSUME Proper(relays, clients), NEW id \in ClientIds, RotateClientKey(id)
    PROVE  /\ Proper(relays', clients') /\ reply' \subseteq Credential
           /\ DOMAIN clients' = DOMAIN clients
           /\ clients'[id].version = clients[id].version + 1
           /\ \A c \in DOMAIN clients \ {id} : clients'[c] = clients[c]
  <1> DEFINE o == clients[id]
             s == [o EXCEPT !.version = @ + 1]
  <1>1. /\ id \in DOMAIN clients /\ o.version < MaxVersion
        /\ clients' = [clients EXCEPT ![id].version = @ + 1] /\ relays' = relays
        /\ reply' = {<<"client", id, o.version + 1>>}
    BY DEF RotateClientKey, Saves
  <1>2. o \in StoredClient
    BY <1>1 DEF Proper, Partial
  <1>3. o.version \in 1..MaxVersion
    BY <1>2 DEF StoredClient
  <1>4. o.version + 1 \in 1..MaxVersion /\ o.version + 1 \in Nat
    BY <1>1, <1>3, VersionAssumption
  <1>5. /\ s \in StoredClient /\ s.version = o.version + 1
        /\ s.relays = o.relays /\ s.encryption = o.encryption
        /\ s.open = o.open /\ s.enabled = o.enabled
    BY <1>2, <1>4 DEF StoredClient
  <1>6. clients' = Put(clients, id, s)
    BY <1>1 DEF Put, Proper, Partial
  <1> HIDE DEF s
  <1>7. /\ s.relays # {} /\ s.relays \subseteq DOMAIN relays
        /\ ~(s.encryption = "none" /\ s.open)
    BY <1>1, <1>5 DEF Proper, Sound
  <1>8. \A r \in DOMAIN relays : relays[r].compat /\ relays[r].default = id => s.enabled /\ r \in s.relays
    BY <1>5 DEF Proper, Sound, DefaultServes
  <1>9. Partial(clients', ClientIds, StoredClient) /\ Sound(relays, clients')
    BY <1>5, <1>6, <1>7, <1>8, SoundPutClient DEF Proper
  <1>10. Proper(relays', clients') /\ reply' \subseteq Credential
    BY <1>1, <1>4, <1>9 DEF Proper, Credential
  <1>11. /\ DOMAIN clients' = DOMAIN clients
         /\ clients'[id].version = clients[id].version + 1
         /\ \A c \in DOMAIN clients \ {id} : clients'[c] = clients[c]
    BY <1>1, <1>5, <1>6 DEF Put
  <1> QED
    BY <1>10, <1>11

\* DeleteClient.
LEMMA ProperDeleteClient ==
    ASSUME Proper(relays, clients), NEW id \in ClientIds, DeleteClient(id)
    PROVE  Proper(relays', clients') /\ reply' \subseteq Credential
  <1>1. \A r \in DOMAIN relays : ~(relays[r].compat /\ relays[r].default = id)
    BY DEF DeleteClient, DefaultOf
  <1> QED
    BY <1>1, SoundDropClient DEF Proper, DeleteClient, Saves

\* load gives a proper configuration, and accepts the file unless a client is
\* assigned to a publisher.
LEMMA ProperLoaded ==
    ASSUME NEW f, f = [relays |-> f.relays, clients |-> f.clients], Proper(f.relays, f.clients)
    PROVE  /\ Proper(Loaded(f).relays, Loaded(f).clients)
           /\ DOMAIN Loaded(f).relays = DOMAIN f.relays
           /\ \A r \in DOMAIN f.relays : Loaded(f).relays[r] = NormalRelay(f.relays[r])
           /\ Loaded(f).clients = f.clients
           /\ Loaded(Loaded(f)) = Loaded(f)
           /\ ~LoadAccepts(f) => Stranded(f) # {}
  <1> DEFINE rs == f.relays
             cs == f.clients
             N == [r \in DOMAIN rs |-> NormalRelay(rs[r])]
  <1>1. /\ Partial(rs, RelayIds, StoredRelay) /\ Partial(cs, ClientIds, StoredClient)
        /\ Sound(rs, cs)
    BY DEF Proper
  <1>2. cs = [c \in DOMAIN cs |-> cs[c]] /\ \A c \in DOMAIN cs : cs[c] \in StoredClient
    BY <1>1 DEF Partial
  <1>3. [c \in DOMAIN cs |-> NormalClient(cs[c])] = cs
    BY <1>2, LoadedClient
  <1>4. Loaded(f) = [relays |-> N, clients |-> cs]
    BY <1>3 DEF Loaded
  <1>5. ASSUME NEW r \in DOMAIN rs
        PROVE  /\ rs[r] \in StoredRelay /\ SoundRelay(rs[r]) /\ DefaultServes(r, rs[r], cs)
               /\ N[r] = NormalRelay(rs[r]) /\ N[r] \in StoredRelay /\ SoundRelay(N[r])
               /\ N[r].direction = rs[r].direction /\ N[r].endpoint = rs[r].endpoint
               /\ N[r].compat = rs[r].compat
               /\ N[r].compat => N[r].default = rs[r].default
               /\ NormalRelay(N[r]) = N[r]
    <2>1. rs[r] \in StoredRelay /\ SoundRelay(rs[r]) /\ DefaultServes(r, rs[r], cs)
      BY <1>1 DEF Partial, Sound
    <2>2. N[r] = NormalRelay(rs[r])
      OBVIOUS
    <2> QED
      BY <2>1, <2>2, LoadedRelay
  <1>6. DOMAIN N = DOMAIN rs
    OBVIOUS
  <1> HIDE DEF N, rs, cs
  <1>7. Partial(N, RelayIds, StoredRelay)
    BY <1>1, <1>5 DEF Partial, N
  <1>8. \A r \in DOMAIN N : SoundRelay(N[r]) /\ DefaultServes(r, N[r], cs)
    BY <1>5, <1>6 DEF DefaultServes
  <1>9. Sound(N, cs)
    <2>1. ASSUME NEW r \in DOMAIN N, NEW o \in DOMAIN N, r # o, Listener(N[r]), Listener(N[o])
          PROVE  N[r].endpoint # N[o].endpoint
      BY <1>1, <1>5, <1>6, <2>1 DEF Sound, Listener
    <2>2. \A c \in DOMAIN cs : /\ cs[c].relays # {} /\ cs[c].relays \subseteq DOMAIN N
                               /\ ~(cs[c].encryption = "none" /\ cs[c].open)
      BY <1>1, <1>6 DEF Sound
    <2> QED
      BY <1>8, <2>1, <2>2 DEF Sound
  <1>10. Loaded(Loaded(f)) = Loaded(f)
    <2>1. [r \in DOMAIN N |-> NormalRelay(N[r])] = N
      BY <1>5, <1>6 DEF N
    <2>2. Loaded([relays |-> N, clients |-> cs]) = [relays |-> N, clients |-> cs]
      BY <1>3, <2>1 DEF Loaded
    <2> QED
      BY <1>4, <2>2
  <1>11. ASSUME Stranded(f) = {} PROVE LoadAccepts(f)
    <2>1. ASSUME NEW r \in DOMAIN N
          PROVE  RelayAccepted(N[r]) /\ DefaultServes(r, N[r], cs)
      <3>1. N[r].input = "valid" /\ N[r].timeout \in 3..300
        BY <1>5, <1>6 DEF StoredRelay
      <3>2. DefaultServes(r, N[r], cs)
        BY <1>8
      <3>3. N[r].compat => N[r].default \in ClientIds
        BY <1>1, <3>2 DEF DefaultServes, Partial
      <3> QED
        BY <3>1, <3>2, <3>3 DEF RelayAccepted
    <2>2. ASSUME NEW c \in DOMAIN cs
          PROVE  ClientAccepted(cs[c], N)
      <3>1. cs[c].cidrs = "valid" /\ cs[c].limit \in 1..1000
        BY <1>2 DEF StoredClient
      <3>2. /\ cs[c].relays # {} /\ cs[c].relays \subseteq DOMAIN N
            /\ ~(cs[c].encryption = "none" /\ cs[c].open)
        BY <1>9 DEF Sound
      <3>3. ASSUME NEW r \in cs[c].relays PROVE Listener(N[r])
        <4>1. r \in DOMAIN rs /\ ~Publish(rs[r])
          BY <1>6, <1>11, <3>2 DEF Stranded, rs, cs
        <4>2. N[r].direction = rs[r].direction /\ rs[r].direction \in {"listener", "publish"}
          BY <1>5, <4>1 DEF StoredRelay
        <4> QED
          BY <4>1, <4>2 DEF Listener, Publish
      <3> QED
        BY <3>1, <3>2, <3>3 DEF ClientAccepted
    <2>3. Loaded(f).relays = N /\ Loaded(f).clients = cs
      BY <1>4
    <2> QED
      BY <2>1, <2>2, <2>3 DEF LoadAccepts
  <1>12. Loaded(f).relays = N /\ Loaded(f).clients = cs
    BY <1>4
  <1> QED
    BY <1>1, <1>5, <1>6, <1>7, <1>9, <1>10, <1>11, <1>12 DEF Proper, rs, cs

-----------------------------------------------------------------------------
(* The configuration invariant *)

\* The history keeps its types.
LEMMA IdsType ==
    ASSUME NEW S \in SUBSET Credential
    PROVE  Ids(S) \subseteq Named
  BY DEF Ids, Credential, Named

\* So does what a crash undoes.
LEMMA UndoneType ==
    ASSUME TypeOK
    PROVE  Undone \subseteq Named
  BY DEF Undone, TypeOK, Partial, Named

\* It holds of an empty directory.
LEMMA ConfiguredInit == Init => Configured
  <1> SUFFICES ASSUME Init PROVE Configured
    OBVIOUS
  <1>1. /\ relays = Empty /\ clients = Empty
        /\ file.relays = Empty /\ file.clients = Empty
        /\ file = [relays |-> file.relays, clients |-> file.clients]
        /\ mode = "down" /\ masterKey = FALSE /\ stage = "idle" /\ reply = {}
        /\ failures = 0 /\ told = {} /\ lost = {} /\ anew = {}
    BY DEF Init
  <1>2. Sound(Empty, Empty)
    BY EmptyFacts DEF Sound
  <1>3. TypeOK
    <2>1. /\ Partial(relays, RelayIds, StoredRelay) /\ Partial(clients, ClientIds, StoredClient)
          /\ Partial(file.relays, RelayIds, StoredRelay) /\ Partial(file.clients, ClientIds, StoredClient)
      BY <1>1, EmptyFacts
    <2>2. failures \in 0..MaxFailures
      BY <1>1, FailuresAssumption
    <2>3. masterKey \in BOOLEAN
      BY <1>1
    <2> QED
      BY <1>1, <2>1, <2>2, <2>3 DEF TypeOK
  <1> QED
    BY <1>1, <1>2, <1>3 DEF Configured, Running

\* A call.
LEMMA ConfiguredCall ==
    ASSUME Configured, Call
    PROVE  Configured'
  <1>1. Proper(relays, clients)
    BY DEF Configured, TypeOK, Proper
  <1>2. Proper(relays', clients') /\ reply' \subseteq Credential
    BY <1>1, ProperUpsertRelay, ProperRotateRelay, ProperDeleteRelay,
       ProperUpsertClient, ProperRotateClient, ProperDeleteClient DEF Call
  <1>3. mode = "up" /\ stage' = "save" /\ UNCHANGED <<disk, mode, failures>>
    BY DEF Call, UpsertRelay, RotateRelayKey, DeleteRelay, UpsertClient, RotateClientKey, DeleteClient,
           Saves, Ready
  <1>4. told' = told /\ lost' \subseteq lost /\ anew' \subseteq anew \cup Ids(told)
    BY DEF Call, UpsertRelay, RotateRelayKey, DeleteRelay, UpsertClient, RotateClientKey, DeleteClient,
           Creates, history
  <1>5. TypeOK'
    BY <1>2, <1>3, <1>4, IdsType DEF Configured, TypeOK, Proper, disk
  <1>6. Running'
    BY <1>3 DEF Running
  <1>7. Sound(relays', clients') /\ Sound(file'.relays, file'.clients)
    BY <1>2, <1>3 DEF Proper, Configured, disk
  <1> QED
    BY <1>5, <1>6, <1>7 DEF Configured

\* The save and the response.
LEMMA ConfiguredSave ==
    ASSUME Configured, SaveRenames \/ SaveFails \/ Reply
    PROVE  Configured'
  <1>1. CASE SaveRenames
    <2>1. /\ file' = [relays |-> relays, clients |-> clients] /\ stage' = "reply"
          /\ stage = "save"
          /\ UNCHANGED <<config, mode, masterKey, reply, failures, history>>
      BY <1>1 DEF SaveRenames
    <2>2. file'.relays = relays /\ file'.clients = clients
      BY <2>1
    <2>3. TypeOK'
      BY <2>1, <2>2 DEF Configured, TypeOK, config, history
    <2>4. Running'
      BY <2>1, <2>2 DEF Configured, Running, config
    <2> QED
      BY <2>1, <2>2, <2>3, <2>4 DEF Configured, config
  <1>2. CASE SaveFails
    <2>1. /\ UNCHANGED <<config, disk, mode, told, anew>> /\ stage' = "idle" /\ reply' = {}
          /\ lost' = lost \cup Ids(reply) /\ failures < MaxFailures /\ failures' = failures + 1
      BY <1>2 DEF SaveFails, DiskFails
    <2>2. lost' \subseteq Named
      BY <2>1, IdsType DEF Configured, TypeOK
    <2>3. failures' \in 0..MaxFailures
      BY <2>1, FailuresAssumption DEF Configured, TypeOK
    <2>4. TypeOK'
      BY <2>1, <2>2, <2>3 DEF Configured, TypeOK, config, disk
    <2> QED
      BY <2>1, <2>4 DEF Configured, Running, config, disk
  <1>3. CASE Reply
    <2>1. /\ UNCHANGED <<config, disk, mode, failures>> /\ stage' = "idle" /\ reply' = {}
          /\ told' \subseteq told \cup reply /\ lost' \subseteq lost
      BY <1>3 DEF Reply
    <2>2. anew' \subseteq anew
      BY <1>3 DEF Reply
    <2>3. TypeOK'
      BY <2>1, <2>2 DEF Configured, TypeOK, config, disk
    <2> QED
      BY <2>1, <2>3 DEF Configured, Running, config, disk
  <1> QED
    BY <1>1, <1>2, <1>3

\* A restart and the end of the process.
LEMMA ConfiguredProcess ==
    ASSUME Configured, NewStore \/ Crash
    PROVE  Configured'
  <1>1. CASE NewStore
    <2>1. mode = "down" /\ UNCHANGED <<file, stage, reply, history>>
      BY <1>1 DEF NewStore
    <2>2. mode' = "fallback" \/ mode' = "up"
      BY <1>1 DEF NewStore
    <2>3. failures' \in 0..MaxFailures
      BY <1>1, FailuresAssumption DEF NewStore, DiskFails, Configured, TypeOK
    <2>4. masterKey' \in BOOLEAN
      BY <1>1 DEF NewStore, Configured, TypeOK
    <2>5. \/ mode' = "fallback" /\ UNCHANGED config
          \/ mode' = "up" /\ relays' = Loaded(file).relays /\ clients' = Loaded(file).clients
      BY <1>1 DEF NewStore, config
    <2>6. Proper(relays', clients')
      BY <2>5, ProperLoaded DEF Proper, Configured, TypeOK, config
    <2>7. TypeOK'
      BY <2>1, <2>2, <2>3, <2>4, <2>6 DEF Configured, TypeOK, history, Proper
    <2>8. Running'
      BY <2>1, <2>5 DEF Configured, Running, config
    <2> QED
      BY <2>1, <2>6, <2>7, <2>8 DEF Configured, Proper
  <1>2. CASE Crash
    <2>1. /\ mode' = "down" /\ relays' = Empty /\ clients' = Empty /\ stage' = "idle" /\ reply' = {}
          /\ UNCHANGED <<disk, failures, told, anew>>
      BY <1>2 DEF Crash
    <2>2. lost' \subseteq Named
      BY <1>2, IdsType, UndoneType DEF Crash, Configured, TypeOK
    <2>3. Proper(Empty, Empty)
      BY EmptyFacts DEF Proper, Sound
    <2>4. TypeOK'
      BY <2>1, <2>2, <2>3 DEF Configured, TypeOK, disk, Proper
    <2> QED
      BY <2>1, <2>3, <2>4 DEF Configured, Running, disk, Proper
  <1> QED
    BY <1>1, <1>2

\* Every step.
LEMMA ConfiguredStep == Configured /\ [Next]_vars => Configured'
  <1>1. ASSUME Configured, UNCHANGED vars PROVE Configured'
    BY <1>1 DEF vars, config, disk, history, Configured, TypeOK, Running
  <1> QED
    BY <1>1, ConfiguredCall, ConfiguredSave, ConfiguredProcess DEF Next

\* Every state.
LEMMA AlwaysConfigured == Spec => []Configured
  BY ConfiguredInit, ConfiguredStep, PTL DEF Spec
-----------------------------------------------------------------------------
(* Theorems about the configuration *)

\* Memory and file hold only normalised relays and clients, whatever was sent.
THEOREM TypeCorrect == Spec => []TypeOK
  BY AlwaysConfigured, PTL DEF Configured

\* README.md:223-225: newWorker accepts what a worker would be handed, in every
\* state of the store, and no two listeners need one endpoint, in memory or in
\* the file (UpsertRelay, UpsertClient and DeleteClient keep each other's
\* checks true; load brings them back).
THEOREM WorkersCanStart == Spec => []WorkerCanStart
  <1>1. Configured => WorkerCanStart
    <2> SUFFICES ASSUME Configured PROVE WorkerCanStart
      OBVIOUS
    <2>1. ASSUME NEW r \in DOMAIN relays PROVE NewWorkerAccepts(r)
      <3>1. relays[r] \in StoredRelay /\ SoundRelay(relays[r]) /\ DefaultServes(r, relays[r], clients)
        BY DEF Configured, TypeOK, Partial, Sound
      <3>2. relays[r].timeout \in 3..300 /\ relays[r].direction \in {"listener", "publish"}
        BY <3>1 DEF StoredRelay
      <3>3. relays[r].compat => Listener(relays[r])
        BY <3>1, <3>2 DEF SoundRelay, Listener, Publish
      <3>4. relays[r].compat => relays[r].default \in WorkerClients(r)
        BY <3>1 DEF DefaultServes, WorkerClients
      <3> QED
        BY <3>2, <3>3, <3>4 DEF NewWorkerAccepts
    <2>2. ASSUME NEW rs \in {relays, file.relays}, NEW r \in DOMAIN rs, NEW o \in DOMAIN rs,
                 r # o, Listener(rs[r]), Listener(rs[o])
          PROVE  rs[r].endpoint # rs[o].endpoint
      <3>1. CASE rs = relays
        BY <2>2, <3>1 DEF Configured, Sound
      <3>2. CASE rs = file.relays
        BY <2>2, <3>2 DEF Configured, Sound
      <3> QED
        BY <3>1, <3>2
    <2> QED
      BY <2>1, <2>2 DEF WorkerCanStart
  <1> QED
    BY <1>1, AlwaysConfigured, PTL

\* load accepts every file that the store has written, but for one with a
\* client that is assigned to a publisher (store.go: load, UpsertRelay).
THEOREM FilesLoad == Spec => []OnlyStrandedRejected
  <1>1. Configured => OnlyStrandedRejected
    <2> SUFFICES ASSUME Configured PROVE OnlyStrandedRejected
      OBVIOUS
    <2>1. Proper(file.relays, file.clients) /\ file = [relays |-> file.relays, clients |-> file.clients]
      BY DEF Configured, TypeOK, Proper
    <2>2. ~LoadAccepts(file) => Stranded(file) # {}
      BY <2>1, ProperLoaded
    <2>3. \A c \in DOMAIN file.clients : file.clients[c].relays \subseteq DOMAIN file.relays
      BY <2>1 DEF Proper, Sound
    <2> QED
      BY <2>2, <2>3 DEF OnlyStrandedRejected
  <1> QED
    BY <1>1, AlwaysConfigured, PTL

-----------------------------------------------------------------------------
(* The store implements DurableStore *)

\* The refinement mapping, by its parts.
Mem == Loaded([relays |-> relays, clients |-> clients])
Phase == IF mode # "up" THEN "down"
         ELSE CASE stage = "idle"   -> "idle"
                [] stage = "save"   -> "changed"
                [] stage = "reply"  -> "saved"

\* Each step is a step of DurableStore or leaves its variables alone.
LEMMA DurableStep ==
    ASSUME Configured, Configured', [Next]_vars
    PROVE  [Durable!Next]_<<Mem, Loaded(file), Phase>>
  <1>1. CASE UNCHANGED vars
    BY <1>1 DEF vars, config, disk, Mem, Phase
  <1>2. CASE Call
    <2>1. mode = "up" /\ stage = "idle" /\ stage' = "save" /\ UNCHANGED <<file, mode>>
      BY <1>2 DEF Call, UpsertRelay, RotateRelayKey, DeleteRelay, UpsertClient, RotateClientKey,
                  DeleteClient, Saves, Ready, disk
    <2>2. Durable!Change
      BY <2>1 DEF Durable!Change
    <2> QED
      BY <2>2 DEF Durable!Next
  <1>3. CASE SaveRenames
    <2>1. /\ stage = "save" /\ stage' = "reply" /\ UNCHANGED <<relays, clients, mode>>
          /\ file' = [relays |-> relays, clients |-> clients]
      BY <1>3 DEF SaveRenames, config
    <2>2. mode = "up"
      BY <2>1 DEF Configured, Running
    <2>3. Durable!Commit
      BY <2>1, <2>2 DEF Durable!Commit
    <2> QED
      BY <2>3 DEF Durable!Next
  <1>4. CASE SaveFails
    <2>1. stage = "save" /\ stage' = "idle" /\ UNCHANGED <<relays, clients, mode, file>>
      BY <1>4 DEF SaveFails, config, disk
    <2>2. mode = "up"
      BY <2>1 DEF Configured, Running
    <2>3. Durable!Reject
      BY <2>1, <2>2 DEF Durable!Reject
    <2> QED
      BY <2>3 DEF Durable!Next
  <1>5. CASE Reply
    <2>1. stage = "reply" /\ stage' = "idle" /\ UNCHANGED <<relays, clients, mode, file>>
      BY <1>5 DEF Reply, config, disk
    <2>2. mode = "up"
      BY <2>1 DEF Configured, Running
    <2>3. Durable!Confirm
      BY <2>1, <2>2 DEF Durable!Confirm
    <2> QED
      BY <2>3 DEF Durable!Next
  <1>6. CASE NewStore
    <2>1. mode = "down" /\ stage = "idle" /\ UNCHANGED <<file, stage>>
      BY <1>6 DEF NewStore, Configured, Running
    <2>2. CASE mode' = "fallback"
      <3>1. UNCHANGED <<relays, clients>>
        BY <1>6, <2>2 DEF NewStore, config
      <3> QED
        BY <2>1, <2>2, <3>1 DEF Mem, Phase
    <2>3. CASE mode' # "fallback"
      <3>1. mode' = "up" /\ relays' = Loaded(file).relays /\ clients' = Loaded(file).clients
        BY <1>6, <2>3 DEF NewStore
      <3>2. [relays |-> relays', clients |-> clients'] = Loaded(file)
        BY <3>1 DEF Loaded
      <3>3. Loaded(Loaded(file)) = Loaded(file)
        BY ProperLoaded DEF Configured, TypeOK, Proper
      <3>4. Durable!Recover
        BY <2>1, <3>1, <3>2, <3>3 DEF Durable!Recover
      <3> QED
        BY <3>4 DEF Durable!Next
    <2> QED
      BY <2>2, <2>3
  <1>7. CASE Crash
    <2>1. mode' = "down" /\ stage' = "idle" /\ UNCHANGED file /\ relays' = Empty /\ clients' = Empty
      BY <1>7 DEF Crash, disk
    <2>2. CASE mode = "up"
      <3>1. Durable!Crash
        BY <2>1, <2>2 DEF Durable!Crash, Configured, TypeOK
      <3> QED
        BY <3>1 DEF Durable!Next
    <2>3. CASE mode # "up"
      BY <2>1, <2>3 DEF Configured, Running, Mem, Phase
    <2> QED
      BY <2>2, <2>3
  <1> QED
    BY <1>1, <1>2, <1>3, <1>4, <1>5, <1>6, <1>7 DEF Next

\* What is answered as saved is what a restart finds, and a restart finds one
\* whole configuration: the store implements DurableStore (saveLocked, load and
\* the calls that hold the mutex around it).
THEOREM StoreIsDurable == Spec => IsDurable
  <1>1. Init => Durable!Init
    BY DEF Init, Durable!Init
  <1>2. Configured /\ Configured' /\ [Next]_vars => [Durable!Next]_(Durable!vars)
    BY DurableStep DEF Durable!vars, Mem, Phase
  <1> QED
    BY <1>1, <1>2, AlwaysConfigured, PTL DEF Spec, IsDurable, Durable!Spec
-----------------------------------------------------------------------------
(* Credentials *)

\* What a call does to one relay, for the credentials: v is its new version, in
\* the response or not.
ChangesRelay(id) ==
    /\ DOMAIN relays' = DOMAIN relays \cup {id} /\ clients' = clients
    /\ \A r \in DOMAIN relays \ {id} : relays'[r] = relays[r]
    /\ id \in DOMAIN relays => relays'[id].version >= relays[id].version
    /\ \/ /\ reply' = {<<"relay", id, relays'[id].version>>}
          /\ id \in DOMAIN relays => relays'[id].version > relays[id].version
       \/ /\ reply' = {}
          /\ KeyedRelay(relays'[id]) =>
                /\ id \in DOMAIN relays /\ KeyedRelay(relays[id])
                /\ relays'[id].version = relays[id].version

\* The same for a client.
ChangesClient(id) ==
    /\ DOMAIN clients' = DOMAIN clients \cup {id} /\ relays' = relays
    /\ \A c \in DOMAIN clients \ {id} : clients'[c] = clients[c]
    /\ id \in DOMAIN clients => clients'[id].version >= clients[id].version
    /\ \/ /\ reply' = {<<"client", id, clients'[id].version>>}
          /\ id \in DOMAIN clients => clients'[id].version > clients[id].version
       \/ /\ reply' = {}
          /\ clients'[id].encryption = "aes" =>
                /\ id \in DOMAIN clients /\ clients[id].encryption = "aes"
                /\ clients'[id].version = clients[id].version

\* The history of a call that creates or changes a relay or client.
Marks(kind, id, map) == told' = told /\ lost' = lost /\ Creates(kind, id, map)

\* Every call changes one relay or client, or deletes one.
LEMMA CallChanges ==
    ASSUME Configured, Call
    PROVE  \/ \E id \in RelayIds : ChangesRelay(id) /\ Marks("relay", id, relays)
           \/ \E id \in ClientIds : ChangesClient(id) /\ Marks("client", id, clients)
           \/ \E id \in RelayIds : DeleteRelay(id)
           \/ \E id \in ClientIds : DeleteClient(id)
  <1>1. Proper(relays, clients)
    BY DEF Configured, TypeOK, Proper
  <1>2. Partial(relays, RelayIds, StoredRelay) /\ Partial(clients, ClientIds, StoredClient)
    BY <1>1 DEF Proper
  <1>3. ASSUME NEW id \in RelayIds, NEW q \in RelayRequests, UpsertRelay(id, q)
        PROVE  ChangesRelay(id) /\ Marks("relay", id, relays)
    <2> DEFINE n == NormalRelay(q)
               s == RelayToStore(id, n)
               issues == KeyedRelay(n) /\ (id \in DOMAIN relays => ~KeyedRelay(relays[id]))
    <2>1. /\ RelayAccepted(n) /\ s.version <= MaxVersion
          /\ relays' = Put(relays, id, s) /\ clients' = clients
          /\ reply' = IF issues THEN {<<"relay", id, s.version>>} ELSE {}
          /\ Marks("relay", id, relays)
      BY <1>3 DEF UpsertRelay, Saves, Marks
    <2>2. /\ s \in StoredRelay
          /\ KeyedRelay(s) <=> KeyedRelay(n)
          /\ id \in DOMAIN relays =>
                /\ s.version >= relays[id].version
                /\ KeyedRelay(relays[id]) => s.version = relays[id].version
                /\ KeyedRelay(n) /\ ~KeyedRelay(relays[id]) => s.version > relays[id].version
      BY <1>1, <2>1, RelayToStoreFacts
    <2> HIDE DEF s
    <2>3. /\ DOMAIN relays' = DOMAIN relays \cup {id}
          /\ relays'[id] = s
          /\ \A r \in DOMAIN relays \ {id} : relays'[r] = relays[r]
      BY <2>1 DEF Put
    <2> HIDE DEF n
    <2> QED
      BY <2>1, <2>2, <2>3 DEF ChangesRelay
  <1>4. ASSUME NEW id \in RelayIds, RotateRelayKey(id)
        PROVE  ChangesRelay(id) /\ Marks("relay", id, relays)
    <2>1. /\ id \in DOMAIN relays /\ clients' = clients
          /\ reply' = {<<"relay", id, relays[id].version + 1>>} /\ Marks("relay", id, relays)
      BY <1>4 DEF RotateRelayKey, Saves, Marks, Creates, history
    <2>2. /\ DOMAIN relays' = DOMAIN relays
          /\ relays'[id].version = relays[id].version + 1
          /\ \A r \in DOMAIN relays \ {id} : relays'[r] = relays[r]
      BY <1>1, <1>4, ProperRotateRelay
    <2>3. relays[id] \in StoredRelay
      BY <1>2, <2>1 DEF Partial
    <2>4. relays[id].version \in Nat
      BY <2>3, StoredIsBody DEF RelayBody
    <2> QED
      BY <2>1, <2>2, <2>4 DEF ChangesRelay
  <1>5. ASSUME NEW id \in ClientIds, NEW q \in ClientRequests, UpsertClient(id, q)
        PROVE  ChangesClient(id) /\ Marks("client", id, clients)
    <2>1. PICK s \in StoredClient :
             /\ clients' = Put(clients, id, s) /\ relays' = relays
             /\ id \in DOMAIN clients => s.version >= clients[id].version
             /\ \/ /\ reply' = {<<"client", id, s.version>>}
                   /\ id \in DOMAIN clients => s.version > clients[id].version
                \/ /\ reply' = {}
                   /\ s.encryption = "aes" =>
                         /\ id \in DOMAIN clients /\ clients[id].encryption = "aes"
                         /\ s.version = clients[id].version
      BY <1>1, <1>5, UpsertClientFacts
    <2>2. /\ DOMAIN clients' = DOMAIN clients \cup {id}
          /\ clients'[id] = s
          /\ \A c \in DOMAIN clients \ {id} : clients'[c] = clients[c]
      BY <2>1 DEF Put
    <2>3. Marks("client", id, clients)
      BY <1>5 DEF UpsertClient, Marks
    <2> QED
      BY <2>1, <2>2, <2>3 DEF ChangesClient
  <1>6. ASSUME NEW id \in ClientIds, RotateClientKey(id)
        PROVE  ChangesClient(id) /\ Marks("client", id, clients)
    <2>1. /\ id \in DOMAIN clients /\ relays' = relays
          /\ reply' = {<<"client", id, clients[id].version + 1>>} /\ Marks("client", id, clients)
      BY <1>6 DEF RotateClientKey, Saves, Marks, Creates, history
    <2>2. /\ DOMAIN clients' = DOMAIN clients
          /\ clients'[id].version = clients[id].version + 1
          /\ \A c \in DOMAIN clients \ {id} : clients'[c] = clients[c]
      BY <1>1, <1>6, ProperRotateClient
    <2>3. clients[id] \in StoredClient
      BY <1>2, <2>1 DEF Partial
    <2>4. clients[id].version \in Nat
      BY <2>3, StoredIsBody DEF ClientBody
    <2>5. /\ DOMAIN clients' = DOMAIN clients \cup {id}
          /\ clients'[id].version > clients[id].version
          /\ reply' = {<<"client", id, clients'[id].version>>}
      BY <2>1, <2>2, <2>4
    <2>6. ChangesClient(id)
      BY <2>1, <2>2, <2>4, <2>5 DEF ChangesClient
    <2> QED
      BY <2>1, <2>6
  <1> QED
    BY <1>3, <1>4, <1>5, <1>6 DEF Call

\* The versions of what is stored, and of credentials, are numbers.
LEMMA VersionTypes ==
    ASSUME NEW rs, NEW cs, Partial(rs, RelayIds, StoredRelay), Partial(cs, ClientIds, StoredClient)
    PROVE  /\ \A r \in DOMAIN rs : rs[r].version \in Nat
           /\ \A c \in DOMAIN cs : cs[c].version \in Nat
  <1>1. /\ \A r \in DOMAIN rs : rs[r] \in RelayBody
        /\ \A c \in DOMAIN cs : cs[c] \in ClientBody
    BY StoredIsBody DEF Partial
  <1> QED
    BY <1>1 DEF RelayBody, ClientBody

\* A credential is the triple of its parts.
LEMMA CredentialParts ==
    ASSUME NEW t \in Credential
    PROVE  /\ t = <<t[1], t[2], t[3]>> /\ t[3] \in Nat
           /\ \/ t[1] = "relay" /\ t[2] \in RelayIds
              \/ t[1] = "client" /\ t[2] \in ClientIds
  BY DEF Credential
\* A call issues a version newer than any told, and takes none back.
LEMMA GrowCall ==
    ASSUME Configured, Configured', VersionsGrow, Call
    PROVE  VersionsGrow'
  <1>1. mode = "up" /\ mode' = "up" /\ file' = file
    BY DEF Call, UpsertRelay, RotateRelayKey, DeleteRelay, UpsertClient, RotateClientKey, DeleteClient,
           Saves, Ready, disk
  <1>2. /\ ToldIn(file.relays, file.clients) /\ ToldIn(relays, clients)
        /\ told \subseteq Credential
    BY <1>1 DEF VersionsGrow, Configured, TypeOK
  <1>3. /\ \A r \in DOMAIN relays : relays[r].version \in Nat
        /\ \A c \in DOMAIN clients : clients[c].version \in Nat
    BY VersionTypes DEF Configured, TypeOK
  <1>4. /\ \A r \in DOMAIN relays' : relays'[r].version \in Nat
        /\ \A c \in DOMAIN clients' : clients'[c].version \in Nat
    BY VersionTypes DEF Configured, TypeOK
  <1>5. \A t \in told : t[3] \in Nat
    BY <1>2, CredentialParts
  <1>6. ASSUME NEW id \in RelayIds, ChangesRelay(id), Marks("relay", id, relays)
        PROVE  VersionsGrow'
    <2>1. /\ told' = told /\ anew \subseteq anew'
          /\ \A t \in told : t[1] = "relay" /\ t[2] = id => id \in DOMAIN relays \/ <<"relay", id>> \in anew'
      BY <1>6 DEF Marks, Creates, Ids
    <2>2. ASSUME NEW t \in told, <<t[1], t[2]>> \notin anew'
          PROVE  /\ t[1] = "relay" /\ t[2] \in DOMAIN relays' => relays'[t[2]].version >= t[3]
                 /\ t[1] = "client" /\ t[2] \in DOMAIN clients' => clients'[t[2]].version >= t[3]
      <3>1. /\ t[1] = "relay" /\ t[2] \in DOMAIN relays => relays[t[2]].version >= t[3]
            /\ t[1] = "client" /\ t[2] \in DOMAIN clients => clients[t[2]].version >= t[3]
        BY <1>2, <2>1, <2>2 DEF ToldIn
      <3>2. t[1] = "relay" /\ t[2] = id => id \in DOMAIN relays
        BY <2>1, <2>2
      <3> QED
        BY <1>3, <1>4, <1>5, <1>6, <3>1, <3>2 DEF ChangesRelay
    <2>3. ReplyIsNew'
      <3> SUFFICES ASSUME NEW n \in reply'
                   PROVE  /\ n[1] = "relay" => n[2] \in DOMAIN relays' /\ relays'[n[2]].version = n[3]
                          /\ n[1] = "client" => n[2] \in DOMAIN clients' /\ clients'[n[2]].version = n[3]
                          /\ \A t \in told : t[1] = n[1] /\ t[2] = n[2] /\ <<n[1], n[2]>> \notin anew' => t[3] < n[3]
        BY <2>1 DEF ReplyIsNew
      <3>1. /\ n = <<"relay", id, relays'[id].version>> /\ id \in DOMAIN relays'
            /\ id \in DOMAIN relays => relays'[id].version > relays[id].version
        BY <1>6 DEF ChangesRelay
      <3>2. n[1] = "relay" /\ n[2] = id /\ n[3] = relays'[id].version
        BY <3>1
      <3>3. ASSUME NEW t \in told, t[1] = n[1], t[2] = n[2], <<n[1], n[2]>> \notin anew' PROVE t[3] < n[3]
        <4>1. id \in DOMAIN relays /\ <<t[1], t[2]>> \notin anew
          BY <2>1, <3>2, <3>3
        <4> QED
          BY <1>2, <1>3, <1>4, <1>5, <3>1, <3>2, <3>3, <4>1 DEF ToldIn
      <3> QED
        BY <3>1, <3>2, <3>3
    <2> QED
      BY <1>1, <1>2, <2>1, <2>2, <2>3 DEF VersionsGrow, ToldIn
  <1>7. ASSUME NEW id \in ClientIds, ChangesClient(id), Marks("client", id, clients)
        PROVE  VersionsGrow'
    <2>1. /\ told' = told /\ anew \subseteq anew'
          /\ \A t \in told : t[1] = "client" /\ t[2] = id => id \in DOMAIN clients \/ <<"client", id>> \in anew'
      BY <1>7 DEF Marks, Creates, Ids
    <2>2. ASSUME NEW t \in told, <<t[1], t[2]>> \notin anew'
          PROVE  /\ t[1] = "relay" /\ t[2] \in DOMAIN relays' => relays'[t[2]].version >= t[3]
                 /\ t[1] = "client" /\ t[2] \in DOMAIN clients' => clients'[t[2]].version >= t[3]
      <3>1. /\ t[1] = "relay" /\ t[2] \in DOMAIN relays => relays[t[2]].version >= t[3]
            /\ t[1] = "client" /\ t[2] \in DOMAIN clients => clients[t[2]].version >= t[3]
        BY <1>2, <2>1, <2>2 DEF ToldIn
      <3>2. t[1] = "client" /\ t[2] = id => id \in DOMAIN clients
        BY <2>1, <2>2
      <3> QED
        BY <1>3, <1>4, <1>5, <1>7, <3>1, <3>2 DEF ChangesClient
    <2>3. ReplyIsNew'
      <3> SUFFICES ASSUME NEW n \in reply'
                   PROVE  /\ n[1] = "relay" => n[2] \in DOMAIN relays' /\ relays'[n[2]].version = n[3]
                          /\ n[1] = "client" => n[2] \in DOMAIN clients' /\ clients'[n[2]].version = n[3]
                          /\ \A t \in told : t[1] = n[1] /\ t[2] = n[2] /\ <<n[1], n[2]>> \notin anew' => t[3] < n[3]
        BY <2>1 DEF ReplyIsNew
      <3>1. /\ n = <<"client", id, clients'[id].version>> /\ id \in DOMAIN clients'
            /\ id \in DOMAIN clients => clients'[id].version > clients[id].version
        BY <1>7 DEF ChangesClient
      <3>2. n[1] = "client" /\ n[2] = id /\ n[3] = clients'[id].version
        BY <3>1
      <3>3. ASSUME NEW t \in told, t[1] = n[1], t[2] = n[2], <<n[1], n[2]>> \notin anew' PROVE t[3] < n[3]
        <4>1. id \in DOMAIN clients /\ <<t[1], t[2]>> \notin anew
          BY <2>1, <3>2, <3>3
        <4> QED
          BY <1>2, <1>3, <1>4, <1>5, <3>1, <3>2, <3>3, <4>1 DEF ToldIn
      <3> QED
        BY <3>1, <3>2, <3>3
    <2> QED
      BY <1>1, <1>2, <2>1, <2>2, <2>3 DEF VersionsGrow, ToldIn
  <1>8. ASSUME NEW id \in RelayIds, DeleteRelay(id)
        PROVE  VersionsGrow'
    <2>1. /\ told' = told /\ anew' = anew
          /\ reply' = {} /\ relays' = Drop(relays, id) /\ clients' = clients
      BY <1>8 DEF DeleteRelay, Saves
    <2>2. DOMAIN relays' = DOMAIN relays \ {id} /\ \A r \in DOMAIN relays \ {id} : relays'[r] = relays[r]
      BY <2>1 DEF Drop, Restrict
    <2>3. ToldIn(relays, clients)'
      BY <1>2, <2>1, <2>2 DEF ToldIn
    <2>4. ReplyIsNew' /\ ToldIn(file.relays, file.clients)'
      BY <1>1, <1>2, <2>1 DEF ReplyIsNew, ToldIn
    <2> QED
      BY <2>3, <2>4 DEF VersionsGrow
  <1>9. ASSUME NEW id \in ClientIds, DeleteClient(id)
        PROVE  VersionsGrow'
    <2>1. /\ told' = told /\ anew' = anew
          /\ reply' = {} /\ clients' = Drop(clients, id) /\ relays' = relays
      BY <1>9 DEF DeleteClient, Saves
    <2>2. DOMAIN clients' = DOMAIN clients \ {id} /\ \A c \in DOMAIN clients \ {id} : clients'[c] = clients[c]
      BY <2>1 DEF Drop, Restrict
    <2>3. ToldIn(relays, clients)'
      BY <1>2, <2>1, <2>2 DEF ToldIn
    <2>4. ReplyIsNew' /\ ToldIn(file.relays, file.clients)'
      BY <1>1, <1>2, <2>1 DEF ReplyIsNew, ToldIn
    <2> QED
      BY <2>3, <2>4 DEF VersionsGrow
  <1> QED
    BY <1>6, <1>7, <1>8, <1>9, CallChanges

\* The rename makes the file as new as memory before a response tells anything.
LEMMA GrowSave ==
    ASSUME Configured, Configured', VersionsGrow, SaveRenames \/ SaveFails \/ Reply
    PROVE  VersionsGrow'
  <1>1. mode = "up" /\ mode' = mode /\ UNCHANGED config
    BY DEF Configured, Running, SaveRenames, SaveFails, Reply
  <1>2. /\ ToldIn(file.relays, file.clients) /\ ToldIn(relays, clients) /\ ReplyIsNew
        /\ told \subseteq Credential /\ reply \subseteq Credential
    BY <1>1 DEF VersionsGrow, Configured, TypeOK
  <1>3. CASE SaveRenames
    <2>1. file'.relays = relays /\ file'.clients = clients /\ UNCHANGED <<reply, history>>
      BY <1>3 DEF SaveRenames
    <2> QED
      BY <1>1, <1>2, <2>1 DEF VersionsGrow, ToldIn, ReplyIsNew, config, history
  <1>4. CASE SaveFails
    BY <1>1, <1>2, <1>4 DEF SaveFails, VersionsGrow, ToldIn, ReplyIsNew, config, disk
  <1>5. CASE Reply
    <2>1. /\ reply' = {} /\ file' = file /\ anew' = anew \ Ids(reply)
          /\ told' = {t \in told : <<t[1], t[2]>> \notin Ids(reply)} \cup reply
          /\ file.relays = relays /\ file.clients = clients
      BY <1>5 DEF Reply, Configured, Running, disk
    <2>2. /\ \A r \in DOMAIN relays : relays[r].version \in Nat
          /\ \A c \in DOMAIN clients : clients[c].version \in Nat
      BY VersionTypes DEF Configured, TypeOK
    <2>3. ASSUME NEW t \in told', <<t[1], t[2]>> \notin anew'
          PROVE  /\ t[1] = "relay" /\ t[2] \in DOMAIN relays => relays[t[2]].version >= t[3]
                 /\ t[1] = "client" /\ t[2] \in DOMAIN clients => clients[t[2]].version >= t[3]
      <3>1. CASE t \in told /\ <<t[1], t[2]>> \notin Ids(reply)
        BY <1>2, <2>1, <2>3, <3>1 DEF ToldIn
      <3>2. CASE t \in reply
        <4>1. /\ t[1] = "relay" => t[2] \in DOMAIN relays /\ relays[t[2]].version = t[3]
              /\ t[1] = "client" => t[2] \in DOMAIN clients /\ clients[t[2]].version = t[3]
          BY <1>2, <3>2 DEF ReplyIsNew
        <4> QED
          BY <2>2, <4>1
      <3> QED
        BY <2>1, <3>1, <3>2
    <2>4. ToldIn(relays, clients)' /\ ToldIn(file.relays, file.clients)'
      BY <1>1, <2>1, <2>3 DEF ToldIn, config
    <2> QED
      BY <2>1, <2>4 DEF VersionsGrow, ReplyIsNew
  <1> QED
    BY <1>3, <1>4, <1>5

\* A restart reads no older version than the file has.
LEMMA GrowProcess ==
    ASSUME Configured, Configured', VersionsGrow, NewStore \/ Crash
    PROVE  VersionsGrow'
  <1>1. file' = file /\ told' = told /\ anew' = anew
    BY DEF NewStore, Crash, disk, history
  <1>2. reply' = {}
    BY DEF NewStore, Crash, Configured, Running
  <1>3. ASSUME mode' = "up" PROVE ToldIn(relays, clients)'
    <2>1. mode = "down" /\ relays' = Loaded(file).relays /\ clients' = Loaded(file).clients
      BY <1>3 DEF NewStore, Crash
    <2>2. Proper(file.relays, file.clients) /\ file = [relays |-> file.relays, clients |-> file.clients]
      BY DEF Configured, TypeOK, Proper
    <2>3. /\ DOMAIN relays' = DOMAIN file.relays /\ clients' = file.clients
          /\ \A r \in DOMAIN file.relays : relays'[r] = NormalRelay(file.relays[r])
      BY <2>1, <2>2, ProperLoaded
    <2>4. ASSUME NEW r \in DOMAIN file.relays
          PROVE  relays'[r].version >= file.relays[r].version
      <3>1. file.relays[r] \in StoredRelay /\ SoundRelay(file.relays[r])
        BY <2>2 DEF Proper, Partial, Sound
      <3> QED
        BY <2>3, <3>1, LoadedRelay
    <2>5. /\ \A r \in DOMAIN file.relays : file.relays[r].version \in Nat
          /\ \A r \in DOMAIN relays' : relays'[r].version \in Nat
      BY VersionTypes DEF Configured, TypeOK
    <2>6. \A t \in told : t[3] \in Nat
      BY CredentialParts DEF Configured, TypeOK
    <2>7. ToldIn(file.relays, file.clients)
      BY DEF VersionsGrow
    <2> QED
      BY <1>1, <2>3, <2>4, <2>5, <2>6, <2>7 DEF ToldIn
  <1>4. ToldIn(file.relays, file.clients)' /\ ReplyIsNew'
    BY <1>1, <1>2 DEF VersionsGrow, ToldIn, ReplyIsNew
  <1> QED
    BY <1>3, <1>4 DEF VersionsGrow, ToldIn

-----------------------------------------------------------------------------
(* Whoever needs a key was given it *)

\* A call: what it changes is in its response or was known before.
LEMMA KnownCall ==
    ASSUME Configured, KeysTold, Call
    PROVE  KeysTold'
  <1>1. mode = "up" /\ mode' = "up" /\ reply = {}
    BY DEF Call, UpsertRelay, RotateRelayKey, DeleteRelay, UpsertClient, RotateClientKey, DeleteClient,
           Saves, Ready, Configured, Running
  <1>2. KeysKnown(relays, clients, {})
    BY <1>1 DEF KeysTold
  <1>3. ASSUME NEW id \in RelayIds, ChangesRelay(id), Marks("relay", id, relays)
        PROVE  KeysKnown(relays, clients, reply)'
    <2>1. /\ told' = told /\ lost' = lost /\ clients' = clients
          /\ \A k \in anew' : k \in anew \/ (k = <<"relay", id>> /\ id \notin DOMAIN relays)
      BY <1>3 DEF Marks, Creates, ChangesRelay
    <2>2. ASSUME NEW r \in DOMAIN relays', KeyedRelay(relays'[r])
          PROVE  \/ Given("relay", r, relays[r].version)' \/ <<"relay", r>> \in lost
                 \/ <<"relay", r, relays'[r].version>> \in reply'
      <3>1. CASE r = id /\ id \notin DOMAIN relays
        BY <1>3, <2>2, <3>1 DEF ChangesRelay
      <3>2. CASE r \in DOMAIN relays
        <4>1. <<"relay", r>> \in anew' => <<"relay", r>> \in anew
          BY <2>1, <3>2
        <4> QED
          BY <1>2, <1>3, <2>1, <2>2, <3>2, <4>1 DEF KeysKnown, ChangesRelay, Given
      <3> QED
        BY <1>3, <2>2, <3>1, <3>2 DEF ChangesRelay
    <2>3. ASSUME NEW c \in DOMAIN clients, clients[c].encryption = "aes"
          PROVE  Given("client", c, clients[c].version)' \/ <<"client", c>> \in lost
      <3>1. <<"client", c>> \in anew' => <<"client", c>> \in anew
        BY <2>1
      <3> QED
        BY <1>2, <2>1, <2>3, <3>1 DEF KeysKnown, Given
    <2> QED
      BY <2>1, <2>2, <2>3 DEF KeysKnown
  <1>4. ASSUME NEW id \in ClientIds, ChangesClient(id), Marks("client", id, clients)
        PROVE  KeysKnown(relays, clients, reply)'
    <2>1. /\ told' = told /\ lost' = lost /\ relays' = relays
          /\ \A k \in anew' : k \in anew \/ (k = <<"client", id>> /\ id \notin DOMAIN clients)
      BY <1>4 DEF Marks, Creates, ChangesClient
    <2>2. ASSUME NEW c \in DOMAIN clients', clients'[c].encryption = "aes"
          PROVE  \/ Given("client", c, clients[c].version)' \/ <<"client", c>> \in lost
                 \/ <<"client", c, clients'[c].version>> \in reply'
      <3>1. CASE c = id /\ id \notin DOMAIN clients
        BY <1>4, <2>2, <3>1 DEF ChangesClient
      <3>2. CASE c \in DOMAIN clients
        <4>1. <<"client", c>> \in anew' => <<"client", c>> \in anew
          BY <2>1, <3>2
        <4> QED
          BY <1>2, <1>4, <2>1, <2>2, <3>2, <4>1 DEF KeysKnown, ChangesClient, Given
      <3> QED
        BY <1>4, <2>2, <3>1, <3>2 DEF ChangesClient
    <2>3. ASSUME NEW r \in DOMAIN relays, KeyedRelay(relays[r])
          PROVE  Given("relay", r, relays[r].version)' \/ <<"relay", r>> \in lost
      <3>1. <<"relay", r>> \in anew' => <<"relay", r>> \in anew
        BY <2>1
      <3> QED
        BY <1>2, <2>1, <2>3, <3>1 DEF KeysKnown, Given
    <2> QED
      BY <2>1, <2>2, <2>3 DEF KeysKnown
  <1>5. ASSUME NEW id \in RelayIds, DeleteRelay(id)
        PROVE  KeysKnown(relays, clients, reply)'
    <2>1. /\ told' = told /\ anew' = anew /\ lost' = lost \ {<<"relay", id>>}
          /\ reply' = {} /\ relays' = Drop(relays, id) /\ clients' = clients
      BY <1>5 DEF DeleteRelay, Saves
    <2>2. DOMAIN relays' = DOMAIN relays \ {id} /\ \A r \in DOMAIN relays \ {id} : relays'[r] = relays[r]
      BY <2>1 DEF Drop, Restrict
    <2> QED
      BY <1>2, <2>1, <2>2 DEF KeysKnown, Given
  <1>6. ASSUME NEW id \in ClientIds, DeleteClient(id)
        PROVE  KeysKnown(relays, clients, reply)'
    <2>1. /\ told' = told /\ anew' = anew /\ lost' = lost \ {<<"client", id>>}
          /\ reply' = {} /\ clients' = Drop(clients, id) /\ relays' = relays
      BY <1>6 DEF DeleteClient, Saves
    <2>2. DOMAIN clients' = DOMAIN clients \ {id} /\ \A c \in DOMAIN clients \ {id} : clients'[c] = clients[c]
      BY <2>1 DEF Drop, Restrict
    <2> QED
      BY <1>2, <2>1, <2>2 DEF KeysKnown, Given
  <1> QED
    BY <1>1, <1>3, <1>4, <1>5, <1>6, CallChanges DEF KeysTold

\* A save that fails loses what its response would have told; a response tells
\* it in the place of any older version.
LEMMA KnownSave ==
    ASSUME Configured, VersionsGrow, KeysTold, SaveRenames \/ SaveFails \/ Reply
    PROVE  KeysTold'
  <1>1. mode = "up" /\ mode' = mode /\ UNCHANGED config
    BY DEF Configured, Running, SaveRenames, SaveFails, Reply
  <1>2. KeysKnown(relays, clients, reply) /\ ReplyIsNew
    BY <1>1 DEF KeysTold, VersionsGrow
  <1>3. CASE SaveRenames
    <2>1. reply' = reply /\ told' = told /\ lost' = lost /\ anew' = anew
      BY <1>3 DEF SaveRenames, history
    <2> QED
      BY <1>1, <1>2, <2>1 DEF KeysTold, KeysKnown, Given, config
  <1>4. CASE SaveFails
    <2>1. reply' = {} /\ told' = told /\ anew' = anew /\ lost' = lost \cup Ids(reply)
      BY <1>4 DEF SaveFails
    <2>2. ASSUME NEW k, NEW i, NEW v, <<k, i, v>> \in reply PROVE <<k, i>> \in Ids(reply)
      BY <2>2 DEF Ids
    <2>3. KeysKnown(relays, clients, reply)'
      BY <1>1, <1>2, <2>1, <2>2 DEF KeysKnown, Given, config
    <2> QED
      BY <1>1, <2>3 DEF KeysTold
  <1>5. CASE Reply
    <2>1. /\ reply' = {} /\ lost' = lost \ Ids(reply) /\ anew' = anew \ Ids(reply)
          /\ told' = {t \in told : <<t[1], t[2]>> \notin Ids(reply)} \cup reply
      BY <1>5 DEF Reply
    <2>2. ASSUME NEW r \in DOMAIN relays, <<"relay", r>> \in Ids(reply)
          PROVE  <<"relay", r, relays[r].version>> \in reply
      <3>1. PICK n \in reply : <<"relay", r>> = <<n[1], n[2]>>
        BY <2>2 DEF Ids
      <3>2. n[1] = "relay" /\ n[2] = r
        BY <3>1
      <3>3. n = <<n[1], n[2], n[3]>> /\ relays[r].version = n[3]
        BY <1>2, <3>2, CredentialParts DEF ReplyIsNew, Configured, TypeOK
      <3> QED
        BY <3>2, <3>3
    <2>3. ASSUME NEW c \in DOMAIN clients, <<"client", c>> \in Ids(reply)
          PROVE  <<"client", c, clients[c].version>> \in reply
      <3>1. PICK n \in reply : <<"client", c>> = <<n[1], n[2]>>
        BY <2>3 DEF Ids
      <3>2. n[1] = "client" /\ n[2] = c
        BY <3>1
      <3>3. n = <<n[1], n[2], n[3]>> /\ clients[c].version = n[3]
        BY <1>2, <3>2, CredentialParts DEF ReplyIsNew, Configured, TypeOK
      <3> QED
        BY <3>2, <3>3
    <2>4. ASSUME NEW r \in DOMAIN relays, KeyedRelay(relays[r])
          PROVE  Given("relay", r, relays[r].version)' \/ <<"relay", r>> \in lost'
      <3>1. <<"relay", r, relays[r].version>> \in reply => <<"relay", r>> \in Ids(reply)
        BY DEF Ids
      <3> QED
        BY <1>1, <1>2, <2>1, <2>2, <2>4, <3>1 DEF KeysKnown, Given, config
    <2>5. ASSUME NEW c \in DOMAIN clients, clients[c].encryption = "aes"
          PROVE  Given("client", c, clients[c].version)' \/ <<"client", c>> \in lost'
      <3>1. <<"client", c, clients[c].version>> \in reply => <<"client", c>> \in Ids(reply)
        BY DEF Ids
      <3> QED
        BY <1>1, <1>2, <2>1, <2>3, <2>5, <3>1 DEF KeysKnown, Given, config
    <2> QED
      BY <1>1, <2>1, <2>4, <2>5 DEF KeysTold, KeysKnown, config
  <1> QED
    BY <1>3, <1>4, <1>5

\* A restart reads the keys of the file as they are; a crash loses those that
\* the file has and memory had not.
LEMMA KnownProcess ==
    ASSUME Configured, KeysTold, NewStore \/ Crash
    PROVE  KeysTold'
  <1>1. CASE NewStore
    <2>1. /\ mode = "down" /\ file' = file /\ told' = told /\ lost' = lost /\ anew' = anew
          /\ reply = {} /\ reply' = {}
      BY <1>1 DEF NewStore, history, Configured, Running
    <2>2. KeysKnown(file.relays, file.clients, {})
      BY <2>1 DEF KeysTold
    <2>3. CASE mode' # "up"
      BY <2>1, <2>2, <2>3 DEF KeysTold, KeysKnown, Given
    <2>4. CASE mode' = "up"
      <3>1. relays' = Loaded(file).relays /\ clients' = Loaded(file).clients
        BY <1>1, <2>4 DEF NewStore
      <3>2. Proper(file.relays, file.clients) /\ file = [relays |-> file.relays, clients |-> file.clients]
        BY DEF Configured, TypeOK, Proper
      <3>3. /\ DOMAIN relays' = DOMAIN file.relays /\ clients' = file.clients
            /\ \A r \in DOMAIN file.relays : relays'[r] = NormalRelay(file.relays[r])
        BY <3>1, <3>2, ProperLoaded
      <3>4. ASSUME NEW r \in DOMAIN file.relays, KeyedRelay(relays'[r])
            PROVE  KeyedRelay(file.relays[r]) /\ relays'[r].version = file.relays[r].version
        <4>1. file.relays[r] \in StoredRelay /\ SoundRelay(file.relays[r])
          BY <3>2 DEF Proper, Partial, Sound
        <4> QED
          BY <3>3, <3>4, <4>1, LoadedRelay
      <3>5. KeysKnown(relays, clients, reply)'
        BY <2>1, <2>2, <3>3, <3>4 DEF KeysKnown, Given
      <3> QED
        BY <2>4, <3>5 DEF KeysTold
    <2> QED
      BY <2>3, <2>4
  <1>2. CASE Crash
    <2>1. /\ mode' = "down" /\ file' = file /\ told' = told /\ anew' = anew
          /\ lost' = lost \cup Ids(reply) \cup IF mode = "up" THEN Undone ELSE {}
      BY <1>2 DEF Crash, disk
    <2>2. CASE mode # "up"
      <3>1. KeysKnown(file.relays, file.clients, {})
        BY <2>2 DEF KeysTold
      <3>2. KeysKnown(file.relays, file.clients, {})'
        BY <2>1, <3>1 DEF KeysKnown, Given
      <3> QED
        BY <2>1, <3>2 DEF KeysTold
    <2>3. CASE mode = "up"
      <3>1. KeysKnown(relays, clients, reply)
        BY <2>3 DEF KeysTold
      <3>2. ASSUME NEW k, NEW i, NEW v, <<k, i, v>> \in reply PROVE <<k, i>> \in lost'
        BY <2>1, <3>2 DEF Ids
      <3>3. lost \subseteq lost' /\ Undone \subseteq lost'
        BY <2>1, <2>3
      <3>4. ASSUME NEW r \in DOMAIN file.relays, KeyedRelay(file.relays[r])
            PROVE  Given("relay", r, file.relays[r].version) \/ <<"relay", r>> \in lost'
        <4>1. CASE r \notin DOMAIN relays \/ relays[r] # file.relays[r]
          BY <3>3, <4>1 DEF Undone
        <4>2. CASE r \in DOMAIN relays /\ relays[r] = file.relays[r]
          BY <3>1, <3>2, <3>3, <3>4, <4>2 DEF KeysKnown
        <4> QED
          BY <4>1, <4>2
      <3>5. ASSUME NEW c \in DOMAIN file.clients, file.clients[c].encryption = "aes"
            PROVE  Given("client", c, file.clients[c].version) \/ <<"client", c>> \in lost'
        <4>1. CASE c \notin DOMAIN clients \/ clients[c] # file.clients[c]
          BY <3>3, <4>1 DEF Undone
        <4>2. CASE c \in DOMAIN clients /\ clients[c] = file.clients[c]
          BY <3>1, <3>2, <3>3, <3>5, <4>2 DEF KeysKnown
        <4> QED
          BY <4>1, <4>2
      <3> QED
        BY <2>1, <3>4, <3>5 DEF KeysTold, KeysKnown, Given
    <2> QED
      BY <2>2, <2>3
  <1> QED
    BY <1>1, <1>2

-----------------------------------------------------------------------------
(* Theorems about credentials *)

\* The invariant that both theorems rest on.
LEMMA AlwaysKnown == Spec => [](Configured /\ VersionsGrow /\ KeysTold)
  <1> DEFINE Inv == Configured /\ VersionsGrow /\ KeysTold
  <1>1. Init => Inv
    <2>1. Init => VersionsGrow
      BY DEF Init, VersionsGrow, ToldIn, ReplyIsNew
    <2>2. Init => KeysTold
      BY EmptyFacts DEF Init, KeysTold, KeysKnown
    <2> QED
      BY <2>1, <2>2, ConfiguredInit
  <1>2. Inv /\ [Next]_vars => Inv'
    <2> SUFFICES ASSUME Configured, VersionsGrow, KeysTold, [Next]_vars
                 PROVE  VersionsGrow' /\ KeysTold'
      BY ConfiguredStep
    <2>1. Configured'
      BY ConfiguredStep
    <2>2. CASE UNCHANGED vars
      BY <2>2 DEF vars, config, disk, history, VersionsGrow, ToldIn, ReplyIsNew, KeysTold, KeysKnown, Given
    <2> QED
      BY <2>1, <2>2, GrowCall, GrowSave, GrowProcess, KnownCall, KnownSave, KnownProcess DEF Next
  <1> QED
    BY <1>1, <1>2, PTL DEF Spec

\* README.md:1144-1146: a response gives a relay or client a version newer than the
\* last it was given, whatever rotations, changes of mode, failed saves and restarts
\* come in between, unless it was deleted and created again since (UpsertRelay,
\* UpsertClient, RotateRelayKey, RotateClientKey, load).
THEOREM CredentialsOnce == Spec => []CredentialOnce
  <1>1. Configured /\ VersionsGrow => CredentialOnce
    <2> SUFFICES ASSUME Configured, VersionsGrow,
                        NEW n \in reply, NEW t \in told, t[1] = n[1], t[2] = n[2], n[3] <= t[3]
                 PROVE  <<n[1], n[2]>> \in anew
      BY DEF CredentialOnce, Reissued, Ids
    <2>1. n[3] \in Nat /\ t[3] \in Nat
      BY CredentialParts DEF Configured, TypeOK
    <2>2. <<n[1], n[2]>> \notin anew => t[3] < n[3]
      BY DEF VersionsGrow, ReplyIsNew
    <2> QED
      BY <2>1, <2>2
  <1> QED
    BY <1>1, AlwaysKnown, PTL

\* Between calls the current key of every encrypted client and publisher was in
\* a response, or the call that made it got none (the same operations).
THEOREM CredentialsTold == Spec => []CredentialTold
  <1>1. Configured /\ KeysTold => CredentialTold
    <2> SUFFICES ASSUME Configured, KeysTold, Ready PROVE CredentialTold
      BY DEF CredentialTold
    <2>1. reply = {} /\ mode = "up"
      BY DEF Configured, Running, Ready
    <2>2. KeysKnown(relays, clients, {})
      BY <2>1 DEF KeysTold
    <2> QED
      BY <2>2 DEF KeysKnown, CredentialTold
  <1> QED
    BY <1>1, AlwaysKnown, PTL
=============================================================================

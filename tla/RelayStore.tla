----------------------------- MODULE RelayStore -----------------------------
(***************************************************************************)
(* The SRT store (internal/srtrelay/store.go): relays, access clients,     *)
(* the versions of their keys, and the state file they are loaded from     *)
(* after a restart, together with the checks newWorker of                  *)
(* internal/srtworker/worker.go makes on what a worker is handed.          *)
(*                                                                         *)
(* Every call holds the store's mutex from its checks to the end of its    *)
(* save, so one call is under way at a time; the process may end between   *)
(* any two steps of it.  saveLocked writes a temporary file and renames    *)
(* it: before the rename nothing has changed, after it everything has.     *)
(* A passphrase is a function of id and key version (the master key is     *)
(* written once), so a credential is the pair of them.                     *)
(***************************************************************************)
EXTENDS Integers, FiniteSets, Functions

CONSTANTS
    RelayIds, ClientIds, NoClient,
    RelayRequests,   \* BOUND: relay bodies operators send
    ClientRequests,  \* BOUND: client bodies operators send
    MaxVersion,      \* BOUND: key versions
    MaxFailures      \* BOUND: saves and creations of the master key that fail

ASSUME NoClientAssumption == NoClient \notin ClientIds
ASSUME VersionAssumption == MaxVersion \in Nat \ {0}
ASSUME FailuresAssumption == MaxFailures \in Nat

Encryptions == {"", "aes", "none"}

\* A relay as the API sends it.  input stands for the URLs, names and numbers
\* that are only tested, timeout for the numbers that have a default.
RelayBody == [direction : {"", "listener", "publish"}, endpoint : Nat,
              encryption : Encryptions, compat : BOOLEAN,
              default : ClientIds \cup {NoClient}, timeout : Int,
              input : {"valid", "invalid"}, version : Nat, enabled : BOOLEAN]

\* A client as the API sends it; open: an allowed network is 0.0.0.0/0.
ClientBody == [relays : SUBSET RelayIds, encryption : Encryptions, open : BOOLEAN,
               cidrs : {"valid", "invalid"}, limit : Int, enabled : BOOLEAN, version : Nat]

ASSUME RequestsAssumption == RelayRequests \subseteq RelayBody /\ ClientRequests \subseteq ClientBody

VARIABLES
    relays,    \* store.relays: a function on the ids that exist
    clients,   \* store.clients, with the version of each
    file,      \* the state file: relays and clients
    mode,      \* "down", "up", or "fallback": NewStore failed and the SRT API is off
    masterKey, \* has the master key file been written?
    stage,     \* the call under way: "idle", "save" or "reply"
    reply,     \* credentials that its response will hold
    failures,  \* disk operations that have failed
    told,      \* history: the last credential of each id that a response has contained
    lost,      \* history: ids whose credential is of a call that got no response
    anew       \* history: ids that were created again since told was written for them

config == <<relays, clients>>
disk == <<file, masterKey>>
history == <<told, lost, anew>>
vars == <<config, disk, mode, stage, reply, failures, history>>

-----------------------------------------------------------------------------
(* Helpers *)

Put(f, k, v) == [x \in DOMAIN f \cup {k} |-> IF x = k THEN v ELSE f[x]]
Drop(f, k) == Restrict(f, DOMAIN f \ {k})

\* Fields left at zero get their default.
Defaulted(v, default) == IF v = 0 THEN default ELSE v
AtLeastOne(v) == IF v < 1 THEN 1 ELSE v

Listener(relay) == relay.direction = "listener"
Publish(relay) == relay.direction = "publish"
KeyedRelay(relay) == Publish(relay) /\ relay.encryption = "aes"

\* normalizeRelay.
NormalRelay(q) ==
    LET d == IF q.direction = "" THEN "listener" ELSE q.direction
        p == d = "publish"
    IN  [q EXCEPT !.direction  = d,
                  !.encryption = IF p /\ @ = "" THEN "aes" ELSE @,
                  !.version    = IF p THEN AtLeastOne(@) ELSE @,
                  !.compat     = ~p /\ @,
                  !.default    = IF ~p /\ q.compat THEN @ ELSE NoClient,
                  !.timeout    = Defaulted(@, 10)]

RelayAccepted(n) ==
    /\ n.input = "valid"
    /\ n.timeout \in 3..300
    /\ n.compat => n.default \in ClientIds

\* normalizeClientLocked against the relays rs; c has its version.
NormalClient(c) ==
    [c EXCEPT !.encryption = IF @ = "" THEN "aes" ELSE @,
              !.limit      = Defaulted(@, 1),
              !.version    = AtLeastOne(@)]

ClientAccepted(n, rs) ==
    /\ n.relays # {} /\ n.relays \subseteq DOMAIN rs
    /\ \A r \in n.relays : Listener(rs[r])
    /\ n.cidrs = "valid"
    /\ ~(n.encryption = "none" /\ n.open)
    /\ n.limit \in 1..1000

\* validateRelayDefaultClientLocked: relay id r with body n, among clients cs.
DefaultServes(r, n, cs) ==
    n.compat => /\ n.default \in DOMAIN cs
                /\ cs[n.default].enabled
                /\ r \in cs[n.default].relays

\* load: what it makes of a file, and whether it accepts it.
Loaded(f) ==
    [relays |-> [r \in DOMAIN f.relays |-> NormalRelay(f.relays[r])],
     clients |-> [c \in DOMAIN f.clients |-> NormalClient(f.clients[c])]]

LoadAccepts(f) ==
    LET l == Loaded(f) IN
    /\ \A r \in DOMAIN l.relays : RelayAccepted(l.relays[r]) /\ DefaultServes(r, l.relays[r], l.clients)
    /\ \A c \in DOMAIN l.clients : ClientAccepted(l.clients[c], l.relays)

\* The clients a worker of relay r is handed (WorkerClients).
WorkerClients(r) == {c \in DOMAIN clients : clients[c].enabled /\ r \in clients[c].relays}

\* newWorker accepts the configuration that Manager.start would send now, read
\* from one state of the store.  (start reads the relay and the clients in two lock
\* sections, manager.go:59 and 72-74: an edit between them is not covered.)
NewWorkerAccepts(r) ==
    /\ relays[r].timeout \in 3..300
    /\ relays[r].compat => Listener(relays[r]) /\ relays[r].default \in WorkerClients(r)

Empty == <<>>

Init ==
    /\ relays = Empty /\ clients = Empty
    /\ file = [relays |-> Empty, clients |-> Empty]
    /\ mode = "down"
    /\ masterKey = FALSE
    /\ stage = "idle" /\ reply = {}
    /\ failures = 0
    /\ told = {} /\ lost = {} /\ anew = {}

-----------------------------------------------------------------------------
(* Calls *)

Ready == mode = "up" /\ stage = "idle"

\* The call goes on to saveLocked; creds is what its response will contain.
Saves(creds) ==
    /\ stage' = "save"
    /\ reply' = creds
    /\ UNCHANGED <<disk, mode, failures>>

Ids(creds) == {<<t[1], t[2]>> : t \in creds}

\* An id that is not in the map is created, possibly after it was deleted: its
\* version starts again.
Creates(kind, id, map) ==
    anew' = anew \cup IF id \in DOMAIN map THEN {} ELSE {<<kind, id>>} \cap Ids(told)

\* UpsertRelay.  A relay that becomes an encrypted publisher gets a new key.
RelayToStore_KeepsVersion(id, n) ==
    IF id \notin DOMAIN relays THEN n ELSE [n EXCEPT !.version = relays[id].version]
RelayToStore(id, n) ==
    IF id \notin DOMAIN relays THEN n
    ELSE [n EXCEPT !.version = relays[id].version
                               + IF KeyedRelay(n) /\ ~KeyedRelay(relays[id]) THEN 1 ELSE 0]

EndpointFree(id, n) ==
    \A o \in DOMAIN relays \ {id} :
        ~(Listener(n) /\ Listener(relays[o]) /\ n.endpoint = relays[o].endpoint)

UpsertRelay(id, q) ==
    LET n == NormalRelay(q)
        s == RelayToStore(id, n)
        issues == KeyedRelay(n) /\ (id \in DOMAIN relays => ~KeyedRelay(relays[id]))
    IN  /\ Ready
        /\ RelayAccepted(n)
        /\ EndpointFree(id, n)
        /\ DefaultServes(id, n, clients)
        /\ s.version <= MaxVersion
        /\ relays' = Put(relays, id, s)
        /\ Saves(IF issues THEN {<<"relay", id, s.version>>} ELSE {})
        /\ Creates("relay", id, relays)
        /\ UNCHANGED <<clients, told, lost>>

RotateRelayKey(id) ==
    /\ Ready
    /\ id \in DOMAIN relays /\ Publish(relays[id]) /\ relays[id].encryption # "none"
    /\ relays[id].version < MaxVersion
    /\ relays' = [relays EXCEPT ![id].version = @ + 1]
    /\ Saves({<<"relay", id, relays[id].version + 1>>})
    /\ UNCHANGED <<clients, history>>

\* Whether the relay runs, and whether a client has a session, is up to the
\* manager and the workers: a deletion they are in the way of changes nothing,
\* one they are not may come at any time.
DeleteRelay_Assigned(id) ==
    /\ Ready
    /\ id \in DOMAIN relays
    /\ relays' = Drop(relays, id)
    /\ Saves({})
    /\ lost' = lost \ {<<"relay", id>>}
    /\ UNCHANGED <<clients, told, anew>>
DeleteRelay(id) ==
    /\ Ready
    /\ id \in DOMAIN relays
    /\ \A c \in DOMAIN clients : id \notin clients[c].relays
    /\ relays' = Drop(relays, id)
    /\ Saves({})
    /\ lost' = lost \ {<<"relay", id>>}
    /\ UNCHANGED <<clients, told, anew>>

\* The relays that name client id as their compatibility default.
DefaultOf(id) == {r \in DOMAIN relays : relays[r].compat /\ relays[r].default = id}

StaysDefault_Enabled(id, n) == DefaultOf(id) # {} => n.enabled
StaysDefault(id, n) == \A r \in DefaultOf(id) : n.enabled /\ r \in n.relays

\* A body never brings its own version.
VersionOf(id) == IF id \in DOMAIN clients THEN clients[id].version ELSE 1

\* CreateClient and UpsertClient: an existing client keeps its version; one that
\* turns its encryption on gets a new key.
UpsertClient(id, q) ==
    LET n == NormalClient([q EXCEPT !.version = VersionOf(id)])
        turned == id \in DOMAIN clients /\ clients[id].encryption = "none" /\ n.encryption = "aes"
        s == IF turned THEN [n EXCEPT !.version = @ + 1] ELSE n
        issues == n.encryption = "aes" /\ (id \notin DOMAIN clients \/ turned)
    IN  /\ Ready
        /\ ClientAccepted(n, relays)
        /\ StaysDefault(id, n)
        /\ s.version <= MaxVersion
        /\ clients' = Put(clients, id, s)
        /\ Saves(IF issues THEN {<<"client", id, s.version>>} ELSE {})
        /\ Creates("client", id, clients)
        /\ UNCHANGED <<relays, told, lost>>

RotateClientKey_Same(id) ==
    /\ Ready
    /\ id \in DOMAIN clients /\ clients[id].encryption # "none"
    /\ Saves({<<"client", id, clients[id].version>>})
    /\ UNCHANGED <<config, history>>
RotateClientKey(id) ==
    /\ Ready
    /\ id \in DOMAIN clients /\ clients[id].encryption # "none"
    /\ clients[id].version < MaxVersion
    /\ clients' = [clients EXCEPT ![id].version = @ + 1]
    /\ Saves({<<"client", id, clients[id].version + 1>>})
    /\ UNCHANGED <<relays, history>>

DeleteClient(id) ==
    /\ Ready
    /\ id \in DOMAIN clients
    /\ DefaultOf(id) = {}
    /\ clients' = Drop(clients, id)
    /\ Saves({})
    /\ lost' = lost \ {<<"client", id>>}
    /\ UNCHANGED <<relays, told, anew>>

-----------------------------------------------------------------------------
(* saveLocked and the response *)

\* The rename succeeds.
SaveRenames_Stale ==
    /\ stage = "save"
    /\ file' = [file EXCEPT !.relays = relays]
    /\ stage' = "reply"
    /\ UNCHANGED <<config, mode, masterKey, reply, failures, history>>
SaveRenames ==
    /\ stage = "save"
    /\ file' = [relays |-> relays, clients |-> clients]
    /\ stage' = "reply"
    /\ UNCHANGED <<config, mode, masterKey, reply, failures, history>>

DiskFails ==
    /\ failures < MaxFailures
    /\ failures' = failures + 1

\* Any step up to the rename fails: the file is untouched, memory is not undone,
\* the response is an error without the passphrase.
SaveFails ==
    /\ stage = "save" /\ DiskFails
    /\ stage' = "idle" /\ reply' = {}
    /\ lost' = lost \cup Ids(reply)
    /\ UNCHANGED <<config, disk, mode, told, anew>>

Reply ==
    /\ stage = "reply"
    /\ stage' = "idle" /\ reply' = {}
    /\ told' = {t \in told : <<t[1], t[2]>> \notin Ids(reply)} \cup reply
    /\ lost' = lost \ Ids(reply)
    /\ anew' = anew \ Ids(reply)
    /\ UNCHANGED <<config, disk, mode, failures>>

-----------------------------------------------------------------------------
(* The process *)

\* NewStore: the master key is read or created, then load reads the file.  When
\* either fails, New keeps an empty store (NewEphemeralStore) and withSRT
\* answers every call with an error.
NewStore ==
    /\ mode = "down"
    /\ \/ /\ ~masterKey /\ DiskFails
          /\ mode' = "fallback"
          /\ UNCHANGED <<config, masterKey>>
       \/ /\ masterKey' = TRUE
          /\ UNCHANGED failures
          /\ IF LoadAccepts(file)
             THEN /\ mode' = "up"
                  /\ relays' = Loaded(file).relays /\ clients' = Loaded(file).clients
             ELSE /\ mode' = "fallback"
                  /\ UNCHANGED config
    /\ UNCHANGED <<file, stage, reply, history>>

\* Relays and clients that a restart brings back as another than memory has.
Undone ==
    {<<"relay", r>> : r \in {r \in DOMAIN file.relays : r \notin DOMAIN relays \/ relays[r] # file.relays[r]}}
    \cup {<<"client", c>> : c \in {c \in DOMAIN file.clients :
                                  c \notin DOMAIN clients \/ clients[c] # file.clients[c]}}

\* The daemon ends, also in the middle of a call.
Crash ==
    /\ mode # "down"
    /\ mode' = "down"
    /\ relays' = Empty /\ clients' = Empty
    /\ stage' = "idle" /\ reply' = {}
    /\ lost' = lost \cup Ids(reply) \cup IF mode = "up" THEN Undone ELSE {}
    /\ UNCHANGED <<disk, failures, told, anew>>

Call ==
    \/ \E r \in RelayIds : (\E q \in RelayRequests : UpsertRelay(r, q)) \/ RotateRelayKey(r) \/ DeleteRelay(r)
    \/ \E c \in ClientIds : (\E q \in ClientRequests : UpsertClient(c, q)) \/ RotateClientKey(c) \/ DeleteClient(c)

Next ==
    \/ Call
    \/ SaveRenames \/ SaveFails \/ Reply
    \/ NewStore \/ Crash

Spec == Init /\ [][Next]_vars

-----------------------------------------------------------------------------
(* Properties *)

StoredRelay == [direction : {"listener", "publish"}, endpoint : Nat, encryption : Encryptions,
                compat : BOOLEAN, default : ClientIds \cup {NoClient}, timeout : 3..300,
                input : {"valid"}, version : 0..MaxVersion, enabled : BOOLEAN]
StoredClient == [relays : SUBSET RelayIds, encryption : {"aes", "none"}, open : BOOLEAN,
                 cidrs : {"valid"}, limit : 1..1000, enabled : BOOLEAN, version : 1..MaxVersion]

\* f maps ids of D to values of V.
Partial(f, D, V) == DOMAIN f \subseteq D /\ f \in [DOMAIN f -> V]

\* A credential: its kind, its id and its version.
Credential == ({"relay"} \X RelayIds \X Nat) \cup ({"client"} \X ClientIds \X Nat)

\* What a credential is for.
Named == ({"relay"} \X RelayIds) \cup ({"client"} \X ClientIds)

\* Memory and file hold normalised relays and clients only; a credential is an
\* id with a version.
TypeOK ==
    /\ Partial(relays, RelayIds, StoredRelay)
    /\ Partial(clients, ClientIds, StoredClient)
    /\ file = [relays |-> file.relays, clients |-> file.clients]
    /\ Partial(file.relays, RelayIds, StoredRelay)
    /\ Partial(file.clients, ClientIds, StoredClient)
    /\ mode \in {"down", "up", "fallback"}
    /\ stage \in {"idle", "save", "reply"}
    /\ masterKey \in BOOLEAN
    /\ failures \in 0..MaxFailures
    /\ reply \subseteq Credential /\ told \subseteq Credential
    /\ lost \subseteq Named /\ anew \subseteq Named

\* README.md:223-225: whatever is edited, detached, disabled or deleted, in
\* whatever order, and whatever a restart brings back, a relay in compatibility
\* mode has its default client enabled and assigned: no worker that is started
\* refuses the configuration it is handed, if no edit falls between its two
\* reads.  Nor do two of them have one endpoint, in memory or in a file to be
\* loaded (load does not test it); a wildcard address that overlaps another is
\* another endpoint here, as it is for the code.
WorkerCanStart ==
    /\ \A r \in DOMAIN relays : NewWorkerAccepts(r)
    /\ \A rs \in {relays, file.relays} : \A r, o \in DOMAIN rs :
            r # o /\ Listener(rs[r]) /\ Listener(rs[o]) => rs[r].endpoint # rs[o].endpoint

\* Clients that are assigned to a relay that has been turned into a publisher.
Stranded(f) == {c \in DOMAIN f.clients : \E r \in f.clients[c].relays : Publish(f.relays[r])}

\* The file is always one that load accepts, but for one case: a listener that
\* was turned into a publisher while clients were assigned to it.  No client of
\* the file names a relay that is not there.
OnlyStrandedRejected ==
    /\ \A c \in DOMAIN file.clients : file.clients[c].relays \subseteq DOMAIN file.relays
    /\ ~LoadAccepts(file) => Stranded(file) # {}

\* README.md:170: "Enabled relays start automatically with neotranscoder.service".
\* A restart with a healthy disk brings the SRT store back, not the fallback in
\* which the SRT API and its relays are off.
EnabledRelaysStartAgain ==
    mode = "fallback" => \A r \in DOMAIN file.relays : ~file.relays[r].enabled

\* The ids to which the response under way gives a version that is not newer than
\* the last one they were given.
Reissued ==
    Ids({n \in reply : \E t \in told : t[1] = n[1] /\ t[2] = n[2] /\ n[3] <= t[3]})

\* README.md:1144-1146: a passphrase is in one response only, as long as its relay
\* or client exists: rotations, changes of mode, failed saves and restarts issue
\* only versions newer than every one before.  The exception is an id that was
\* deleted and created again: it starts again with the first version, and so with
\* the same passphrases.
CredentialOnce == stage = "reply" => Reissued \subseteq anew

\* The version was in a response since the relay or client was created.
Given(kind, id, version) == <<kind, id, version>> \in told /\ <<kind, id>> \notin anew

\* Whoever needs a passphrase was given it: the current version of an encrypted
\* client or publisher was in a response since the client or publisher was created,
\* unless the call that made it got none.
CredentialTold ==
    Ready =>
      /\ \A r \in DOMAIN relays : KeyedRelay(relays[r]) =>
            Given("relay", r, relays[r].version) \/ <<"relay", r>> \in lost
      /\ \A c \in DOMAIN clients : clients[c].encryption = "aes" =>
            Given("client", c, clients[c].version) \/ <<"client", c>> \in lost

\* The store implements DurableStore, up to what load makes of a configuration;
\* a fallback store is a process that has not come up.
Durable == INSTANCE DurableStore WITH
    mem   <- Loaded([relays |-> relays, clients |-> clients]),
    disk  <- Loaded(file),
    phase <- IF mode # "up" THEN "down"
             ELSE CASE stage = "idle"   -> "idle"
                    [] stage = "save"   -> "changed"
                    [] stage = "reply"  -> "saved"

\* What is answered as saved is what a restart finds, and a restart finds one
\* whole configuration, whatever fails or ends in between.
IsDurable == Durable!Spec

(* What the repository says of the code and the code does not do: no run has *)
(* it; TLC refutes it with the constants of RelayStore_safety.cfg.            *)

\* README.md:1144-1146: the responses that create a client or rotate its key
\* "contain passphrase exactly once".
KeysAreNew == stage = "reply" => Reissued = {}
=============================================================================

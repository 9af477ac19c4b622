------------------------- MODULE StreamStoreProofs --------------------------
(***************************************************************************)
(* Proofs about StreamStore, for any streams, profiles, users, request     *)
(* bodies and bounds.  What calls and load have checked of a configuration *)
(* (Sound) stays true of memory and of the file, the secret and the        *)
(* administrator that tokens rest on are in the file for good (AuthKept),  *)
(* and tokens stay behind the accounts they were made for (Followed).      *)
(***************************************************************************)
EXTENDS StreamStore, TLAPS

-----------------------------------------------------------------------------
(* The inductive invariant *)

\* What the calls and load have checked of profiles ps and streams ss.
Sound(ps, ss) ==
    /\ \A p \in DOMAIN ps : ProfileAccepted(ps[p]) /\ normalizeProfile(ps[p]) = ps[p]
    /\ \A s \in DOMAIN ss : /\ StreamAccepted(ss[s]) /\ normalizeConfig(ss[s]) = ss[s]
                            /\ ss[s].profile \in DOMAIN ps

\* A call is under way, and memory is in use, only in a process; the answer is
\* given after the rename, and NewStore ends before a login begins.
Running ==
    /\ mode = "down" => streams = Empty /\ profiles = Empty /\ users = Empty /\ secret = NoSecret
    /\ mode = "down" => stage = "idle"
    /\ mode # "down" => DefaultProfile \in DOMAIN profiles
    /\ mode # "up" => reading = {}
    /\ stage = "reply" => file = Current

Configured == TypeOK /\ Running /\ Sound(profiles, streams) /\ Sound(file.profiles, file.streams)

\* While a process is up, and once tokens exist, the file holds the secret and
\* the administrator: ensureAuth makes neither again.
AuthKept ==
    /\ mode = "up" => secret = file.secret /\ Admin \in DOMAIN file.users
    /\ \A t \in tokens : t.secret = file.secret
    /\ tokens # {} => Admin \in DOMAIN file.users
    /\ mode = "boot" /\ stage = "idle" => users = file.users /\ secret = file.secret
    /\ mode = "boot" /\ stage # "idle" => tokens = {} /\ AuthComplete

\* The claims x are not ahead of the account they were made for, as the table us
\* holds it, and of its version exactly when they are of its password.
Follows(x, us) ==
    x.user \in DOMAIN us /\ us[x.user].born = x.born =>
      /\ x.version <= us[x.user].version
      /\ x.version = us[x.user].version <=> x.changed = us[x.user].changed

Stamped(us) == \A u \in DOMAIN us : us[u].born <= stamp /\ us[u].changed <= stamp

Followed ==
    /\ Stamped(users) /\ Stamped(file.users)
    /\ \A x \in reading \cup tokens :
          /\ x.born <= stamp /\ x.changed <= stamp
          /\ x.saved => Follows(x, users) /\ Follows(x, file.users)

IndInv == Configured /\ AuthKept /\ Followed

-----------------------------------------------------------------------------
(* The helpers *)

\* Put changes one key; all others stay.
LEMMA PutFacts ==
    ASSUME NEW f, NEW D, NEW V, Partial(f, D, V), NEW k \in D, NEW v \in V
    PROVE  /\ Partial(Put(f, k, v), D, V)
           /\ DOMAIN Put(f, k, v) = DOMAIN f \cup {k}
           /\ Put(f, k, v)[k] = v
           /\ \A x \in DOMAIN f \ {k} : Put(f, k, v)[x] = f[x]
  BY DEF Partial, Put

\* Drop removes one key; all others stay.
LEMMA DropFacts ==
    ASSUME NEW f, NEW D, NEW V, Partial(f, D, V), NEW k
    PROVE  /\ Partial(Drop(f, k), D, V)
           /\ DOMAIN Drop(f, k) = DOMAIN f \ {k}
           /\ \A x \in DOMAIN f \ {k} : Drop(f, k)[x] = f[x]
  BY DEF Partial, Drop, Restrict

\* The empty map.
LEMMA EmptyFacts ==
    ASSUME NEW D, NEW V
    PROVE  Partial(Empty, D, V) /\ DOMAIN Empty = {}
  BY DEF Partial, Empty

\* The values of a partial map.
LEMMA PartialValue ==
    ASSUME NEW f, NEW D, NEW V, Partial(f, D, V), NEW k \in DOMAIN f
    PROVE  f[k] \in V /\ k \in D
  BY DEF Partial

\* A policy is normalised once: defaults are no zeros, and one that is off stays.
LEMMA PolicyFacts ==
    ASSUME NEW p \in Policies
    PROVE  NormalPolicy(p) \in Policies /\ NormalPolicy(NormalPolicy(p)) = NormalPolicy(p)
  <1>0. p.given \in BOOLEAN /\ p.enabled \in BOOLEAN /\ p.value \in Int
    BY DEF Policies
  <1> DEFINE v == Defaulted(p.value, 5)
  <1>1. v \in Int /\ Defaulted(v, 5) = v
    BY <1>0 DEF Defaulted
  <1> HIDE DEF v
  <1>2. CASE ~p.given
    <2> DEFINE d == [given |-> TRUE, enabled |-> TRUE, value |-> 5]
    <2>1. NormalPolicy(p) = d
      BY <1>2 DEF NormalPolicy
    <2>2. NormalPolicy(d) = [d EXCEPT !.value = Defaulted(5, 5)]
      BY DEF NormalPolicy
    <2>3. Defaulted(5, 5) = 5
      BY DEF Defaulted
    <2>4. NormalPolicy(d) = d
      BY <2>2, <2>3
    <2> QED
      BY <2>1, <2>4 DEF Policies
  <1>3. CASE p.given /\ ~p.enabled
    BY <1>3 DEF NormalPolicy
  <1>4. CASE p.given /\ p.enabled
    <2> DEFINE d == [p EXCEPT !.value = v]
    <2>1. NormalPolicy(p) = d
      BY <1>4 DEF NormalPolicy, v
    <2>2. d \in Policies /\ d.given /\ d.enabled /\ d.value = v
      BY <1>1, <1>4 DEF Policies
    <2>3. NormalPolicy(d) = [d EXCEPT !.value = Defaulted(d.value, 5)]
      BY <2>2 DEF NormalPolicy
    <2>4. [d EXCEPT !.value = v] = d
      BY DEF Policies
    <2> QED
      BY <1>1, <2>1, <2>2, <2>3, <2>4
  <1> QED
    BY <1>0, <1>2, <1>3, <1>4

\* A record of each type is made of its fields.
LEMMA RecordFields ==
    /\ \A x \in StreamBody : x = [profile |-> x.profile, retention |-> x.retention, valid |-> x.valid,
                                  restart |-> x.restart, watchdog |-> x.watchdog]
    /\ \A x \in ProfileBody : x = [template |-> x.template, codecs |-> x.codecs, format |-> x.format]
    /\ \A x \in User : x = [version |-> x.version, born |-> x.born, changed |-> x.changed]
  <1>1. ASSUME NEW x \in StreamBody
        PROVE  x = [profile |-> x.profile, retention |-> x.retention, valid |-> x.valid,
                     restart |-> x.restart, watchdog |-> x.watchdog]
    BY DEF StreamBody
  <1>2. ASSUME NEW x \in ProfileBody
        PROVE  x = [template |-> x.template, codecs |-> x.codecs, format |-> x.format]
    BY DEF ProfileBody
  <1>3. ASSUME NEW x \in User
        PROVE  x = [version |-> x.version, born |-> x.born, changed |-> x.changed]
    BY DEF User
  <1> QED
    BY <1>1, <1>2, <1>3

\* What normalizeConfig does to each field.
LEMMA NormalConfigFields ==
    ASSUME NEW q \in StreamBody
    PROVE  LET n == normalizeConfig(q)
           IN  /\ n \in StreamBody
               /\ n.profile = IF q.profile = "" THEN DefaultProfile ELSE q.profile
               /\ n.retention = Defaulted(q.retention, 60)
               /\ n.valid = q.valid
               /\ n.restart = NormalPolicy(q.restart)
               /\ n.watchdog = NormalPolicy(q.watchdog)
  <1> DEFINE p == IF q.profile = "" THEN DefaultProfile ELSE q.profile
             r == Defaulted(q.retention, 60)
             a == NormalPolicy(q.restart)
             b == NormalPolicy(q.watchdog)
  <1>1. normalizeConfig(q) = [q EXCEPT !.profile = p, !.retention = r, !.restart = a, !.watchdog = b]
    BY DEF normalizeConfig
  <1>2. /\ q.profile \in ProfileNames \cup {""} /\ q.retention \in Int
        /\ q.restart \in Policies /\ q.watchdog \in Policies
    BY DEF StreamBody
  <1>3. p \in ProfileNames \cup {""}
    BY <1>2, NamesAssumption
  <1>4. r \in Int
    <2>1. q.retention \in Int
      BY <1>2
    <2> QED
      BY <2>1 DEF Defaulted
  <1>5. a \in Policies /\ b \in Policies
    BY <1>2, PolicyFacts
  <1> HIDE DEF p, r, a, b
  <1>6. normalizeConfig(q) \in StreamBody
    BY <1>1, <1>3, <1>4, <1>5 DEF StreamBody
  <1>7. LET n == normalizeConfig(q)
        IN  /\ n.profile = p /\ n.retention = r /\ n.valid = q.valid
            /\ n.restart = a /\ n.watchdog = b
    BY <1>1 DEF StreamBody
  <1> QED
    BY <1>6, <1>7 DEF p, r, a, b

\* A normalised stream has a profile and, once accepted, a retention; load
\* normalises it to itself.
LEMMA NormalConfig ==
    ASSUME NEW q \in StreamBody
    PROVE  LET n == normalizeConfig(q)
           IN  /\ n \in StreamBody /\ n.profile # ""
               /\ n.retention >= 0 => n.retention >= 1
               /\ normalizeConfig(n) = n
  <1> DEFINE n == normalizeConfig(q)
             m == normalizeConfig(n)
  <1>1. /\ n \in StreamBody
        /\ n.profile = IF q.profile = "" THEN DefaultProfile ELSE q.profile
        /\ n.retention = Defaulted(q.retention, 60)
        /\ n.restart = NormalPolicy(q.restart) /\ n.watchdog = NormalPolicy(q.watchdog)
    BY NormalConfigFields
  <1>2. /\ q.retention \in Int /\ q.restart \in Policies /\ q.watchdog \in Policies
    BY DEF StreamBody
  <1> HIDE DEF n
  <1>3. /\ m \in StreamBody
        /\ m.profile = IF n.profile = "" THEN DefaultProfile ELSE n.profile
        /\ m.retention = Defaulted(n.retention, 60)
        /\ m.valid = n.valid
        /\ m.restart = NormalPolicy(n.restart) /\ m.watchdog = NormalPolicy(n.watchdog)
    BY <1>1, NormalConfigFields
  <1> HIDE DEF m
  <1>4. n.profile # ""
    BY <1>1, NamesAssumption
  <1>5. Defaulted(n.retention, 60) = n.retention
    BY <1>1, <1>2 DEF Defaulted
  <1>6. n.retention >= 0 => n.retention >= 1
    <2>1. q.retention \in Int /\ n.retention = Defaulted(q.retention, 60)
      BY <1>1, <1>2
    <2> QED
      BY <2>1 DEF Defaulted
  <1>7. m.restart = n.restart /\ m.watchdog = n.watchdog
    BY <1>1, <1>2, <1>3, PolicyFacts
  <1>8. m.profile = n.profile /\ m.retention = n.retention /\ m.valid = n.valid
    BY <1>3, <1>4, <1>5
  <1>9. m = n
    BY <1>1, <1>3, <1>7, <1>8, RecordFields
  <1> QED
    BY <1>1, <1>4, <1>6, <1>9 DEF m, n

\* A profile is normalised once, and the built-in one is.
LEMMA NormalProfile ==
    /\ \A q \in ProfileBody :
          /\ normalizeProfile(q) \in ProfileBody
          /\ normalizeProfile(normalizeProfile(q)) = normalizeProfile(q)
    /\ BuiltIn \in ProfileBody /\ ProfileAccepted(BuiltIn) /\ normalizeProfile(BuiltIn) = BuiltIn
  <1>1. ASSUME NEW q \in ProfileBody
        PROVE  /\ normalizeProfile(q) \in ProfileBody
               /\ normalizeProfile(normalizeProfile(q)) = normalizeProfile(q)
    <2> DEFINE f == IF q.template THEN q.format ELSE "mpegts"
               n == normalizeProfile(q)
    <2>1. n = [q EXCEPT !.format = f] /\ f \in {"", "mpegts"}
      BY DEF normalizeProfile, ProfileBody
    <2>2. n \in ProfileBody /\ n.template = q.template /\ n.format = f
      BY <2>1 DEF ProfileBody
    <2>3. normalizeProfile(n) = [n EXCEPT !.format = IF n.template THEN n.format ELSE "mpegts"]
      BY DEF normalizeProfile
    <2>4. (IF n.template THEN n.format ELSE "mpegts") = n.format
      BY <2>2
    <2>5. [n EXCEPT !.format = n.format] = n
      BY <2>2 DEF ProfileBody
    <2> QED
      BY <2>2, <2>3, <2>4, <2>5
  <1>2. BuiltIn \in ProfileBody /\ ProfileAccepted(BuiltIn)
    BY DEF BuiltIn, ProfileBody, ProfileAccepted
  <1>3. normalizeProfile(BuiltIn) = BuiltIn
    BY DEF BuiltIn, normalizeProfile
  <1> QED
    BY <1>1, <1>2, <1>3

\* What ConfigOK says of streams.
StreamsOK(ss) ==
    /\ Partial(ss, StreamIds, StreamBody)
    /\ \A s \in DOMAIN ss : ss[s].profile # "" /\ ss[s].retention >= 1

\* A configuration is right when its four parts are.
LEMMA ConfigParts ==
    ASSUME NEW ss, NEW ps, NEW us, NEW k
    PROVE  LET c == [streams |-> ss, profiles |-> ps, users |-> us, secret |-> k]
           IN  ConfigOK(c) <=> /\ StreamsOK(ss)
                               /\ Partial(ps, ProfileNames, ProfileBody)
                               /\ Partial(us, UserNames, User)
                               /\ k \in Secrets \cup {NoSecret}
  BY DEF ConfigOK, StreamsOK

\* The parts of a configuration that is right.
LEMMA PartsOfConfig ==
    ASSUME NEW c, ConfigOK(c)
    PROVE  /\ c = [streams |-> c.streams, profiles |-> c.profiles, users |-> c.users, secret |-> c.secret]
           /\ StreamsOK(c.streams) /\ Partial(c.profiles, ProfileNames, ProfileBody)
           /\ Partial(c.users, UserNames, User) /\ c.secret \in Secrets \cup {NoSecret}
  BY DEF ConfigOK, StreamsOK

\* The built-in profile is added to sound profiles, and every stream keeps its own.
LEMMA EnsuredFacts ==
    ASSUME NEW ps, NEW ss, Partial(ps, ProfileNames, ProfileBody), Sound(ps, ss)
    PROVE  /\ Partial(ensureDefaultProfiles(ps), ProfileNames, ProfileBody)
           /\ DefaultProfile \in DOMAIN ensureDefaultProfiles(ps)
           /\ Sound(ensureDefaultProfiles(ps), ss)
  <1>1. CASE DefaultProfile \in DOMAIN ps
    BY <1>1 DEF ensureDefaultProfiles
  <1>2. CASE DefaultProfile \notin DOMAIN ps
    <2> DEFINE n == Put(ps, DefaultProfile, BuiltIn)
    <2>1. ensureDefaultProfiles(ps) = n
      BY <1>2 DEF ensureDefaultProfiles
    <2>2. /\ Partial(n, ProfileNames, ProfileBody) /\ DOMAIN n = DOMAIN ps \cup {DefaultProfile}
          /\ n[DefaultProfile] = BuiltIn
          /\ \A x \in DOMAIN ps \ {DefaultProfile} : n[x] = ps[x]
      <3>1. DefaultProfile \in ProfileNames /\ BuiltIn \in ProfileBody
        BY NamesAssumption, NormalProfile
      <3> QED
        BY <3>1, PutFacts
    <2> HIDE DEF n
    <2>3. ASSUME NEW p \in DOMAIN n
          PROVE  ProfileAccepted(n[p]) /\ normalizeProfile(n[p]) = n[p]
      <3>1. CASE p = DefaultProfile
        BY <2>2, <3>1, NormalProfile
      <3>2. CASE p # DefaultProfile
        BY <2>2, <3>2 DEF Sound
      <3> QED
        BY <3>1, <3>2
    <2>4. \A s \in DOMAIN ss : /\ StreamAccepted(ss[s]) /\ normalizeConfig(ss[s]) = ss[s]
                               /\ ss[s].profile \in DOMAIN n
      BY <2>2 DEF Sound
    <2> QED
      BY <2>1, <2>2, <2>3, <2>4 DEF Sound
  <1> QED
    BY <1>1, <1>2

\* Load takes a sound file as it is, but for the built-in profile, and accepts it.
LEMMA RecoveredFacts ==
    ASSUME NEW f, ConfigOK(f), Sound(f.profiles, f.streams)
    PROVE  /\ Recovered(f) = [streams |-> f.streams, profiles |-> ensureDefaultProfiles(f.profiles),
                              users |-> f.users, secret |-> f.secret]
           /\ LoadAccepts(f)
           /\ DefaultProfile \in DOMAIN f.profiles => Recovered(f) = f
  <1>0. /\ f = [streams |-> f.streams, profiles |-> f.profiles, users |-> f.users, secret |-> f.secret]
        /\ StreamsOK(f.streams) /\ Partial(f.profiles, ProfileNames, ProfileBody)
        /\ Partial(f.users, UserNames, User)
    BY PartsOfConfig
  <1> DEFINE ps == f.profiles
             ss == f.streams
             us == f.users
  <1>1. [p \in DOMAIN ps |-> normalizeProfile(ps[p])] = ps
    BY <1>0 DEF Partial, Sound
  <1>2. [s \in DOMAIN ss |-> normalizeConfig(ss[s])] = ss
    BY <1>0 DEF Partial, Sound, StreamsOK
  <1>3. [u \in DOMAIN us |-> VersionedUser(us[u])] = us
    <2>1. ASSUME NEW u \in DOMAIN us
          PROVE  VersionedUser(us[u]) = us[u]
      <3>1. us[u] \in User
        BY <1>0, PartialValue
      <3>2. us[u].version \in Nat \ {0}
        BY <3>1 DEF User
      <3>3. (IF us[u].version < 1 THEN 1 ELSE us[u].version) = us[u].version
        BY <3>2
      <3> QED
        BY <3>1, <3>3 DEF User, VersionedUser
    <2> QED
      BY <1>0, <2>1 DEF Partial
  <1>4. Recovered(f) = [f EXCEPT !.profiles = ensureDefaultProfiles(ps), !.users = us, !.streams = ss]
    <2> DEFINE np == [p \in DOMAIN f.profiles |-> normalizeProfile(f.profiles[p])]
               ns == [s \in DOMAIN f.streams |-> normalizeConfig(f.streams[s])]
               nu == [u \in DOMAIN f.users |-> VersionedUser(f.users[u])]
    <2>1. Recovered(f) = [f EXCEPT !.profiles = ensureDefaultProfiles(np), !.users = nu, !.streams = ns]
      BY DEF Recovered
    <2>2. np = ps /\ ns = ss /\ nu = us
      BY <1>1, <1>2, <1>3
    <2> HIDE DEF np, ns, nu
    <2> QED
      BY <2>1, <2>2
  <1> DEFINE l == [streams |-> ss, profiles |-> ensureDefaultProfiles(ps), users |-> us, secret |-> f.secret]
  <1>5. Recovered(f) = l
    BY <1>0, <1>4
  <1>6. LoadAccepts(f)
    <2>1. Sound(ensureDefaultProfiles(ps), ss)
      BY <1>0, EnsuredFacts
    <2>2. l.profiles = ensureDefaultProfiles(ps) /\ l.streams = ss
      OBVIOUS
    <2> QED
      BY <1>5, <2>1, <2>2 DEF LoadAccepts, Sound
  <1>7. DefaultProfile \in DOMAIN ps => l = f
    BY <1>0 DEF ensureDefaultProfiles
  <1> QED
    BY <1>5, <1>6, <1>7

-----------------------------------------------------------------------------
(* The inductive invariant holds *)

\* The types of the variables one by one.
Types ==
    /\ StreamsOK(streams) /\ Partial(profiles, ProfileNames, ProfileBody)
    /\ Partial(users, UserNames, User) /\ secret \in Secrets \cup {NoSecret}
    /\ ConfigOK(file)
    /\ mode \in {"down", "boot", "up"} /\ stage \in {"idle", "save", "reply"}
    /\ mode = "up" => AuthComplete
    /\ failures \in 0 .. MaxFailures /\ stamp \in 0 .. MaxStamp
    /\ reading \subseteq Claim /\ tokens \subseteq Token

LEMMA TypeParts == (TypeOK <=> Types) /\ (TypeOK' <=> Types')
  <1>1. ConfigOK(Current) <=> /\ StreamsOK(streams) /\ Partial(profiles, ProfileNames, ProfileBody)
                              /\ Partial(users, UserNames, User) /\ secret \in Secrets \cup {NoSecret}
    BY ConfigParts DEF Current
  <1>2. ConfigOK(Current)' <=> /\ StreamsOK(streams') /\ Partial(profiles', ProfileNames, ProfileBody)
                               /\ Partial(users', UserNames, User) /\ secret' \in Secrets \cup {NoSecret}
    BY ConfigParts DEF Current
  <1>3. TypeOK <=> Types
    BY <1>1 DEF TypeOK, Types
  <1>4. TypeOK' <=> Types'
    BY <1>2 DEF TypeOK, Types
  <1> QED
    BY <1>3, <1>4

\* Nothing is stored at first.
LEMMA InitInd == Init => IndInv
  <1> SUFFICES ASSUME Init PROVE IndInv
    OBVIOUS
  <1>1. /\ StreamsOK(Empty) /\ Partial(Empty, ProfileNames, ProfileBody)
        /\ Partial(Empty, UserNames, User) /\ DOMAIN Empty = {}
    BY EmptyFacts DEF StreamsOK
  <1>2. /\ streams = Empty /\ profiles = Empty /\ users = Empty /\ secret = NoSecret
        /\ file.streams = Empty /\ file.profiles = Empty /\ file.users = Empty
        /\ reading = {} /\ tokens = {} /\ mode = "down" /\ stage = "idle"
    BY DEF Init, Current
  <1>3. TypeOK
    <2>1. ConfigOK(file)
      BY <1>1, ConfigParts DEF Init, Current
    <2>2. failures \in 0 .. MaxFailures /\ stamp \in 0 .. MaxStamp
      BY BoundAssumption DEF Init
    <2> QED
      BY <1>1, <1>2, <2>1, <2>2, TypeParts DEF Types
  <1>4. Sound(Empty, Empty)
    BY <1>1 DEF Sound
  <1> QED
    BY <1>1, <1>2, <1>3, <1>4 DEF IndInv, Configured, Running, AuthKept, Followed, Stamped

\* A call on streams or profiles that leaves them right and sound.
LEMMA ConfigCall ==
    ASSUME IndInv, Ready, Saves, UNCHANGED <<users, secret, stamp>>,
           StreamsOK(streams'), Partial(profiles', ProfileNames, ProfileBody),
           DefaultProfile \in DOMAIN profiles', Sound(profiles', streams')
    PROVE  IndInv'
  <1>1. TypeOK'
    BY TypeParts DEF IndInv, Configured, Types, Ready, Saves, AuthComplete
  <1>2. Running'
    BY DEF IndInv, Configured, Ready, Saves, Running
  <1>3. Sound(profiles, streams)' /\ Sound(file.profiles, file.streams)'
    BY DEF IndInv, Configured, Saves
  <1>4. AuthKept'
    BY DEF IndInv, AuthKept, Ready, Saves
  <1>5. Followed'
    BY DEF IndInv, Followed, Stamped, Saves
  <1> QED
    BY <1>1, <1>2, <1>3, <1>4, <1>5 DEF IndInv, Configured

LEMMA StreamStep ==
    ASSUME IndInv, NEW s \in StreamIds, Delete(s) \/ \E q \in StreamRequests : Upsert(s, q)
    PROVE  IndInv'
  <1>0. /\ StreamsOK(streams) /\ Partial(profiles, ProfileNames, ProfileBody)
        /\ Sound(profiles, streams)
    BY TypeParts DEF IndInv, Configured, Types
  <1>1. Ready => DefaultProfile \in DOMAIN profiles
    BY DEF IndInv, Configured, Running, Ready
  <1>2. CASE Delete(s)
    <2>1. /\ Partial(streams', StreamIds, StreamBody) /\ DOMAIN streams' \subseteq DOMAIN streams
          /\ \A x \in DOMAIN streams' : streams'[x] = streams[x]
      BY <1>0, <1>2 DEF Delete, StreamsOK, Partial, Drop, Restrict
    <2>2. StreamsOK(streams') /\ Sound(profiles, streams')
      BY <1>0, <2>1 DEF StreamsOK, Sound
    <2>3. Ready /\ Saves /\ UNCHANGED <<profiles, users, secret, stamp>>
      BY <1>2 DEF Delete
    <2>4. /\ Partial(profiles', ProfileNames, ProfileBody) /\ DefaultProfile \in DOMAIN profiles'
          /\ Sound(profiles', streams')
      BY <1>0, <1>1, <2>2, <2>3
    <2> QED
      BY <2>2, <2>3, <2>4, ConfigCall
  <1>3. ASSUME NEW q \in StreamRequests, Upsert(s, q)
        PROVE  IndInv'
    <2> DEFINE n == normalizeConfig(q)
    <2>1. /\ n \in StreamBody /\ n.profile # "" /\ (n.retention >= 0 => n.retention >= 1)
          /\ normalizeConfig(n) = n
      BY NormalConfig, RequestAssumption
    <2>2. Ready /\ Saves /\ StreamAccepted(n) /\ n.profile \in DOMAIN profiles
          /\ streams' = Put(streams, s, n) /\ UNCHANGED <<profiles, users, secret, stamp>>
      BY <1>3 DEF Upsert
    <2> HIDE DEF n
    <2>3. n.retention >= 1
      BY <2>1, <2>2 DEF StreamAccepted
    <2>4. /\ Partial(streams', StreamIds, StreamBody) /\ DOMAIN streams' = DOMAIN streams \cup {s}
          /\ streams'[s] = n /\ \A x \in DOMAIN streams \ {s} : streams'[x] = streams[x]
      BY <1>0, <2>1, <2>2 DEF StreamsOK, Partial, Put
    <2>5. StreamsOK(streams')
      BY <1>0, <2>1, <2>3, <2>4 DEF StreamsOK
    <2>6. Sound(profiles', streams')
      <3>1. ASSUME NEW x \in DOMAIN streams'
            PROVE  /\ StreamAccepted(streams'[x]) /\ normalizeConfig(streams'[x]) = streams'[x]
                   /\ streams'[x].profile \in DOMAIN profiles
        <4>1. CASE x = s
          BY <2>1, <2>2, <2>4, <4>1
        <4>2. CASE x # s
          BY <1>0, <2>4, <4>2 DEF Sound
        <4> QED
          BY <4>1, <4>2
      <3> QED
        BY <1>0, <2>2, <3>1 DEF Sound
    <2>7. Partial(profiles', ProfileNames, ProfileBody) /\ DefaultProfile \in DOMAIN profiles'
      BY <1>0, <1>1, <2>2
    <2> QED
      BY <2>2, <2>5, <2>6, <2>7, ConfigCall
  <1> QED
    BY <1>2, <1>3

LEMMA ProfileStep ==
    ASSUME IndInv, NEW p \in ProfileNames,
           DeleteProfile(p) \/ \E q \in ProfileRequests : UpsertProfile(p, q)
    PROVE  IndInv'
  <1>0. /\ StreamsOK(streams) /\ Partial(profiles, ProfileNames, ProfileBody)
        /\ Sound(profiles, streams)
    BY TypeParts DEF IndInv, Configured, Types
  <1>1. Ready => DefaultProfile \in DOMAIN profiles
    BY DEF IndInv, Configured, Running, Ready
  <1>2. CASE DeleteProfile(p)
    <2>1. Ready /\ Saves /\ p # DefaultProfile /\ (\A s \in DOMAIN streams : streams[s].profile # p)
          /\ profiles' = Drop(profiles, p) /\ UNCHANGED <<streams, users, secret, stamp>>
      BY <1>2 DEF DeleteProfile
    <2>2. /\ Partial(profiles', ProfileNames, ProfileBody) /\ DOMAIN profiles' = DOMAIN profiles \ {p}
          /\ \A x \in DOMAIN profiles \ {p} : profiles'[x] = profiles[x]
      BY <1>0, <2>1, DropFacts
    <2>3. Sound(profiles', streams')
      <3>1. \A x \in DOMAIN profiles' :
               ProfileAccepted(profiles'[x]) /\ normalizeProfile(profiles'[x]) = profiles'[x]
        BY <1>0, <2>2 DEF Sound
      <3>2. \A s \in DOMAIN streams' :
               /\ StreamAccepted(streams'[s]) /\ normalizeConfig(streams'[s]) = streams'[s]
               /\ streams'[s].profile \in DOMAIN profiles'
        BY <1>0, <2>1, <2>2 DEF Sound
      <3> QED
        BY <3>1, <3>2 DEF Sound
    <2>4. DefaultProfile \in DOMAIN profiles' /\ StreamsOK(streams')
      BY <1>0, <1>1, <2>1, <2>2
    <2> QED
      BY <2>1, <2>2, <2>3, <2>4, ConfigCall
  <1>3. ASSUME NEW q \in ProfileRequests, UpsertProfile(p, q)
        PROVE  IndInv'
    <2> DEFINE n == normalizeProfile(q)
    <2>1. n \in ProfileBody /\ normalizeProfile(n) = n
      BY NormalProfile, RequestAssumption
    <2>2. Ready /\ Saves /\ ProfileAccepted(n)
          /\ profiles' = Put(profiles, p, n) /\ UNCHANGED <<streams, users, secret, stamp>>
      BY <1>3 DEF UpsertProfile
    <2> HIDE DEF n
    <2>3. /\ Partial(profiles', ProfileNames, ProfileBody) /\ DOMAIN profiles' = DOMAIN profiles \cup {p}
          /\ profiles'[p] = n /\ \A x \in DOMAIN profiles \ {p} : profiles'[x] = profiles[x]
      BY <1>0, <2>1, <2>2 DEF Partial, Put
    <2>4. Sound(profiles', streams')
      <3>1. ASSUME NEW x \in DOMAIN profiles'
            PROVE  ProfileAccepted(profiles'[x]) /\ normalizeProfile(profiles'[x]) = profiles'[x]
        <4>1. CASE x = p
          BY <2>1, <2>2, <2>3, <4>1
        <4>2. CASE x # p
          BY <1>0, <2>3, <4>2 DEF Sound
        <4> QED
          BY <4>1, <4>2
      <3>2. \A s \in DOMAIN streams' :
               /\ StreamAccepted(streams'[s]) /\ normalizeConfig(streams'[s]) = streams'[s]
               /\ streams'[s].profile \in DOMAIN profiles'
        BY <1>0, <2>2, <2>3 DEF Sound
      <3> QED
        BY <3>1, <3>2 DEF Sound
    <2>5. DefaultProfile \in DOMAIN profiles' /\ StreamsOK(streams')
      BY <1>0, <1>1, <2>2, <2>3
    <2> QED
      BY <2>2, <2>3, <2>4, <2>5, ConfigCall
  <1> QED
    BY <1>2, <1>3

\* A call on accounts that leaves claims behind the accounts they are of.
LEMMA AccountCall ==
    ASSUME IndInv, Ready, Saves, UNCHANGED <<streams, profiles, secret>>,
           stamp' \in 0 .. MaxStamp, stamp <= stamp',
           Partial(users', UserNames, User), Admin \in DOMAIN users', Stamped(users)',
           \A x \in reading \cup tokens : x.saved => Follows(x, users')
    PROVE  IndInv'
  <1>0. Types
    BY TypeParts DEF IndInv, Configured
  <1>1. TypeOK'
    <2>1. AuthComplete'
      BY <1>0 DEF Types, Ready, AuthComplete
    <2> QED
      BY <1>0, <2>1, TypeParts DEF Types, Ready, Saves
  <1>2. Running'
    BY DEF IndInv, Configured, Ready, Saves, Running
  <1>3. Sound(profiles, streams)' /\ Sound(file.profiles, file.streams)'
    BY DEF IndInv, Configured, Saves
  <1>4. AuthKept'
    BY DEF IndInv, AuthKept, Ready, Saves
  <1>5. Followed'
    <2>1. Stamped(file.users)'
      <3>1. Partial(file.users, UserNames, User)
        BY <1>0, PartsOfConfig DEF Types
      <3>2. ASSUME NEW u \in DOMAIN file.users
            PROVE  file.users[u].born <= stamp' /\ file.users[u].changed <= stamp'
        <4>1. file.users[u] \in User
          BY <3>1, PartialValue
        <4>2. file.users[u].born \in Nat /\ file.users[u].changed \in Nat
          BY <4>1 DEF User
        <4>3. stamp \in Nat /\ stamp' \in Nat
          BY <1>0, BoundAssumption DEF Types
        <4>4. file.users[u].born <= stamp /\ file.users[u].changed <= stamp
          BY DEF IndInv, Followed, Stamped
        <4> QED
          BY <4>2, <4>3, <4>4
      <3> QED
        BY <3>2 DEF Stamped, Saves
    <2>2. ASSUME NEW x \in reading \cup tokens
          PROVE  x.born <= stamp' /\ x.changed <= stamp'
      <3>1. x.born \in Nat /\ x.changed \in Nat
        BY <1>0 DEF Types, Claim, Token
      <3>2. stamp \in Nat /\ stamp' \in Nat
        BY <1>0, BoundAssumption DEF Types
      <3>3. x.born <= stamp /\ x.changed <= stamp
        BY DEF IndInv, Followed
      <3> QED
        BY <3>1, <3>2, <3>3
    <2>3. \A x \in reading \cup tokens : x.saved => Follows(x, file.users)
      BY DEF IndInv, Followed
    <2>4. UNCHANGED <<file, reading, tokens>>
      BY DEF Saves
    <2>5. \A x \in (reading \cup tokens)' :
             /\ x.born <= stamp' /\ x.changed <= stamp'
             /\ x.saved => Follows(x, users') /\ Follows(x, file'.users)
      BY <2>2, <2>3, <2>4
    <2> QED
      BY <2>1, <2>5 DEF Followed
  <1> QED
    BY <1>1, <1>2, <1>3, <1>4, <1>5 DEF IndInv, Configured

\* An account that is made is younger than all claims; one whose password is
\* changed leaves its claims behind in version and in password.
LEMMA UserStep ==
    ASSUME IndInv, NEW u \in UserNames, CreateUser(u) \/ DeleteUser(u) \/ ChangePassword(u)
    PROVE  IndInv'
  <1>0. Types
    BY TypeParts DEF IndInv, Configured
  <1>1. Partial(users, UserNames, User) /\ stamp \in Nat /\ stamp <= MaxStamp /\ MaxStamp \in Nat
    BY <1>0, BoundAssumption DEF Types
  <1>2. Ready => Admin \in DOMAIN users
    BY <1>0 DEF Types, Ready, AuthComplete
  <1>3. \A x \in reading \cup tokens :
           /\ x.version \in Nat /\ x.born \in Nat /\ x.changed \in Nat
           /\ x.born <= stamp /\ x.changed <= stamp
           /\ x.saved => Follows(x, users)
    <2>1. \A x \in reading \cup tokens : x.version \in Nat /\ x.born \in Nat /\ x.changed \in Nat
      BY <1>0 DEF Types, Claim, Token
    <2> QED
      BY <2>1 DEF IndInv, Followed
  <1>4. ASSUME NEW v \in DOMAIN users
        PROVE  /\ users[v] \in User /\ users[v].version \in Nat \ {0}
               /\ users[v].born \in Nat /\ users[v].changed \in Nat
               /\ users[v].born <= stamp /\ users[v].changed <= stamp
    <2>1. users[v] \in User
      BY <1>1, PartialValue
    <2>2. users[v].born <= stamp /\ users[v].changed <= stamp
      BY DEF IndInv, Followed, Stamped
    <2> QED
      BY <2>1, <2>2 DEF User
  <1>5. CASE CreateUser(u)
    <2> DEFINE n == NewUser(stamp + 1)
    <2>1. /\ Ready /\ Saves /\ u \notin DOMAIN users /\ stamp < MaxStamp /\ stamp' = stamp + 1
          /\ users' = Put(users, u, n) /\ UNCHANGED <<streams, profiles, secret>>
      BY <1>5 DEF CreateUser
    <2>2. n \in User /\ n.born = stamp + 1 /\ n.changed = stamp + 1
      BY <1>1 DEF NewUser, User
    <2> HIDE DEF n
    <2>3. /\ Partial(users', UserNames, User) /\ DOMAIN users' = DOMAIN users \cup {u}
          /\ users'[u] = n /\ \A v \in DOMAIN users : users'[v] = users[v]
      BY <1>1, <2>1, <2>2 DEF Partial, Put
    <2>4. Stamped(users)'
      <3>1. ASSUME NEW v \in DOMAIN users'
            PROVE  users'[v].born <= stamp' /\ users'[v].changed <= stamp'
        <4>1. CASE v = u
          BY <1>1, <2>1, <2>2, <2>3, <4>1
        <4>2. CASE v # u
          BY <1>1, <1>4, <2>1, <2>3, <4>2
        <4> QED
          BY <4>1, <4>2
      <3> QED
        BY <3>1 DEF Stamped
    <2>5. ASSUME NEW x \in reading \cup tokens, x.saved
          PROVE  Follows(x, users')
      <3>1. CASE x.user = u
        <4>1. users'[x.user].born # x.born
          BY <1>1, <1>3, <2>2, <2>3, <3>1
        <4> QED
          BY <4>1 DEF Follows
      <3>2. CASE x.user # u
        BY <1>3, <2>3, <2>5, <3>2 DEF Follows
      <3> QED
        BY <3>1, <3>2
    <2>6. stamp' \in 0 .. MaxStamp /\ stamp <= stamp'
      BY <1>1, <2>1
    <2>7. Admin \in DOMAIN users'
      BY <1>2, <2>1, <2>3
    <2> QED
      BY <2>1, <2>3, <2>4, <2>5, <2>6, <2>7, AccountCall
  <1>6. CASE DeleteUser(u)
    <2>1. /\ Ready /\ Saves /\ u # Admin /\ users' = Drop(users, u)
          /\ UNCHANGED <<streams, profiles, secret, stamp>>
      BY <1>6 DEF DeleteUser
    <2>2. /\ Partial(users', UserNames, User) /\ DOMAIN users' = DOMAIN users \ {u}
          /\ \A v \in DOMAIN users' : users'[v] = users[v]
      BY <1>1, <2>1 DEF Partial, Drop, Restrict
    <2>3. Stamped(users)'
      BY <1>4, <2>1, <2>2 DEF Stamped
    <2>4. \A x \in reading \cup tokens : x.saved => Follows(x, users')
      BY <1>3, <2>2 DEF Follows
    <2>5. stamp' \in 0 .. MaxStamp /\ stamp <= stamp'
      BY <1>1, <2>1
    <2>6. Admin \in DOMAIN users'
      BY <1>2, <2>1, <2>2
    <2> QED
      BY <2>1, <2>2, <2>3, <2>4, <2>5, <2>6, AccountCall
  <1>7. CASE ChangePassword(u)
    <2> DEFINE n == [users[u] EXCEPT !.version = @ + 1, !.changed = stamp + 1]
    <2>1. /\ Ready /\ Saves /\ u \in DOMAIN users /\ stamp < MaxStamp /\ stamp' = stamp + 1
          /\ UNCHANGED <<streams, profiles, secret>>
      BY <1>7 DEF ChangePassword
    <2>2. users' = [users EXCEPT ![u].version = @ + 1, ![u].changed = stamp + 1]
      BY <1>7 DEF ChangePassword
    <2>3. users' = [users EXCEPT ![u] = n]
      BY <1>1, <2>1, <2>2 DEF Partial
    <2>4. /\ n \in User /\ n.version = users[u].version + 1 /\ n.born = users[u].born
          /\ n.changed = stamp + 1
      <3>1. users[u].version + 1 \in Nat \ {0} /\ stamp + 1 \in Nat
        BY <1>1, <1>4, <2>1
      <3> QED
        BY <1>4, <2>1, <3>1 DEF User
    <2> HIDE DEF n
    <2>5. /\ Partial(users', UserNames, User) /\ DOMAIN users' = DOMAIN users
          /\ users'[u] = n /\ \A v \in DOMAIN users \ {u} : users'[v] = users[v]
      BY <1>1, <2>1, <2>3, <2>4 DEF Partial
    <2>6. Stamped(users)'
      <3>1. ASSUME NEW v \in DOMAIN users'
            PROVE  users'[v].born <= stamp' /\ users'[v].changed <= stamp'
        <4>1. CASE v = u
          BY <1>1, <1>4, <2>1, <2>4, <2>5, <4>1
        <4>2. CASE v # u
          BY <1>1, <1>4, <2>1, <2>5, <4>2
        <4> QED
          BY <4>1, <4>2
      <3> QED
        BY <3>1 DEF Stamped
    <2>7. ASSUME NEW x \in reading \cup tokens, x.saved
          PROVE  Follows(x, users')
      <3>1. CASE x.user = u /\ n.born = x.born
        <4>1. x.version <= users[u].version
          BY <1>3, <2>1, <2>4, <2>7, <3>1 DEF Follows
        <4>2. x.version <= n.version /\ x.version # n.version /\ x.changed # n.changed
          BY <1>1, <1>3, <1>4, <2>1, <2>4, <4>1
        <4> QED
          BY <2>5, <3>1, <4>2 DEF Follows
      <3>2. CASE x.user = u /\ n.born # x.born
        BY <2>5, <3>2 DEF Follows
      <3>3. CASE x.user # u
        BY <1>3, <2>5, <2>7, <3>3 DEF Follows
      <3> QED
        BY <3>1, <3>2, <3>3
    <2>8. stamp' \in 0 .. MaxStamp /\ stamp <= stamp'
      BY <1>1, <2>1
    <2>9. Admin \in DOMAIN users'
      BY <1>2, <2>1, <2>5
    <2> QED
      BY <2>1, <2>5, <2>6, <2>7, <2>8, <2>9, AccountCall
  <1> QED
    BY <1>5, <1>6, <1>7

\* What a login or a refresh reads of an account.
LEMMA ClaimsFacts ==
    ASSUME IndInv, NEW n \in DOMAIN users
    PROVE  LET c == Claims(n)
           IN  /\ c \in Claim
               /\ c.born <= stamp /\ c.changed <= stamp
               /\ c.saved => Follows(c, users) /\ Follows(c, file.users)
  <1> DEFINE c == Claims(n)
             b == (file = Current)
  <1>1. Partial(users, UserNames, User)
    BY TypeParts DEF IndInv, Configured, Types
  <1>2. users[n] \in User /\ n \in UserNames
    BY <1>1, PartialValue
  <1>3. users[n].version \in Nat \ {0} /\ users[n].born \in Nat /\ users[n].changed \in Nat
    BY <1>2 DEF User
  <1>4. b \in BOOLEAN
    OBVIOUS
  <1>5. c = [user |-> n, version |-> users[n].version, born |-> users[n].born,
             changed |-> users[n].changed, saved |-> b]
    BY DEF Claims
  <1> HIDE DEF b, c
  <1>6. /\ c \in Claim /\ c.user = n /\ c.version = users[n].version /\ c.born = users[n].born
        /\ c.changed = users[n].changed /\ c.saved = b
    BY <1>2, <1>3, <1>4, <1>5 DEF Claim
  <1>7. c.born <= stamp /\ c.changed <= stamp
    BY <1>6 DEF IndInv, Followed, Stamped
  <1>8. Follows(c, users)
    BY <1>3, <1>6 DEF Follows
  <1>9. c.saved => file.users = users
    <2>1. b => file = [streams |-> streams, profiles |-> profiles, users |-> users, secret |-> secret]
      BY DEF b, Current
    <2>2. b => file.users = users
      BY <2>1
    <2> QED
      BY <1>6, <2>2
  <1> QED
    BY <1>6, <1>7, <1>8, <1>9 DEF c

LEMMA TokenStep ==
    ASSUME IndInv,
           \/ \E u \in UserNames : login(u)
           \/ \E t \in tokens : refresh(t)
           \/ \E c \in reading : writeTokenPair(c)
    PROVE  IndInv'
  <1>0. Types
    BY TypeParts DEF IndInv, Configured
  <1>1. Ready /\ UNCHANGED <<streams, profiles, users, secret, file, mode, stage, failures, stamp>>
    BY DEF login, refresh, writeTokenPair, config
  <1>2. UNCHANGED Current
    BY <1>1 DEF Current
  <1>3. Sound(profiles, streams)' /\ Sound(file.profiles, file.streams)'
    BY <1>1 DEF IndInv, Configured
  <1>4. Running'
    BY <1>1, <1>2 DEF IndInv, Configured, Running, Ready
  <1>5. Stamped(users)' /\ Stamped(file.users)' /\ (mode = "up" => AuthComplete)'
    BY <1>0, <1>1 DEF IndInv, Followed, Stamped, Types, AuthComplete
  <1>6. \A x \in reading \cup tokens :
           /\ x.born <= stamp' /\ x.changed <= stamp'
           /\ x.saved => Follows(x, users') /\ Follows(x, file'.users)
    BY <1>1 DEF IndInv, Followed
  <1>7. ASSUME NEW n \in DOMAIN users, reading' = reading \cup {Claims(n)}, tokens' = tokens
        PROVE  IndInv'
    <2> DEFINE c == Claims(n)
    <2>1. /\ c \in Claim /\ c.born <= stamp /\ c.changed <= stamp
          /\ c.saved => Follows(c, users) /\ Follows(c, file.users)
      BY ClaimsFacts
    <2> HIDE DEF c
    <2>2. reading' = reading \cup {c} /\ tokens' = tokens
      BY <1>7 DEF c
    <2>3. TypeOK'
      BY <1>0, <1>1, <1>5, <2>1, <2>2, TypeParts DEF Types
    <2>4. AuthKept'
      BY <1>1, <2>2 DEF IndInv, AuthKept, Ready
    <2>5. Followed'
      BY <1>1, <1>5, <1>6, <2>1, <2>2 DEF Followed
    <2> QED
      BY <1>3, <1>4, <2>3, <2>4, <2>5 DEF IndInv, Configured
  <1>8. ASSUME NEW u \in UserNames, login(u)
        PROVE  IndInv'
    BY <1>7, <1>8 DEF login
  <1>9. ASSUME NEW t \in tokens, refresh(t)
        PROVE  IndInv'
    BY <1>7, <1>9 DEF refresh, Accepted
  <1>10. ASSUME NEW c \in reading, writeTokenPair(c)
         PROVE  IndInv'
    <2> DEFINE t == [user |-> c.user, version |-> c.version, born |-> c.born, changed |-> c.changed,
                     saved |-> c.saved, secret |-> secret]
    <2>1. reading' = reading \ {c} /\ tokens' = tokens \cup {t}
      BY <1>10 DEF writeTokenPair
    <2>2. secret \in Secrets /\ secret = file.secret /\ Admin \in DOMAIN file.users
      BY <1>0, <1>1 DEF IndInv, AuthKept, Types, Ready, AuthComplete
    <2>3. c \in Claim
      BY <1>0 DEF Types
    <2>4. /\ t \in Token /\ t.user = c.user /\ t.version = c.version /\ t.born = c.born
          /\ t.changed = c.changed /\ t.saved = c.saved /\ t.secret = secret
      BY <2>2, <2>3 DEF Claim, Token
    <2> HIDE DEF t
    <2>5. TypeOK'
      BY <1>0, <1>1, <1>5, <2>1, <2>4, TypeParts DEF Types
    <2>6. AuthKept'
      BY <1>1, <2>1, <2>2, <2>4 DEF IndInv, AuthKept, Ready
    <2>7. /\ t.born <= stamp' /\ t.changed <= stamp'
          /\ t.saved => Follows(t, users') /\ Follows(t, file'.users)
      BY <1>6, <2>4 DEF Follows
    <2>8. Followed'
      BY <1>5, <1>6, <2>1, <2>7 DEF Followed
    <2> QED
      BY <1>3, <1>4, <2>5, <2>6, <2>8 DEF IndInv, Configured
  <1> QED
    BY <1>8, <1>9, <1>10

\* Memory is given up; the file and the tokens stay.
LEMMA EndStep ==
    ASSUME IndInv, mode' = "down", stage' = "idle",
           streams' = Empty, profiles' = Empty, users' = Empty, secret' = NoSecret, reading' = {},
           failures' \in 0 .. MaxFailures, UNCHANGED <<file, tokens, stamp>>
    PROVE  IndInv'
  <1>0. Types
    BY TypeParts DEF IndInv, Configured
  <1>1. /\ StreamsOK(Empty) /\ Partial(Empty, ProfileNames, ProfileBody)
        /\ Partial(Empty, UserNames, User) /\ DOMAIN Empty = {}
    BY EmptyFacts DEF StreamsOK
  <1>2. TypeOK'
    BY <1>0, <1>1, TypeParts DEF Types
  <1>3. Sound(profiles, streams)' /\ Sound(file.profiles, file.streams)'
    BY <1>1 DEF IndInv, Configured, Sound
  <1>4. Running' /\ AuthKept'
    BY DEF IndInv, Configured, Running, AuthKept
  <1>5. Followed'
    <2>1. Stamped(users)' /\ Stamped(file.users)'
      BY <1>1 DEF IndInv, Followed, Stamped
    <2>2. \A x \in tokens : /\ x.born <= stamp /\ x.changed <= stamp
                            /\ x.saved => Follows(x, file.users)
      BY DEF IndInv, Followed
    <2>3. \A x \in tokens : Follows(x, Empty)
      BY <1>1 DEF Follows
    <2> QED
      BY <2>1, <2>2, <2>3 DEF Followed
  <1> QED
    BY <1>2, <1>3, <1>4, <1>5 DEF IndInv, Configured

\* NewStore: load and ensureAuth.
LEMMA BootStep ==
    ASSUME IndInv, Load \/ ensureAuth
    PROVE  IndInv'
  <1>0. Types
    BY TypeParts DEF IndInv, Configured
  <1>1. CASE Load
    <2> DEFINE ps == ensureDefaultProfiles(file.profiles)
    <2>1. /\ StreamsOK(file.streams) /\ Partial(file.profiles, ProfileNames, ProfileBody)
          /\ Partial(file.users, UserNames, User) /\ file.secret \in Secrets \cup {NoSecret}
          /\ ConfigOK(file) /\ Sound(file.profiles, file.streams)
      BY <1>0, PartsOfConfig DEF IndInv, Configured, Types
    <2>2. Recovered(file) = [streams |-> file.streams, profiles |-> ps,
                             users |-> file.users, secret |-> file.secret]
      BY <2>1, RecoveredFacts
    <2>3. /\ streams' = file.streams /\ profiles' = ps /\ users' = file.users /\ secret' = file.secret
          /\ mode = "down" /\ mode' = "boot"
          /\ UNCHANGED <<file, stage, failures, reading, tokens, stamp>>
      BY <1>1, <2>2 DEF Load
    <2>4. /\ Partial(ps, ProfileNames, ProfileBody) /\ DefaultProfile \in DOMAIN ps
          /\ Sound(ps, file.streams)
      BY <2>1, EnsuredFacts
    <2> HIDE DEF ps
    <2>5. TypeOK'
      BY <1>0, <2>1, <2>3, <2>4, TypeParts DEF Types
    <2>6. stage = "idle" /\ reading = {}
      BY <2>3 DEF IndInv, Configured, Running
    <2>7. Running' /\ AuthKept'
      BY <2>3, <2>4, <2>6 DEF IndInv, Configured, Running, AuthKept
    <2>8. Followed'
      BY <2>3 DEF IndInv, Followed, Stamped
    <2> QED
      BY <2>1, <2>3, <2>4, <2>5, <2>7, <2>8 DEF IndInv, Configured
  <1>2. CASE ensureAuth /\ AuthComplete
    <2>1. /\ mode = "boot" /\ stage = "idle" /\ mode' = "up"
          /\ UNCHANGED <<streams, profiles, users, secret, stage, stamp, file, failures, reading, tokens>>
      BY <1>2 DEF ensureAuth, config
    <2>2. TypeOK'
      BY <1>0, <1>2, <2>1, TypeParts DEF Types, AuthComplete
    <2>3. Running'
      BY <2>1 DEF IndInv, Configured, Running, Current
    <2>4. AuthKept'
      BY <1>2, <2>1 DEF IndInv, AuthKept, AuthComplete
    <2>5. Followed'
      BY <2>1 DEF IndInv, Followed, Stamped
    <2> QED
      BY <2>1, <2>2, <2>3, <2>4, <2>5 DEF IndInv, Configured
  <1>3. CASE ensureAuth /\ ~AuthComplete
    <2>1. /\ mode = "boot" /\ stage = "idle" /\ stage' = "save"
          /\ secret' \in IF secret = NoSecret THEN Secrets \ {t.secret : t \in tokens} ELSE {secret}
          /\ users' = IF Admin \in DOMAIN users THEN users ELSE Put(users, Admin, NewUser(0))
          /\ UNCHANGED <<streams, profiles, mode, stamp, file, failures, reading, tokens>>
      BY <1>3 DEF ensureAuth
    <2>2. tokens = {} /\ reading = {}
      <3>1. reading = {} /\ users = file.users /\ secret = file.secret
        BY <2>1 DEF IndInv, Configured, Running, AuthKept
      <3>2. ASSUME NEW t \in tokens
            PROVE  FALSE
        <4>1. t.secret \in Secrets
          BY <1>0 DEF Types, Token
        <4>2. secret # NoSecret /\ Admin \in DOMAIN users
          BY <3>1, <4>1, SecretAssumption DEF IndInv, AuthKept
        <4> QED
          BY <1>3, <4>2 DEF AuthComplete
      <3> QED
        BY <3>1, <3>2
    <2>3. secret' \in Secrets
      BY <1>0, <2>1 DEF Types
    <2>4. NewUser(0) \in User /\ NewUser(0).born = 0 /\ NewUser(0).changed = 0
      BY DEF NewUser, User
    <2>5. /\ Partial(users', UserNames, User) /\ Admin \in DOMAIN users'
          /\ \A u \in DOMAIN users' : \/ u \in DOMAIN users /\ users'[u] = users[u]
                                      \/ users'[u] = NewUser(0)
      <3>1. CASE Admin \in DOMAIN users
        BY <1>0, <2>1, <3>1 DEF Types
      <3>2. CASE Admin \notin DOMAIN users
        <4>1. users' = Put(users, Admin, NewUser(0)) /\ Partial(users, UserNames, User)
          BY <1>0, <2>1, <3>2 DEF Types
        <4> QED
          BY <2>4, <3>2, <4>1, NamesAssumption DEF Partial, Put
      <3> QED
        BY <3>1, <3>2
    <2>6. AuthComplete'
      BY <2>3, <2>5, SecretAssumption DEF AuthComplete
    <2>7. TypeOK'
      BY <1>0, <2>1, <2>3, <2>5, <2>6, TypeParts DEF Types
    <2>8. Running'
      BY <2>1, <2>2 DEF IndInv, Configured, Running
    <2>9. AuthKept'
      BY <2>1, <2>2, <2>6 DEF AuthKept
    <2>10. Followed'
      <3>1. 0 <= stamp
        BY <1>0, BoundAssumption DEF Types
      <3>2. ASSUME NEW u \in DOMAIN users'
            PROVE  users'[u].born <= stamp /\ users'[u].changed <= stamp
        BY <2>4, <2>5, <3>1 DEF IndInv, Followed, Stamped
      <3>3. Stamped(users)' /\ Stamped(file.users)'
        BY <2>1, <3>2 DEF IndInv, Followed, Stamped
      <3> QED
        BY <2>1, <2>2, <3>3 DEF Followed
    <2> QED
      BY <2>1, <2>7, <2>8, <2>9, <2>10 DEF IndInv, Configured
  <1> QED
    BY <1>1, <1>2, <1>3

\* saveLocked and the answer.
LEMMA SaveStep ==
    ASSUME IndInv, SaveRenames \/ SaveFails \/ Reply
    PROVE  IndInv'
  <1>0. Types
    BY TypeParts DEF IndInv, Configured
  <1>1. CASE SaveRenames
    <2>1. /\ stage = "save" /\ stage' = "reply" /\ file' = Current
          /\ UNCHANGED <<streams, profiles, users, secret, mode, failures, reading, tokens, stamp>>
      BY <1>1 DEF SaveRenames, config
    <2>2. /\ file'.streams = streams /\ file'.profiles = profiles /\ file'.users = users
          /\ file'.secret = secret /\ Current' = Current
      BY <2>1 DEF Current
    <2>3. mode # "down" /\ ConfigOK(Current)
      BY <2>1 DEF IndInv, Configured, Running, TypeOK
    <2>4. TypeOK'
      BY <1>0, <2>1, <2>3, TypeParts DEF Types, AuthComplete
    <2>5. Running'
      BY <2>1, <2>2 DEF IndInv, Configured, Running
    <2>6. AuthKept'
      <3>1. mode = "up" => AuthComplete
        BY <1>0 DEF Types
      <3> QED
        BY <1>0, <2>1, <2>2, <2>3, <3>1 DEF IndInv, AuthKept, AuthComplete, Types
    <2>7. Followed'
      BY <2>1, <2>2 DEF IndInv, Followed, Stamped
    <2> QED
      BY <2>1, <2>2, <2>4, <2>5, <2>6, <2>7 DEF IndInv, Configured
  <1>2. CASE SaveFails
    <2>1. failures' \in 0 .. MaxFailures
      BY <1>0, <1>2, BoundAssumption DEF SaveFails, Types
    <2>2. stage = "save" /\ stage' = "idle" /\ UNCHANGED <<file, reading, tokens, stamp>>
      BY <1>2 DEF SaveFails
    <2>3. CASE mode = "boot"
      <3>1. /\ mode' = "down" /\ streams' = Empty /\ profiles' = Empty /\ users' = Empty
            /\ secret' = NoSecret /\ reading' = {}
        BY <1>2, <2>2, <2>3 DEF SaveFails, IndInv, Configured, Running
      <3> QED
        BY <2>1, <2>2, <3>1, EndStep
    <2>4. CASE mode # "boot"
      <3>1. UNCHANGED <<mode, streams, profiles, users, secret>>
        BY <1>2, <2>4 DEF SaveFails, config
      <3>2. TypeOK'
        BY <1>0, <2>1, <2>2, <3>1, TypeParts DEF Types, AuthComplete
      <3>3. Running' /\ AuthKept'
        BY <2>2, <2>4, <3>1 DEF IndInv, Configured, Running, AuthKept
      <3>4. Followed'
        BY <2>2, <3>1 DEF IndInv, Followed, Stamped
      <3> QED
        BY <2>2, <3>1, <3>2, <3>3, <3>4 DEF IndInv, Configured
    <2> QED
      BY <2>3, <2>4
  <1>3. CASE Reply
    <2>1. /\ stage = "reply" /\ stage' = "idle" /\ mode' = "up"
          /\ UNCHANGED <<streams, profiles, users, secret, file, failures, reading, tokens, stamp>>
      BY <1>3 DEF Reply, config
    <2>2. mode \in {"boot", "up"} /\ file.secret = secret /\ file.users = users
      BY <1>0, <2>1 DEF IndInv, Configured, Running, Types, Current
    <2>3. AuthComplete
      BY <1>0, <2>1, <2>2 DEF IndInv, AuthKept, Types
    <2>4. TypeOK'
      BY <1>0, <2>1, <2>3, TypeParts DEF Types, AuthComplete
    <2>5. Running'
      BY <2>1, <2>2 DEF IndInv, Configured, Running
    <2>6. AuthKept'
      BY <2>1, <2>2, <2>3 DEF IndInv, AuthKept, AuthComplete
    <2>7. Followed'
      BY <2>1 DEF IndInv, Followed, Stamped
    <2> QED
      BY <2>1, <2>4, <2>5, <2>6, <2>7 DEF IndInv, Configured
  <1> QED
    BY <1>1, <1>2, <1>3

\* The inductive invariant, for every behaviour.
LEMMA AlwaysInd == Spec => []IndInv
  <1>1. IndInv /\ [Next]_vars => IndInv'
    <2> SUFFICES ASSUME IndInv, [Next]_vars PROVE IndInv'
      OBVIOUS
    <2>1. CASE UNCHANGED vars
      <3>1. /\ UNCHANGED <<streams, profiles, users, secret, file, mode, stage>>
            /\ UNCHANGED <<failures, reading, tokens, stamp>>
        BY <2>1 DEF vars, config
      <3> QED
        BY <3>1, TypeParts DEF IndInv, Configured, Types, AuthComplete, Running, Current, AuthKept,
                               Followed, Stamped
    <2>2. CASE Load \/ ensureAuth
      BY <2>2, BootStep
    <2>3. CASE Crash
      <3>1. failures' \in 0 .. MaxFailures
        BY <2>3, TypeParts DEF Crash, IndInv, Configured, Types
      <3> QED
        BY <2>3, <3>1, EndStep DEF Crash
    <2>4. CASE SaveRenames \/ SaveFails \/ Reply
      BY <2>4, SaveStep
    <2>5. CASE \E s \in StreamIds : Delete(s) \/ \E q \in StreamRequests : Upsert(s, q)
      BY <2>5, StreamStep
    <2>6. CASE \E p \in ProfileNames :
                  DeleteProfile(p) \/ \E q \in ProfileRequests : UpsertProfile(p, q)
      BY <2>6, ProfileStep
    <2>7. CASE \E u \in UserNames : CreateUser(u) \/ DeleteUser(u) \/ ChangePassword(u)
      BY <2>7, UserStep
    <2>8. CASE \/ \E u \in UserNames : login(u)
               \/ \E t \in tokens : refresh(t)
               \/ \E c \in reading : writeTokenPair(c)
      BY <2>8, TokenStep
    <2> QED
      BY <2>1, <2>2, <2>3, <2>4, <2>5, <2>6, <2>7, <2>8 DEF Next
  <1> QED
    BY <1>1, InitInd, PTL DEF Spec

-----------------------------------------------------------------------------
(* Theorems *)

\* Memory and file hold streams, profiles and users as normalizeConfig,
\* normalizeProfile and load leave them, and a process that is up has a secret
\* and an administrator (ensureAuth).
THEOREM TypeCorrect == Spec => []TypeOK
  <1>1. IndInv => TypeOK
    BY DEF IndInv, Configured
  <1> QED
    BY <1>1, AlwaysInd, PTL

\* The daemon can always be started again: load accepts the file, whatever calls
\* were made and whichever of their saves failed or were cut off (saveLocked,
\* load).
THEOREM FilesLoad == Spec => []FileLoads
  <1>1. IndInv => FileLoads
    BY RecoveredFacts DEF IndInv, Configured, TypeOK, FileLoads
  <1> QED
    BY <1>1, AlwaysInd, PTL

\* A token is accepted exactly as long as its account's password is the one it
\* was issued under, across restarts, failed saves, and logins and refreshes that
\* a change overtakes (ChangePassword, VerifyTokenClaims, writeTokenPair); nothing
\* is claimed of an account that was made again under its name.
THEOREM TokensFollow == Spec => []TokensFollowPassword
  <1>1. IndInv => TokensFollowPassword
    <2> SUFFICES ASSUME IndInv, Ready, NEW t \in tokens, t.saved, t.user \in DOMAIN users,
                        users[t.user].born = t.born
                 PROVE  Accepted(t) <=> users[t.user].changed = t.changed
      BY DEF TokensFollowPassword
    <2>1. t.secret = secret
      BY DEF IndInv, AuthKept, Ready
    <2>2. t.version = users[t.user].version <=> t.changed = users[t.user].changed
      BY DEF IndInv, Followed, Follows
    <2> QED
      BY <2>1, <2>2 DEF Accepted
  <1> QED
    BY <1>1, AlwaysInd, PTL

-----------------------------------------------------------------------------
(* The store implements DurableStore *)

\* The phase of the refinement mapping.
Phase == IF mode = "down" THEN "down"
         ELSE CASE stage = "idle"  -> "idle"
                [] stage = "save"  -> "changed"
                [] stage = "reply" -> "saved"

\* A call that saves is a change, to DurableStore.
Call ==
    \/ \E s \in StreamIds : Delete(s) \/ \E q \in StreamRequests : Upsert(s, q)
    \/ \E p \in ProfileNames : DeleteProfile(p) \/ \E q \in ProfileRequests : UpsertProfile(p, q)
    \/ \E u \in UserNames : CreateUser(u) \/ DeleteUser(u) \/ ChangePassword(u)

\* Each step is a step of DurableStore or leaves its variables alone.
LEMMA DurableStep ==
    ASSUME IndInv, [Next]_vars
    PROVE  [Durable!Next]_<<Current, Recovered(file), Phase>>
  <1>1. CASE UNCHANGED vars
    BY <1>1 DEF vars, config, Current, Phase
  <1>2. CASE Call
    <2>1. mode = "up" /\ stage = "idle" /\ stage' = "save" /\ UNCHANGED <<file, mode>>
      BY <1>2 DEF Call, Delete, Upsert, DeleteProfile, UpsertProfile, CreateUser, DeleteUser,
                  ChangePassword, Saves, Ready
    <2>2. Durable!Change
      BY <2>1 DEF Durable!Change
    <2> QED
      BY <2>2 DEF Durable!Next
  <1>3. CASE \/ \E u \in UserNames : login(u)
             \/ \E t \in tokens : refresh(t)
             \/ \E c \in reading : writeTokenPair(c)
    <2>1. UNCHANGED <<streams, profiles, users, secret, file, mode, stage>>
      BY <1>3 DEF login, refresh, writeTokenPair, config
    <2> QED
      BY <2>1 DEF Current, Phase
  <1>4. CASE Load
    <2>1. /\ streams' = Recovered(file).streams /\ profiles' = Recovered(file).profiles
          /\ users' = Recovered(file).users /\ secret' = Recovered(file).secret
          /\ mode = "down" /\ mode' = "boot" /\ UNCHANGED <<file, stage>>
      BY <1>4 DEF Load
    <2>2. Recovered(file) = [streams |-> file.streams, profiles |-> ensureDefaultProfiles(file.profiles),
                             users |-> file.users, secret |-> file.secret]
      BY RecoveredFacts DEF IndInv, Configured, TypeOK
    <2>3. Current' = Recovered(file)
      BY <2>1, <2>2 DEF Current
    <2>4. stage = "idle"
      BY <2>1 DEF IndInv, Configured, Running
    <2>5. Durable!Recover
      BY <2>1, <2>3, <2>4 DEF Durable!Recover
    <2> QED
      BY <2>5 DEF Durable!Next
  <1>5. CASE ensureAuth /\ AuthComplete
    <2>1. /\ mode = "boot" /\ stage = "idle" /\ mode' = "up" /\ stage' = "idle"
          /\ UNCHANGED <<streams, profiles, users, secret, file>>
      BY <1>5 DEF ensureAuth, config
    <2> QED
      BY <2>1 DEF Current, Phase
  <1>6. CASE ensureAuth /\ ~AuthComplete
    <2>1. mode = "boot" /\ mode' = "boot" /\ stage = "idle" /\ stage' = "save" /\ UNCHANGED file
      BY <1>6 DEF ensureAuth
    <2>2. Durable!Change
      BY <2>1 DEF Durable!Change
    <2> QED
      BY <2>2 DEF Durable!Next
  <1>7. CASE SaveRenames
    <2>1. /\ stage = "save" /\ stage' = "reply" /\ file' = Current
          /\ UNCHANGED <<streams, profiles, users, secret, mode>>
      BY <1>7 DEF SaveRenames, config
    <2>2. mode # "down" /\ DefaultProfile \in DOMAIN profiles
      BY <2>1 DEF IndInv, Configured, Running
    <2>3. Recovered(Current) = Current
      <3>1. ConfigOK(Current) /\ Current.profiles = profiles /\ Current.streams = streams
        BY DEF IndInv, Configured, TypeOK, Current
      <3>2. Sound(Current.profiles, Current.streams)
        BY <3>1 DEF IndInv, Configured
      <3> QED
        BY <2>2, <3>1, <3>2, RecoveredFacts
    <2>4. Current' = Current
      BY <2>1 DEF Current
    <2>5. Durable!Commit
      BY <2>1, <2>2, <2>3, <2>4 DEF Durable!Commit
    <2> QED
      BY <2>5 DEF Durable!Next
  <1>8. CASE SaveFails
    <2>1. stage = "save" /\ stage' = "idle" /\ UNCHANGED file
      BY <1>8 DEF SaveFails
    <2>2. mode # "down"
      BY <2>1 DEF IndInv, Configured, Running
    <2>3. CASE mode = "boot"
      <3>1. mode' = "down"
        BY <1>8, <2>3 DEF SaveFails
      <3>2. Durable!Crash
        BY <2>1, <2>2, <3>1 DEF Durable!Crash
      <3> QED
        BY <3>2 DEF Durable!Next
    <2>4. CASE mode # "boot"
      <3>1. UNCHANGED <<mode, streams, profiles, users, secret>>
        BY <1>8, <2>4 DEF SaveFails, config
      <3>2. Durable!Reject
        BY <2>1, <2>2, <3>1 DEF Durable!Reject, Current
      <3> QED
        BY <3>2 DEF Durable!Next
    <2> QED
      BY <2>3, <2>4
  <1>9. CASE Reply
    <2>1. /\ stage = "reply" /\ stage' = "idle" /\ mode' = "up"
          /\ UNCHANGED <<streams, profiles, users, secret, file>>
      BY <1>9 DEF Reply, config
    <2>2. mode # "down"
      BY <2>1 DEF IndInv, Configured, Running
    <2>3. Durable!Confirm
      BY <2>1, <2>2 DEF Durable!Confirm, Current
    <2> QED
      BY <2>3 DEF Durable!Next
  <1>10. CASE Crash
    <2>1. mode # "down" /\ mode' = "down" /\ UNCHANGED file
      BY <1>10 DEF Crash
    <2>2. stage \in {"idle", "save", "reply"}
      BY DEF IndInv, Configured, TypeOK
    <2>3. Durable!Crash
      BY <2>1, <2>2 DEF Durable!Crash
    <2> QED
      BY <2>3 DEF Durable!Next
  <1> QED
    BY <1>1, <1>2, <1>3, <1>4, <1>5, <1>6, <1>7, <1>8, <1>9, <1>10 DEF Next, Call

\* What is answered as saved is what a restart finds, and a restart finds one
\* whole configuration: the store implements DurableStore (NewStore, saveLocked,
\* load and the calls that hold the mutex around it).
THEOREM StoreIsDurable == Spec => IsDurable
  <1>1. Init => Durable!Init
    BY DEF Init, Durable!Init
  <1>2. IndInv /\ [Next]_vars => [Durable!Next]_(Durable!vars)
    BY DurableStep DEF Durable!vars, Phase
  <1> QED
    BY <1>1, <1>2, AlwaysInd, PTL DEF Spec, IsDurable, Durable!Spec
=============================================================================

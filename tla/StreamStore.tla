---------------------------- MODULE StreamStore -----------------------------
(***************************************************************************)
(* The stream store (internal/streams/store.go) with the accounts of       *)
(* internal/auth/auth.go and the handlers of internal/server/server.go     *)
(* that issue and check tokens: streams, profiles, users and the secret    *)
(* that signs tokens, and the state file that all four are saved in.       *)
(*                                                                         *)
(* A call that changes something holds the store's lock from its checks to *)
(* the end of saveLocked.  A login or a refresh holds it only while it     *)
(* looks the user up; the tokens are made afterwards from what it read.    *)
(* The access and the refresh token of one answer carry the same claims    *)
(* and are one token here; that tokens also expire is left out.            *)
(***************************************************************************)
EXTENDS Integers, FiniteSets, Functions

CONSTANTS
    StreamIds, UserNames, ProfileNames,
    Admin,           \* the user that ensureAuth makes
    DefaultProfile,  \* the built-in profiles (two in the code, treated alike)
    StreamRequests,  \* BOUND: stream bodies operators send
    ProfileRequests, \* BOUND: profile bodies operators send
    Secrets,         \* BOUND: secrets that are ever generated
    NoSecret,
    MaxStamp,        \* BOUND: accounts made and passwords changed
    MaxFailures      \* BOUND: saves that fail

\* normalizeProfile refuses an empty name.
ASSUME NamesAssumption ==
    Admin \in UserNames /\ DefaultProfile \in ProfileNames /\ "" \notin ProfileNames
ASSUME SecretAssumption == NoSecret \notin Secrets
ASSUME BoundAssumption == MaxStamp \in Nat /\ MaxFailures \in Nat

\* A restart or watchdog policy: value stands for its numbers, which are all
\* treated alike: zero means the default, less than one is refused.
Policies == [given : BOOLEAN, enabled : BOOLEAN, value : Int]

\* A stream as the API sends it; valid stands for the fields that are only
\* tested (URLs, source type, log level, options), "" is no profile.
StreamBody == [profile : ProfileNames \cup {""}, retention : Int, valid : BOOLEAN,
               restart : Policies, watchdog : Policies]
ProfileBody == [template : BOOLEAN, codecs : BOOLEAN, format : {"", "mpegts"}]

ASSUME RequestAssumption == StreamRequests \subseteq StreamBody /\ ProfileRequests \subseteq ProfileBody

VARIABLES
    streams, profiles, users, secret, \* the store
    file,      \* the state file: the same four
    mode,      \* the process: "down", "boot" (NewStore) or "up"
    stage,     \* the call under way: "idle", "save" or "reply"
    failures,  \* saves that have failed
    reading,   \* logins and refreshes that have looked their user up
    tokens,    \* tokens that have been handed out
    stamp      \* history: number of the last account made or password changed

config == <<streams, profiles, users, secret>>
vars == <<config, file, mode, stage, failures, reading, tokens, stamp>>

Current == [streams |-> streams, profiles |-> profiles, users |-> users, secret |-> secret]

Empty == <<>>

Init ==
    /\ streams = Empty /\ profiles = Empty /\ users = Empty /\ secret = NoSecret
    /\ file = Current
    /\ mode = "down" /\ stage = "idle" /\ failures = 0
    /\ reading = {} /\ tokens = {} /\ stamp = 0

-----------------------------------------------------------------------------
(* Normalisation and load *)

Put(f, k, v) == [x \in DOMAIN f \cup {k} |-> IF x = k THEN v ELSE f[x]]
Drop(f, k) == Restrict(f, DOMAIN f \ {k})
Defaulted(v, default) == IF v = 0 THEN default ELSE v

\* normalizeRestartPolicy, normalizeWatchdogPolicy.
NormalPolicy(p) ==
    CASE ~p.given   -> [given |-> TRUE, enabled |-> TRUE, value |-> 5]
      [] p.given /\ ~p.enabled -> p
      [] OTHER      -> [p EXCEPT !.value = Defaulted(@, 5)]
PolicyAccepted(p) == p.enabled => p.value >= 1

normalizeConfig(q) ==
    [q EXCEPT !.profile   = IF @ = "" THEN DefaultProfile ELSE @,
              !.retention = Defaulted(@, 60),
              !.restart   = NormalPolicy(@),
              !.watchdog  = NormalPolicy(@)]
StreamAccepted(n) ==
    n.valid /\ n.retention >= 0 /\ PolicyAccepted(n.restart) /\ PolicyAccepted(n.watchdog)

normalizeProfile(q) == [q EXCEPT !.format = IF q.template THEN @ ELSE "mpegts"]
ProfileAccepted(n) == n.template \/ n.codecs

\* ensureDefaultProfiles.
BuiltIn == [template |-> FALSE, codecs |-> TRUE, format |-> "mpegts"]
ensureDefaultProfiles(ps) == IF DefaultProfile \in DOMAIN ps THEN ps ELSE Put(ps, DefaultProfile, BuiltIn)

VersionedUser(u) == [u EXCEPT !.version = IF @ < 1 THEN 1 ELSE @]

\* load and ensureDefaultProfiles: what they make of a file, and whether they
\* accept it.
Recovered(f) ==
    [f EXCEPT !.profiles = ensureDefaultProfiles([p \in DOMAIN @ |-> normalizeProfile(@[p])]),
              !.users    = [u \in DOMAIN @ |-> VersionedUser(@[u])],
              !.streams  = [s \in DOMAIN @ |-> normalizeConfig(@[s])]]

LoadAccepts(f) ==
    LET l == Recovered(f) IN
    /\ \A p \in DOMAIN l.profiles : ProfileAccepted(l.profiles[p])
    /\ \A s \in DOMAIN l.streams : StreamAccepted(l.streams[s]) /\ l.streams[s].profile \in DOMAIN l.profiles

-----------------------------------------------------------------------------
(* The process *)

\* NewStore as far as load.  A file that is refused ends the process.
Load ==
    /\ mode = "down"
    /\ LoadAccepts(file)
    /\ LET l == Recovered(file) IN
         /\ streams' = l.streams /\ profiles' = l.profiles
         /\ users' = l.users /\ secret' = l.secret
    /\ mode' = "boot"
    /\ UNCHANGED <<file, stage, failures, reading, tokens, stamp>>

\* NewUser: the first version of a new account.  born and changed are history:
\* the stamps of the account and of its password.
NewUser(n) == [version |-> 1, born |-> n, changed |-> n]

AuthComplete == secret # NoSecret /\ Admin \in DOMAIN users

\* ensureAuth: a missing secret or administrator is made and saved.
ensureAuth ==
    /\ mode = "boot" /\ stage = "idle"
    /\ IF AuthComplete
       THEN /\ mode' = "up"
            /\ UNCHANGED <<config, stage, stamp>>
       ELSE /\ secret' \in IF secret = NoSecret THEN Secrets \ {t.secret : t \in tokens} ELSE {secret}
            /\ users' = IF Admin \in DOMAIN users THEN users ELSE Put(users, Admin, NewUser(0))
            /\ stage' = "save"
            /\ UNCHANGED <<streams, profiles, mode, stamp>>
    /\ UNCHANGED <<file, failures, reading, tokens>>

\* The process ends at any moment.
Crash ==
    /\ mode # "down"
    /\ mode' = "down" /\ stage' = "idle"
    /\ streams' = Empty /\ profiles' = Empty /\ users' = Empty /\ secret' = NoSecret
    /\ reading' = {}
    /\ UNCHANGED <<file, failures, tokens, stamp>>

-----------------------------------------------------------------------------
(* saveLocked *)

\* The rename: the file is replaced as a whole.
SaveRenames_NoUsers ==
    /\ stage = "save"
    /\ file' = [Current EXCEPT !.users = file.users]
    /\ stage' = "reply"
    /\ UNCHANGED <<config, mode, failures, reading, tokens, stamp>>
SaveRenames ==
    /\ stage = "save"
    /\ file' = Current
    /\ stage' = "reply"
    /\ UNCHANGED <<config, mode, failures, reading, tokens, stamp>>

\* A step up to the rename fails: a call is answered with an error and leaves
\* memory changed; NewStore returns the error and the process ends.
SaveFails ==
    /\ stage = "save"
    /\ failures < MaxFailures /\ failures' = failures + 1
    /\ stage' = "idle"
    /\ IF mode = "boot"
       THEN /\ mode' = "down"
            /\ streams' = Empty /\ profiles' = Empty /\ users' = Empty /\ secret' = NoSecret
       ELSE UNCHANGED <<mode, config>>
    /\ UNCHANGED <<file, reading, tokens, stamp>>

Reply ==
    /\ stage = "reply"
    /\ stage' = "idle"
    /\ mode' = "up"
    /\ UNCHANGED <<config, file, failures, reading, tokens, stamp>>

-----------------------------------------------------------------------------
(* Calls that change the store *)

Ready == mode = "up" /\ stage = "idle"
Saves == stage' = "save" /\ UNCHANGED <<file, mode, failures, reading, tokens>>

Upsert(id, q) ==
    LET n == normalizeConfig(q) IN
    /\ Ready
    /\ StreamAccepted(n)
    /\ n.profile \in DOMAIN profiles
    /\ streams' = Put(streams, id, n)
    /\ Saves
    /\ UNCHANGED <<profiles, users, secret, stamp>>

Delete(id) ==
    /\ Ready
    /\ id \in DOMAIN streams
    /\ streams' = Drop(streams, id)
    /\ Saves
    /\ UNCHANGED <<profiles, users, secret, stamp>>

UpsertProfile(name, q) ==
    LET n == normalizeProfile(q) IN
    /\ Ready
    /\ ProfileAccepted(n)
    /\ profiles' = Put(profiles, name, n)
    /\ Saves
    /\ UNCHANGED <<streams, users, secret, stamp>>

DeleteProfile_Used(name) ==
    /\ Ready
    /\ name \in DOMAIN profiles \ {DefaultProfile}
    /\ profiles' = Drop(profiles, name)
    /\ Saves
    /\ UNCHANGED <<streams, users, secret, stamp>>
DeleteProfile(name) ==
    /\ Ready
    /\ name \in DOMAIN profiles \ {DefaultProfile}
    /\ \A s \in DOMAIN streams : streams[s].profile # name
    /\ profiles' = Drop(profiles, name)
    /\ Saves
    /\ UNCHANGED <<streams, users, secret, stamp>>

CreateUser(name) ==
    /\ Ready
    /\ name \notin DOMAIN users
    /\ stamp < MaxStamp /\ stamp' = stamp + 1
    /\ users' = Put(users, name, NewUser(stamp + 1))
    /\ Saves
    /\ UNCHANGED <<streams, profiles, secret>>

DeleteUser(name) ==
    /\ Ready
    /\ name \in DOMAIN users \ {Admin}
    /\ users' = Drop(users, name)
    /\ Saves
    /\ UNCHANGED <<streams, profiles, secret, stamp>>

\* ChangePassword, by the user or by another one.
ChangePassword_KeepsVersion(name) ==
    /\ Ready
    /\ name \in DOMAIN users
    /\ stamp < MaxStamp /\ stamp' = stamp + 1
    /\ users' = [users EXCEPT ![name].changed = stamp + 1]
    /\ Saves
    /\ UNCHANGED <<streams, profiles, secret>>
ChangePassword(name) ==
    /\ Ready
    /\ name \in DOMAIN users
    /\ stamp < MaxStamp /\ stamp' = stamp + 1
    /\ users' = [users EXCEPT ![name].version = @ + 1, ![name].changed = stamp + 1]
    /\ Saves
    /\ UNCHANGED <<streams, profiles, secret>>

-----------------------------------------------------------------------------
(* Tokens *)

\* VerifyToken and VerifyTokenClaims.
Accepted(t) ==
    /\ t.secret = secret
    /\ t.user \in DOMAIN users
    /\ users[t.user].version = t.version

Claims(name) == [user |-> name, version |-> users[name].version, born |-> users[name].born,
                 changed |-> users[name].changed, saved |-> file = Current]

\* BOUND: one login or refresh is between its two steps at a time.
NoneReading == reading = {}

\* Authenticate, with the password of the account.
login(name) ==
    /\ Ready /\ NoneReading
    /\ name \in DOMAIN users
    /\ reading' = reading \cup {Claims(name)}
    /\ UNCHANGED <<config, file, mode, stage, failures, tokens, stamp>>

\* refresh: the token stands in for the password.
refresh(t) ==
    /\ Ready /\ NoneReading
    /\ t \in tokens /\ Accepted(t)
    /\ reading' = reading \cup {Claims(t.user)}
    /\ UNCHANGED <<config, file, mode, stage, failures, tokens, stamp>>

\* The claims are of the user that was read, the secret is read now.
writeTokenPair(c) ==
    /\ Ready
    /\ c \in reading
    /\ reading' = reading \ {c}
    /\ tokens' = tokens \cup
          {[user |-> c.user, version |-> c.version, born |-> c.born, changed |-> c.changed,
            saved |-> c.saved, secret |-> secret]}
    /\ UNCHANGED <<config, file, mode, stage, failures, stamp>>

Next ==
    \/ Load \/ ensureAuth \/ Crash
    \/ SaveRenames \/ SaveFails \/ Reply
    \/ \E s \in StreamIds : Delete(s) \/ \E q \in StreamRequests : Upsert(s, q)
    \/ \E p \in ProfileNames : DeleteProfile(p) \/ \E q \in ProfileRequests : UpsertProfile(p, q)
    \/ \E u \in UserNames : CreateUser(u) \/ DeleteUser(u) \/ ChangePassword(u) \/ login(u)
    \/ \E t \in tokens : refresh(t)
    \/ \E c \in reading : writeTokenPair(c)

Spec == Init /\ [][Next]_vars

-----------------------------------------------------------------------------
(* Properties *)

Partial(f, D, V) == DOMAIN f \subseteq D /\ f \in [DOMAIN f -> V]

User == [version : Nat \ {0}, born : Nat, changed : Nat]
Claim == [user : UserNames, version : Nat \ {0}, born : Nat, changed : Nat, saved : BOOLEAN]
Token == [user : UserNames, version : Nat \ {0}, born : Nat, changed : Nat, saved : BOOLEAN,
          secret : Secrets]

ConfigOK(c) ==
    /\ c = [streams |-> c.streams, profiles |-> c.profiles, users |-> c.users, secret |-> c.secret]
    /\ Partial(c.streams, StreamIds, StreamBody)
    /\ \A s \in DOMAIN c.streams : c.streams[s].profile # "" /\ c.streams[s].retention >= 1
    /\ Partial(c.profiles, ProfileNames, ProfileBody)
    /\ Partial(c.users, UserNames, User)
    /\ c.secret \in Secrets \cup {NoSecret}

\* Memory and file hold normalised streams, profiles and users; a process that
\* is up has a secret and an administrator.
TypeOK ==
    /\ ConfigOK(Current) /\ ConfigOK(file)
    /\ mode \in {"down", "boot", "up"} /\ stage \in {"idle", "save", "reply"}
    /\ mode = "up" => AuthComplete
    /\ failures \in 0 .. MaxFailures /\ stamp \in 0 .. MaxStamp
    /\ reading \subseteq Claim /\ tokens \subseteq Token

\* The daemon can always be started again: whatever calls were made and
\* whichever of their saves failed, load accepts the file.
FileLoads == LoadAccepts(file)

\* What ChangePassword raises TokenVersion for (store.go:397, tested at store.go:334):
\* a changed password ends the sessions that were opened with the old one, and
\* nothing else ends a session: neither a restart, nor a change that could not
\* be saved and that a restart has undone.  Claimed of tokens that were issued
\* while memory and file agreed, whenever they agree again, and of the account
\* they were issued for: one made again under a deleted name starts from version
\* 1 and accepts the old one's tokens of that version.
TokensFollowPassword ==
    Ready /\ file = Current =>
      \A t \in tokens :
        t.saved /\ t.user \in DOMAIN users /\ users[t.user].born = t.born
          => (Accepted(t) <=> users[t.user].changed = t.changed)

\* The store implements DurableStore; NewStore is up, for DurableStore, once the
\* file is read.  That a saved configuration is read back as it was (load
\* normalises it again) is part of it.
Durable == INSTANCE DurableStore WITH
    mem   <- Current,
    disk  <- Recovered(file),
    phase <- IF mode = "down" THEN "down"
             ELSE CASE stage = "idle"  -> "idle"
                    [] stage = "save"  -> "changed"
                    [] stage = "reply" -> "saved"

\* What is answered as saved is what a restart finds, and a restart finds one
\* whole configuration, whatever fails or ends in between.
IsDurable == Durable!Spec
=============================================================================

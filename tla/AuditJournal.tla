---------------------------- MODULE AuditJournal ----------------------------
(***************************************************************************)
(* The SRT audit journal (internal/srtrelay/audit.go) and its two          *)
(* handlers in internal/server/server.go: one file of JSON lines per day,  *)
(* appended to, listed newest first, cleared file by file, and pruned by   *)
(* age.                                                                    *)
(*                                                                         *)
(* Every call holds the journal's mutex.  Append and List are one step; a  *)
(* Clear is one step per file, since the daemon may end or an operation    *)
(* fail between two of them.  A write that fails or is cut off may leave   *)
(* any part of its line at the end of the file; the next line is then      *)
(* glued to that part.  What is in a file outlives the daemon; a crash of  *)
(* the machine is not modelled.                                            *)
(***************************************************************************)
EXTENDS Integers, Sequences, SequencesExt, FiniteSets

CONSTANTS
    Tags,         \* relay, client and type of the events workers and handlers record
    Filters,      \* the filters operators list and clear with
    AnyValue,          \* an empty field
    Garbage,      \* a line that is not one JSON object
    Retention,    \* audit_retention_days
    DefaultLimit, \* 200
    TopLimit,     \* 1000
    MaxDay,       \* BOUND: days
    MaxEvents,    \* BOUND: events
    MaxBroken     \* BOUND: writes that fail or are cut off

Fields == {"relay", "client", "type"}

\* NewAuditStore refuses a retention below one day.
ASSUME RetentionAssumption == Retention \in Nat /\ Retention >= 1
ASSUME LimitAssumption == DefaultLimit \in 1..TopLimit /\ TopLimit \in Nat
ASSUME FilterAssumption == \A f \in Tags \cup Filters : DOMAIN f = Fields
ASSUME BoundAssumption == {MaxDay, MaxEvents, MaxBroken} \subseteq Nat /\ MaxDay >= 1

Days == 1..MaxDay

VARIABLES
    files,     \* day -> its file: its lines by the number of the event they were
               \* written for, and the last one's number if it lacks its newline
    today,
    next,      \* number of the next event
    broken,    \* writes that have failed
    clear,     \* the Clear that holds the mutex, or NoClear
    recording, \* clears whose audit_cleared event is still to be recorded
    owed,      \* history: events an operator can rely on finding
    newest,    \* history: the latest day of an append that was answered
    stuck      \* history: days whose file is past its retention and was not removed

vars == <<files, today, next, broken, clear, recording, owed, newest, stuck>>

NoClear == [filter |-> AnyValue]
Idle == clear = NoClear

Init ==
    /\ files = <<>>
    /\ today = 1
    /\ next = 1 /\ broken = 0
    /\ clear = NoClear
    /\ recording = {}
    /\ owed = {} /\ newest = 0 /\ stuck = {}

-----------------------------------------------------------------------------
(* Files *)

NoLine == 0
EmptyFile == [lines |-> [n \in {} |-> Garbage], torn |-> NoLine]
File(d) == IF d \in DOMAIN files THEN files[d] ELSE EmptyFile
With(fs, d, f) == [x \in DOMAIN fs \cup {d} |-> IF x = d THEN f ELSE fs[x]]
Without(fs, D) == [x \in DOMAIN fs \ D |-> fs[x]]

\* What f is after line has been written at its end, with or without newline.
Written(f, line, ended) ==
    LET at == IF f.torn = NoLine THEN next ELSE f.torn
    IN  [lines |-> With(f.lines, at, IF f.torn = NoLine THEN line ELSE Garbage),
         torn  |-> IF ended THEN NoLine ELSE at]

\* What a scanner reads: the lines in the order they were written in.
InOrder(lines) ==
    LET at == SelectSeq([n \in 1..next - 1 |-> n], LAMBDA n : n \in DOMAIN lines)
    IN  [i \in DOMAIN at |-> lines[at[i]]]

\* pathsLocked: newest day first.
Paths == SelectSeq([i \in Days |-> MaxDay + 1 - i], LAMBDA d : d \in DOMAIN files)

auditMatches(e, f) ==
    /\ f["relay"] = AnyValue \/ e.tag["relay"] = f["relay"]
    /\ f["client"] = AnyValue \/ e.tag["client"] = f["client"]
    /\ f["type"] = AnyValue \/ e.tag["type"] = f["type"]

Matches(line, f) == line # Garbage /\ auditMatches(line, f)

\* pruneLocked(now): days before the cutoff go.  It looks at the day of the
\* event that was appended, not at the clock.  Files whose removal fails stay, and
\* so does every file when the directory cannot be read: no error is reported.
Expired(fs, now) == {d \in DOMAIN fs : d < now - Retention}

pruneLocked_Early(fs, now, stay) == Without(fs, {d \in DOMAIN fs : d <= now - Retention} \ stay)
pruneLocked(fs, now, stay) == Without(fs, Expired(fs, now) \ stay)

-----------------------------------------------------------------------------
(* Append *)

Event(d, tag) == [id |-> next, day |-> d, tag |-> tag]

\* Events carry the time of the worker that reported them: one of the last day
\* may arrive after midnight.
EventDays == {today, today - 1} \cap Days

\* The event is written, synced and answered, whatever becomes of the pruning.
Appended(d, tag) ==
    LET all == With(files, d, Written(File(d), Event(d, tag), TRUE)) IN
    /\ next <= MaxEvents /\ next' = next + 1
    /\ \E stay \in SUBSET Expired(all, d) :
          /\ files' = pruneLocked(all, d, stay)
          /\ stuck' = (stuck \cap DOMAIN files') \cup stay
    /\ owed' = {e \in owed : e.day >= d - Retention}
               \cup IF File(d).torn # NoLine THEN {} ELSE {Event(d, tag)}
    /\ newest' = IF d > newest THEN d ELSE newest
    /\ UNCHANGED broken

\* The daemon ends or an operation fails on the way: the caller has no answer,
\* or an error, and the file has nothing of the line, a part of it, all but its
\* newline, or all of it.
AppendBroken(d, tag) ==
    /\ broken < MaxBroken /\ broken' = broken + 1
    /\ next <= MaxEvents /\ next' = next + 1
    /\ \E f \in {File(d),
                 Written(File(d), Garbage, FALSE),
                 Written(File(d), Event(d, tag), FALSE),
                 Written(File(d), Event(d, tag), TRUE)} :
          files' = With(files, d, f)
    /\ UNCHANGED <<owed, newest, stuck>>

\* RecordAudit for a worker event or an operator's request.
Record(d, tag) ==
    /\ Idle
    /\ Appended(d, tag) \/ AppendBroken(d, tag)
    /\ UNCHANGED <<today, clear, recording>>

\* clearSRTAudit records what it has cleared; an error is only logged.
RecordClear(f) ==
    LET tag == [f EXCEPT !["type"] = "audit_cleared"] IN
    /\ Idle /\ f \in recording
    /\ recording' = recording \ {f}
    /\ Appended(today, tag) \/ AppendBroken(today, tag)
    /\ UNCHANGED <<today, clear>>

-----------------------------------------------------------------------------
(* List *)

\* One line of readAuditFile: a ring of the newest limit matches.
RingStep_Sticks(r, e, limit) ==
    IF Len(r.ring) < limit THEN [r EXCEPT !.ring = Append(@, e)]
    ELSE [r EXCEPT !.ring[r.start + 1] = e]
RingStep(r, e, limit) ==
    IF Len(r.ring) < limit THEN [r EXCEPT !.ring = Append(@, e)]
    ELSE [ring |-> [r.ring EXCEPT ![r.start + 1] = e], start |-> (r.start + 1) % limit]

EmptyRing == [ring |-> <<>>, start |-> 0]
NewestFirst(r) ==
    LET count == Len(r.ring)
    IN  [i \in 1..count |-> r.ring[((r.start + count - i) % count) + 1]]

readAuditFile(d, f, limit) ==
    LET step(r, line) == IF Matches(line, f) THEN RingStep(r, line, limit) ELSE r
    IN  NewestFirst(FoldLeft(step, EmptyRing, InOrder(files[d].lines)))

Effective(limit) == IF limit < 1 \/ limit > TopLimit THEN DefaultLimit ELSE limit

List(f, limit) ==
    LET n == Effective(limit)
        step(result, d) == IF Len(result) = n THEN result
                           ELSE result \o readAuditFile(d, f, n - Len(result))
    IN  FoldLeft(step, <<>>, Paths)

-----------------------------------------------------------------------------
(* Clear *)

Everything(f) == \A k \in Fields : f[k] = AnyValue

\* BOUND: one request to clear at a time.
ClearStart(f) ==
    /\ Idle /\ recording = {}
    /\ clear' = [filter |-> f, left |-> DOMAIN files, count |-> 0, before |-> files]
    /\ UNCHANGED <<files, today, next, broken, recording, owed, newest, stuck>>

\* clearAuditFile: lines that match go, all others are written again, each with
\* its newline; a file without lines is removed.
Rewritten(fs, d, kept) ==
    IF kept = {} THEN Without(fs, {d})
    ELSE With(fs, d, [lines |-> [n \in kept |-> fs[d].lines[n]], torn |-> NoLine])

clearAuditFile_Parsed(fs, d, f) ==
    Rewritten(fs, d, {n \in DOMAIN fs[d].lines : fs[d].lines[n] # Garbage /\ ~auditMatches(fs[d].lines[n], f)})
clearAuditFile(fs, d, f) ==
    Rewritten(fs, d, {n \in DOMAIN fs[d].lines : ~Matches(fs[d].lines[n], f)})

Hit(d, f) ==
    IF Everything(f) THEN 1
    ELSE Cardinality({n \in DOMAIN files[d].lines : Matches(files[d].lines[n], f)})

\* The next file, newest first.
ClearFile(d) ==
    /\ ~Idle /\ d \in clear.left
    /\ \A o \in clear.left : o <= d
    /\ files' = IF Everything(clear.filter) THEN Without(files, {d})
                ELSE clearAuditFile(files, d, clear.filter)
    /\ clear' = [clear EXCEPT !.left = @ \ {d}, !.count = @ + Hit(d, clear.filter)]
    /\ owed' = {e \in owed : e.day = d => \E k \in Fields : clear.filter[k] \notin {AnyValue, e.tag[k]}}
    /\ UNCHANGED <<today, next, broken, recording, newest, stuck>>

\* An operation on a file fails: the files before it stay cleared, the handler
\* answers with an error and records nothing.
ClearFails ==
    /\ ~Idle /\ clear.left # {}
    /\ clear' = NoClear
    /\ UNCHANGED <<files, today, next, broken, recording, owed, newest, stuck>>

ClearEnd ==
    /\ ~Idle /\ clear.left = {}
    /\ clear' = NoClear
    /\ recording' = recording \cup {clear.filter}
    /\ UNCHANGED <<files, today, next, broken, owed, newest, stuck>>

-----------------------------------------------------------------------------
(* The daemon and the clock *)

Crash ==
    /\ ~Idle \/ recording # {}
    /\ clear' = NoClear /\ recording' = {}
    /\ UNCHANGED <<files, today, next, broken, owed, newest, stuck>>

Midnight ==
    /\ today < MaxDay /\ today' = today + 1
    /\ UNCHANGED <<files, next, broken, clear, recording, owed, newest, stuck>>

Next ==
    \/ \E d \in EventDays, tag \in Tags : Record(d, tag)
    \/ \E f \in Filters : ClearStart(f) \/ RecordClear(f)
    \/ \E d \in Days : ClearFile(d)
    \/ ClearFails \/ ClearEnd
    \/ Crash \/ Midnight

Spec == Init /\ [][Next]_vars

-----------------------------------------------------------------------------
(* Properties *)

Lines(d) == Range(files[d].lines)

\* A file of day d when the next event is n: lines of its own day only, each
\* event's under its number, and only the last can lack its newline.
FileOK(d, f, n) ==
    /\ DOMAIN f = {"lines", "torn"}
    /\ DOMAIN f.lines \subseteq 1..n - 1
    /\ \A k \in DOMAIN f.lines : f.lines[k] = Garbage \/ (f.lines[k].day = d /\ f.lines[k].id = k)
    /\ f.torn # NoLine => f.torn \in DOMAIN f.lines /\ \A k \in DOMAIN f.lines : k <= f.torn

TypeOK ==
    /\ today \in Days /\ next \in 1..MaxEvents + 1 /\ broken \in 0..MaxBroken
    /\ DOMAIN files \subseteq Days
    /\ \A d \in DOMAIN files : FileOK(d, files[d], next)
    /\ recording \subseteq Filters
    /\ newest \in 0..today /\ stuck \subseteq Days

\* The ring per file and the remainder per file add up: List answers with the
\* newest matches of the whole journal, newest first, as many as asked for.
Newest(f, n) ==
    LET all == FlattenSeq([i \in DOMAIN Paths |-> Reverse(InOrder(files[Paths[i]].lines))])
        found == SelectSeq(all, LAMBDA l : Matches(l, f))
    IN  SubSeq(found, 1, IF Len(found) < n THEN Len(found) ELSE n)

ListIsNewest ==
    Idle => \A f \in Filters, limit \in 0..TopLimit + 1 : List(f, limit) = Newest(f, Effective(limit))

\* README.md:242-246: an event that was answered as recorded is found until its
\* day is past the retention or a clear matches it, whatever else is written,
\* cut off, cleared halfway or pruned by a late event.  (The exception is an event
\* whose line was glued to what a broken write had left.)  And of the files that
\* are older than the latest answered append allows only those are left whose
\* removal has failed: the others do not come back, also when an event of the day
\* before arrives late.
KeptForRetention ==
    /\ \A e \in owed : e.day \in DOMAIN files /\ e \in Lines(e.day)
    /\ \A d \in DOMAIN files : d >= newest - Retention \/ d \in stuck

\* A clear goes through whole files: the ones it has been to have lost exactly
\* the lines it was asked to remove and no others, in particular none it cannot
\* parse, the rest are as they were; its count is the number of lines (or files,
\* without a filter) that went.
ClearExact ==
    ~Idle =>
      LET f == clear.filter
          goes(l) == Everything(f) \/ (l # Garbage /\ \A k \in Fields : f[k] \in {AnyValue, l.tag[k]})
          was(d) == clear.before[d].lines
          gone(d) == {n \in DOMAIN was(d) : goes(was(d)[n])}
          done == DOMAIN clear.before \ clear.left
      IN  /\ \A d \in clear.left : files[d] = clear.before[d]
          /\ \A d \in done : File(d) = [lines |-> [n \in DOMAIN was(d) \ gone(d) |-> was(d)[n]],
                                      torn  |-> NoLine]
          /\ clear.count = IF Everything(f) THEN Cardinality(done)
                           ELSE Cardinality({p \in done \X (1..next - 1) : p[2] \in gone(p[1])})

(* What the repository says of the code and the code does not do: no run has *)
(* it; TLC refutes it with the constants of AuditJournal.cfg.                 *)

\* README.md:245-246: audit files are "removed after the configured retention".
\* Only an append prunes, and it ignores what it could not remove.
ExpiredIsRemoved == \A d \in DOMAIN files : d >= today - Retention
=============================================================================

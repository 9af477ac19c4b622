------------------------- MODULE AuditJournalProofs -------------------------
(***************************************************************************)
(* Proofs about AuditJournal, for any tags and filters, any retention and  *)
(* any number of days, events and broken writes: an answered event is      *)
(* found until its day is past the retention or a clear matches it, a      *)
(* clear removes exactly what it was asked to, and a step of the ring that *)
(* a listing fills keeps the newest matches in it.                         *)
(***************************************************************************)
EXTENDS AuditJournal, FiniteSetTheorems, TLAPS

-----------------------------------------------------------------------------
(* The inductive invariant *)

\* An owed event has its line, and that line has its newline: nothing that is
\* written later can be glued to it.
Found(e) ==
    /\ e.day \in DOMAIN files /\ e.id \in DOMAIN files[e.day].lines
    /\ files[e.day].lines[e.id] = e /\ files[e.day].torn # e.id

Young == \A d \in DOMAIN files : d >= newest - Retention \/ d \in stuck

\* The Clear that holds the mutex: the files it has still to go through are there,
\* and it started from a journal of lines written before.
Clearing ==
    /\ DOMAIN clear = {"filter", "left", "count", "before"}
    /\ clear.filter \in Filters
    /\ clear.left \subseteq DOMAIN files /\ clear.left \subseteq DOMAIN clear.before
    /\ DOMAIN clear.before \subseteq Days
    /\ \A d \in DOMAIN clear.before : DOMAIN clear.before[d].lines \subseteq 1..next - 1

IndInv ==
    /\ TypeOK
    /\ \A e \in owed : Found(e)
    /\ Young
    /\ Idle \/ Clearing
    /\ ClearExact

-----------------------------------------------------------------------------
(* Files *)

LEMMA Constants ==
    /\ Retention \in Nat /\ Retention >= 1 /\ MaxDay \in Nat /\ MaxDay >= 1
    /\ MaxEvents \in Nat /\ MaxBroken \in Nat
  BY RetentionAssumption, BoundAssumption

LEMMA EmptyFileOK ==
    ASSUME NEW d, NEW n \in Nat
    PROVE  FileOK(d, EmptyFile, n) /\ EmptyFile.torn = NoLine /\ DOMAIN EmptyFile.lines = {}
  BY DEF FileOK, EmptyFile, NoLine

\* What a write may make of the file f: the lines that have their newline keep it
\* and stay as they are.
After(d, f, w) ==
    /\ FileOK(d, w, next + 1)
    /\ \A k \in DOMAIN f.lines : k # f.torn =>
          k \in DOMAIN w.lines /\ w.lines[k] = f.lines[k] /\ w.torn # k

\* A line is written at the end of a file.
LEMMA WrittenFacts ==
    ASSUME NEW d, NEW f, NEW line, NEW ended \in BOOLEAN,
           next \in Nat, next >= 1, FileOK(d, f, next),
           line = Garbage \/ (line.day = d /\ line.id = next)
    PROVE  After(d, f, Written(f, line, ended))
  <1> DEFINE at == IF f.torn = NoLine THEN next ELSE f.torn
             text == IF f.torn = NoLine THEN line ELSE Garbage
             lines == With(f.lines, at, text)
             torn == IF ended THEN NoLine ELSE at
             w == Written(f, line, ended)
  <1>1. w = [lines |-> lines, torn |-> torn]
    BY DEF Written
  <1>2. DOMAIN w = {"lines", "torn"} /\ w.lines = lines /\ w.torn = torn
    BY <1>1
  <1>3. /\ DOMAIN lines = DOMAIN f.lines \cup {at} /\ lines[at] = text
        /\ \A k \in DOMAIN f.lines \ {at} : lines[k] = f.lines[k]
    BY DEF With
  <1>4. /\ at \in 1..next /\ \A k \in DOMAIN f.lines : k \in 1..next - 1 /\ k <= at
        /\ at = next \/ at = f.torn
    BY DEF FileOK, NoLine
  <1>5. text = Garbage \/ (text.day = d /\ text.id = at)
    OBVIOUS
  <1> HIDE DEF w, lines, text
  <1>6. /\ \A k \in DOMAIN lines : k \in 1..next /\ k <= at
        /\ \A k \in DOMAIN lines : lines[k] = Garbage \/ (lines[k].day = d /\ lines[k].id = k)
    BY <1>3, <1>4, <1>5 DEF FileOK
  <1>7. FileOK(d, w, next + 1)
    BY <1>2, <1>3, <1>6 DEF FileOK
  <1>8. ASSUME NEW k \in DOMAIN f.lines, k # f.torn
        PROVE  k \in DOMAIN w.lines /\ w.lines[k] = f.lines[k] /\ w.torn # k
    <2>1. k # at
      BY <1>4, <1>8
    <2>2. k # NoLine
      BY <1>4 DEF NoLine
    <2> QED
      BY <1>2, <1>3, <2>1, <2>2
  <1> QED
    BY <1>7, <1>8 DEF w, After

\* A file keeps its shape when the number of the next event grows.
LEMMA FileGrows ==
    ASSUME NEW d, NEW f, NEW n \in Nat, FileOK(d, f, n)
    PROVE  FileOK(d, f, n + 1)
  <1>1. \A k \in 1..n - 1 : k \in 1..(n + 1) - 1
    OBVIOUS
  <1> QED
    BY <1>1 DEF FileOK

-----------------------------------------------------------------------------
(* Append *)

\* Whatever a write leaves in the file of its day, the journal keeps its shape.
LEMMA FilePut ==
    ASSUME TypeOK, NEW d \in Days, NEW w, FileOK(d, w, next + 1)
    PROVE  /\ DOMAIN With(files, d, w) = DOMAIN files \cup {d}
           /\ With(files, d, w)[d] = w
           /\ \A x \in DOMAIN files \ {d} : With(files, d, w)[x] = files[x]
           /\ \A x \in DOMAIN With(files, d, w) : FileOK(x, With(files, d, w)[x], next + 1)
  <1>1. /\ DOMAIN With(files, d, w) = DOMAIN files \cup {d}
        /\ With(files, d, w)[d] = w
        /\ \A x \in DOMAIN files \ {d} : With(files, d, w)[x] = files[x]
    BY DEF With
  <1>2. next \in Nat
    BY Constants DEF TypeOK
  <1>3. \A x \in DOMAIN files : FileOK(x, files[x], next + 1)
    BY <1>2, FileGrows DEF TypeOK
  <1> QED
    BY <1>1, <1>3

LEMMA AppendStep ==
    ASSUME IndInv, Idle, NEW d \in EventDays, NEW tag,
           Appended(d, tag) \/ AppendBroken(d, tag),
           UNCHANGED <<today, clear>>, recording' \subseteq Filters
    PROVE  IndInv'
  <1> DEFINE e == Event(d, tag)
  <1>1. /\ next \in Nat /\ next >= 1 /\ next <= MaxEvents /\ next' = next + 1
        /\ d \in Days /\ d \in Nat /\ today \in Days /\ today \in Nat /\ d <= today /\ d >= today - 1
        /\ newest \in Nat /\ newest <= today /\ broken' \in 0..MaxBroken
    <2>1. /\ next \in 1..MaxEvents + 1 /\ today \in 1..MaxDay /\ newest \in 0..today
          /\ broken \in 0..MaxBroken
      BY DEF IndInv, TypeOK, Days
    <2>2. d \in {today, today - 1} /\ d \in 1..MaxDay
      BY DEF EventDays, Days
    <2>3. next <= MaxEvents /\ next' = next + 1 /\ (broken' = broken \/ (broken < MaxBroken /\ broken' = broken + 1))
      BY DEF Appended, AppendBroken
    <2> QED
      BY <2>1, <2>2, <2>3, Constants DEF Days
  <1>2. FileOK(d, File(d), next)
    BY <1>1, EmptyFileOK DEF IndInv, TypeOK, File
  <1>3. e.day = d /\ e.id = next
    BY DEF Event
  <1>4. ASSUME NEW x \in owed
        PROVE  x.day = d => /\ x.id \in DOMAIN File(d).lines /\ File(d).lines[x.id] = x
                            /\ File(d).torn # x.id
    BY DEF IndInv, Found, File
  <1>5. DOMAIN files \subseteq Nat
    BY Constants DEF IndInv, TypeOK, Days
  <1>6. CASE Appended(d, tag)
    <2> DEFINE w == Written(File(d), e, TRUE)
               all == With(files, d, w)
    <2>1. /\ After(d, File(d), w) /\ w.torn = NoLine
          /\ File(d).torn = NoLine => next \in DOMAIN w.lines /\ w.lines[next] = e
      <3>1. After(d, File(d), w)
        BY <1>1, <1>2, <1>3, WrittenFacts, Zenon
      <3> HIDE DEF e
      <3>2. w.torn = NoLine
        BY DEF Written
      <3>3. File(d).torn = NoLine => next \in DOMAIN w.lines /\ w.lines[next] = e
        BY DEF Written, With
      <3> QED
        BY <3>1, <3>2, <3>3
    <2> HIDE DEF w
    <2>2. /\ DOMAIN all = DOMAIN files \cup {d} /\ all[d] = w
          /\ \A x \in DOMAIN files \ {d} : all[x] = files[x]
          /\ \A x \in DOMAIN all : FileOK(x, all[x], next + 1)
      <3>1. TypeOK /\ FileOK(d, w, next + 1)
        BY <2>1 DEF IndInv, After
      <3> QED
        BY <1>1, <3>1, FilePut, Zenon
    <2>3. PICK stay \in SUBSET Expired(all, d) :
             /\ files' = pruneLocked(all, d, stay)
             /\ stuck' = (stuck \cap DOMAIN files') \cup stay
             /\ owed' = {x \in owed : x.day >= d - Retention}
                        \cup (IF File(d).torn # NoLine THEN {} ELSE {e})
             /\ newest' = IF d > newest THEN d ELSE newest
      BY <1>6 DEF Appended, w
    <2> HIDE DEF all
    <2>4. /\ DOMAIN files' = {x \in DOMAIN all : x >= d - Retention \/ x \in stay}
          /\ stay \subseteq DOMAIN all
          /\ \A x \in DOMAIN files' : files'[x] = all[x]
      <3>1. /\ DOMAIN files' = DOMAIN all \ ({x \in DOMAIN all : x < d - Retention} \ stay)
            /\ \A x \in DOMAIN files' : files'[x] = all[x]
        BY <2>3 DEF pruneLocked, Without, Expired
      <3>2. stay \subseteq DOMAIN all
        BY DEF Expired
      <3> QED
        BY <1>1, <1>5, <2>2, <3>1, <3>2, Constants
    <2>5. d \in DOMAIN files' /\ files'[d] = w
      BY <1>1, <2>2, <2>4, Constants
    <2>6. TypeOK'
      <3>1. DOMAIN files' \subseteq Days /\ \A x \in DOMAIN files' : FileOK(x, files'[x], next')
        BY <1>1, <2>2, <2>4 DEF IndInv, TypeOK
      <3>2. newest' \in 0..today /\ next' \in 1..MaxEvents + 1
        BY <1>1, <2>3, Constants
      <3>3. stuck' \subseteq Days
        BY <1>1, <2>2, <2>3, <2>4 DEF IndInv, TypeOK
      <3> QED
        BY <1>1, <3>1, <3>2, <3>3 DEF TypeOK
    <2>7. ASSUME NEW x \in owed'
          PROVE  Found(x)'
      <3>1. CASE x \in owed /\ x.day >= d - Retention
        <4>1. Found(x)
          BY <3>1 DEF IndInv
        <4>2. x.day \in DOMAIN files'
          BY <2>2, <2>4, <3>1, <4>1 DEF Found
        <4>3. CASE x.day = d
          BY <1>4, <2>1, <2>5, <3>1, <4>3 DEF Found, After
        <4>4. CASE x.day # d
          <5>1. files'[x.day] = files[x.day]
            BY <2>2, <2>4, <4>1, <4>2, <4>4 DEF Found
          <5> QED
            BY <4>1, <4>2, <5>1 DEF Found
        <4> QED
          BY <4>3, <4>4
      <3>2. CASE File(d).torn = NoLine /\ x = e
        BY <1>1, <1>3, <2>1, <2>5, <3>2 DEF Found, NoLine
      <3> QED
        BY <2>3, <3>1, <3>2
    <2>8. Young'
      BY <1>1, <1>5, <2>2, <2>3, <2>4, Constants DEF Young, IndInv
    <2> QED
      BY <2>6, <2>7, <2>8 DEF IndInv, Idle, ClearExact
  <1>7. CASE AppendBroken(d, tag)
    <2>1. PICK w \in {File(d), Written(File(d), Garbage, FALSE), Written(File(d), e, FALSE),
                      Written(File(d), e, TRUE)} :
             files' = With(files, d, w)
      BY <1>7 DEF AppendBroken
    <2>2. After(d, File(d), w)
      <3>1. After(d, File(d), File(d))
        BY <1>1, <1>2, FileGrows DEF After
      <3>2. After(d, File(d), Written(File(d), Garbage, FALSE))
        BY <1>1, <1>2, WrittenFacts, Zenon
      <3>3. After(d, File(d), Written(File(d), e, FALSE)) /\ After(d, File(d), Written(File(d), e, TRUE))
        BY <1>1, <1>2, <1>3, WrittenFacts, Zenon
      <3> HIDE DEF e
      <3> QED
        BY <2>1, <3>1, <3>2, <3>3
    <2>3. /\ DOMAIN files' = DOMAIN files \cup {d} /\ files'[d] = w
          /\ \A x \in DOMAIN files \ {d} : files'[x] = files[x]
          /\ \A x \in DOMAIN files' : FileOK(x, files'[x], next + 1)
      <3>1. TypeOK /\ FileOK(d, w, next + 1) /\ files' = With(files, d, w)
        BY <2>1, <2>2 DEF IndInv, After
      <3>2. /\ DOMAIN With(files, d, w) = DOMAIN files \cup {d}
            /\ With(files, d, w)[d] = w
            /\ \A x \in DOMAIN files \ {d} : With(files, d, w)[x] = files[x]
            /\ \A x \in DOMAIN With(files, d, w) : FileOK(x, With(files, d, w)[x], next + 1)
        BY <1>1, <3>1, FilePut, Zenon
      <3> QED
        BY <3>1, <3>2
    <2>4. UNCHANGED <<owed, newest, stuck>>
      BY <1>7 DEF AppendBroken
    <2>5. TypeOK'
      <3>1. next' \in 1..MaxEvents + 1
        BY <1>1, Constants
      <3> QED
        BY <1>1, <2>3, <2>4, <3>1 DEF IndInv, TypeOK
    <2>6. ASSUME NEW x \in owed'
          PROVE  Found(x)'
      <3>1. x \in owed /\ Found(x)
        BY <2>4 DEF IndInv
      <3>2. CASE x.day = d
        BY <1>4, <2>2, <2>3, <3>1, <3>2 DEF Found, After
      <3>3. CASE x.day # d
        BY <2>3, <3>1, <3>3 DEF Found
      <3> QED
        BY <3>2, <3>3
    <2>7. Young'
      BY <1>1, <2>3, <2>4, Constants DEF Young, IndInv
    <2> QED
      BY <2>5, <2>6, <2>7 DEF IndInv, Idle, ClearExact
  <1> QED
    BY <1>6, <1>7

-----------------------------------------------------------------------------
(* Clear *)

\* A line goes if the filter has nothing against it.
Goes(f, l) == l # Garbage /\ \A k \in Fields : f[k] \in {AnyValue, l.tag[k]}

LEMMA MatchesGoes ==
    ASSUME NEW f, NEW l
    PROVE  Matches(l, f) <=> Goes(f, l)
  BY DEF Matches, auditMatches, Goes, Fields

\* What a clear with filter f takes from a file, and the file without it.
Gone(f, lines) == {n \in DOMAIN lines : Everything(f) \/ Goes(f, lines[n])}
Rest(f, lines) == [lines |-> [n \in DOMAIN lines \ Gone(f, lines) |-> lines[n]], torn |-> NoLine]

Done == DOMAIN clear.before \ clear.left
Taken(f, before, done, n) == {p \in done \X (1..n - 1) : p[2] \in Gone(f, before[p[1]].lines)}

Exact ==
    /\ \A d \in clear.left : files[d] = clear.before[d]
    /\ \A d \in Done : File(d) = Rest(clear.filter, clear.before[d].lines)
    /\ clear.count = IF Everything(clear.filter) THEN Cardinality(Done)
                     ELSE Cardinality(Taken(clear.filter, clear.before, Done, next))

LEMMA ExactIsExact == ClearExact <=> (~Idle => Exact)
  BY DEF ClearExact, Exact, Gone, Rest, Done, Taken, Goes

LEMMA ExactIsExactNext == ClearExact' <=> (~Idle' => Exact')
  BY DEF ClearExact, Exact, Gone, Rest, Done, Taken, Goes

\* One file of a clear.
LEMMA RestFacts ==
    ASSUME NEW f, NEW d, d \in DOMAIN files,
           files' = IF Everything(f) THEN Without(files, {d}) ELSE clearAuditFile(files, d, f)
    PROVE  /\ DOMAIN files' \subseteq DOMAIN files
           /\ \A x \in DOMAIN files \ {d} : x \in DOMAIN files' /\ files'[x] = files[x]
           /\ d \in DOMAIN files' => files'[d] = Rest(f, files[d].lines)
           /\ d \notin DOMAIN files' => EmptyFile = Rest(f, files[d].lines)
  <1> DEFINE lines == files[d].lines
             kept == {n \in DOMAIN lines : ~Matches(lines[n], f)}
  <1>1. ASSUME DOMAIN lines \ Gone(f, lines) = {}
        PROVE  EmptyFile = Rest(f, lines)
    BY <1>1 DEF EmptyFile, Rest
  <1>2. CASE Everything(f)
    <2>1. files' = Without(files, {d}) /\ DOMAIN lines \ Gone(f, lines) = {}
      BY <1>2 DEF Gone
    <2> QED
      BY <1>1, <2>1 DEF Without
  <1>3. CASE ~Everything(f)
    <2>1. kept = DOMAIN lines \ Gone(f, lines)
      BY <1>3, MatchesGoes DEF Gone
    <2>2. files' = Rewritten(files, d, kept)
      BY <1>3 DEF clearAuditFile
    <2> HIDE DEF kept
    <2>3. CASE kept = {}
      BY <1>1, <2>1, <2>2, <2>3 DEF Rewritten, Without
    <2>4. CASE kept # {}
      <3>1. files' = With(files, d, [lines |-> [n \in kept |-> lines[n]], torn |-> NoLine])
        BY <2>2, <2>4 DEF Rewritten
      <3>2. [lines |-> [n \in kept |-> lines[n]], torn |-> NoLine] = Rest(f, lines)
        BY <2>1 DEF Rest
      <3> QED
        BY <3>1, <3>2 DEF With
    <2> QED
      BY <2>3, <2>4
  <1> QED
    BY <1>2, <1>3

\* The lines a clear has taken grow by those of the file it goes through.
LEMMA TakenGrows ==
    ASSUME NEW f, NEW before, NEW done, NEW d, d \notin done,
           IsFiniteSet(done), next \in Nat,
           DOMAIN before[d].lines \subseteq 1..next - 1
    PROVE  Cardinality(Taken(f, before, done \cup {d}, next)) =
             Cardinality(Taken(f, before, done, next)) + Cardinality(Gone(f, before[d].lines))
  <1> DEFINE G == Gone(f, before[d].lines)
             T == Taken(f, before, done, next)
             U == {d} \X G
  <1>1. G \subseteq 1..next - 1
    BY DEF Gone
  <1>2. IsFiniteSet(1..next - 1)
    BY FS_Interval
  <1>3. IsFiniteSet(G) /\ Cardinality(G) \in Nat
    BY <1>1, <1>2, FS_Subset, FS_CardinalityType
  <1>4. IsFiniteSet(T) /\ Cardinality(T) \in Nat
    <2>1. IsFiniteSet(done \X (1..next - 1))
      BY <1>2, FS_Product
    <2>2. T \subseteq done \X (1..next - 1)
      BY DEF Taken
    <2> QED
      BY <2>1, <2>2, FS_Subset, FS_CardinalityType
  <1>5. IsFiniteSet(U) /\ Cardinality(U) = Cardinality(G)
    <2>1. IsFiniteSet({d}) /\ Cardinality({d}) = 1
      BY FS_Singleton
    <2>2. IsFiniteSet(U) /\ Cardinality(U) = Cardinality({d}) * Cardinality(G)
      BY <1>3, <2>1, FS_Product
    <2> QED
      BY <1>3, <2>1, <2>2
  <1>6. T \cap U = {}
    BY DEF Taken
  <1>7. Taken(f, before, done \cup {d}, next) = T \cup U
    <2> HIDE DEF G
    <2>1. \A p : p \in Taken(f, before, done \cup {d}, next) => p \in T \cup U
      BY DEF Taken, G
    <2>2. \A p : p \in T \cup U => p \in Taken(f, before, done \cup {d}, next)
      BY <1>1 DEF Taken, G
    <2> QED
      BY <2>1, <2>2
  <1> HIDE DEF T, U, G
  <1>8. Cardinality(T \cup U) = Cardinality(T) + Cardinality(U) - Cardinality(T \cap U)
    BY <1>4, <1>5, FS_Union
  <1>9. Cardinality({}) = 0
    BY FS_EmptySet
  <1>10. Cardinality(T \cup U) = Cardinality(T) + Cardinality(G)
    <2>1. Cardinality(T \cap U) = 0
      BY <1>6, <1>9
    <2> QED
      BY <1>3, <1>4, <1>5, <1>8, <2>1
  <1> QED
    BY <1>7, <1>10 DEF T, G

LEMMA ClearFileStep ==
    ASSUME IndInv, NEW d \in Days, ClearFile(d)
    PROVE  IndInv'
  <1> DEFINE f == clear.filter
             before == clear.before
             lines == files[d].lines
             rest == Rest(f, lines)
  <1>1. /\ ~Idle /\ Clearing /\ Exact /\ d \in clear.left /\ d \in DOMAIN files
        /\ d \in DOMAIN before /\ files[d] = before[d]
    <2>1. ~Idle /\ Clearing /\ Exact /\ d \in clear.left
      BY ExactIsExact DEF ClearFile, IndInv
    <2> QED
      BY <2>1 DEF Clearing, Exact
  <1>2. /\ files' = IF Everything(f) THEN Without(files, {d}) ELSE clearAuditFile(files, d, f)
        /\ clear' = [clear EXCEPT !.left = clear.left \ {d}, !.count = clear.count + Hit(d, f)]
        /\ owed' = {e \in owed : e.day = d => \E k \in Fields : f[k] \notin {AnyValue, e.tag[k]}}
        /\ UNCHANGED <<today, next, broken, recording, newest, stuck>>
    BY DEF ClearFile
  <1>3. /\ DOMAIN files' \subseteq DOMAIN files
        /\ \A x \in DOMAIN files \ {d} : x \in DOMAIN files' /\ files'[x] = files[x]
        /\ d \in DOMAIN files' => files'[d] = rest
        /\ d \notin DOMAIN files' => EmptyFile = rest
    <2> HIDE DEF f
    <2> QED
      BY <1>1, <1>2, RestFacts
  <1>4. /\ DOMAIN clear' = {"filter", "left", "count", "before"}
        /\ clear'.filter = f /\ clear'.before = before
        /\ clear'.left = clear.left \ {d} /\ clear'.count = clear.count + Hit(d, f)
    BY <1>1, <1>2 DEF Clearing
  <1>5. /\ next \in Nat /\ next >= 1 /\ FileOK(d, files[d], next)
        /\ \A x \in DOMAIN files : DOMAIN files[x].lines \subseteq 1..next - 1
    BY <1>1, Constants DEF IndInv, TypeOK, FileOK
  <1>6. /\ DOMAIN rest = {"lines", "torn"} /\ rest.torn = NoLine
        /\ DOMAIN rest.lines = DOMAIN lines \ Gone(f, lines)
        /\ \A n \in DOMAIN rest.lines : rest.lines[n] = lines[n]
    BY DEF Rest
  <1> HIDE DEF rest
  <1>7. TypeOK'
    <2>1. FileOK(d, rest, next)
      BY <1>5, <1>6 DEF FileOK
    <2>2. \A x \in DOMAIN files' : FileOK(x, files'[x], next)
      BY <1>3, <2>1 DEF IndInv, TypeOK
    <2> QED
      BY <1>2, <1>3, <2>2 DEF IndInv, TypeOK
  <1>8. ASSUME NEW e \in owed'
        PROVE  Found(e)'
    <2>1. e \in owed /\ Found(e) /\ (e.day = d => \E k \in Fields : f[k] \notin {AnyValue, e.tag[k]})
      BY <1>2 DEF IndInv
    <2>2. CASE e.day = d
      <3>1. e.id \in DOMAIN lines /\ lines[e.id] = e /\ e.id # NoLine
        BY <1>1, <1>5, <2>1, <2>2 DEF Found, NoLine
      <3>2. e.id \notin Gone(f, lines)
        BY <2>1, <2>2, <3>1 DEF Gone, Goes, Everything
      <3>3. e.id \in DOMAIN rest.lines /\ rest.lines[e.id] = e /\ rest.torn # e.id
        BY <1>6, <3>1, <3>2
      <3>4. d \in DOMAIN files'
        <4>1. DOMAIN EmptyFile.lines = {}
          BY DEF EmptyFile
        <4> QED
          BY <1>3, <3>3, <4>1
      <3> QED
        BY <1>3, <2>2, <3>3, <3>4 DEF Found
    <2>3. CASE e.day # d
      BY <1>3, <2>1, <2>3 DEF Found
    <2> QED
      BY <2>2, <2>3
  <1>9. Young'
    BY <1>2, <1>3 DEF Young, IndInv
  <1>10. Clearing'
    BY <1>1, <1>2, <1>3, <1>4 DEF Clearing
  <1>11. Exact'
    <2>1. Done' = Done \cup {d} /\ d \notin Done
      BY <1>1, <1>4 DEF Done, Clearing
    <2>2. \A x \in clear'.left : files'[x] = before[x]
      BY <1>1, <1>3, <1>4 DEF Exact, Clearing
    <2>3. ASSUME NEW x \in Done'
          PROVE  (IF x \in DOMAIN files' THEN files'[x] ELSE EmptyFile) = Rest(f, before[x].lines)
      <3>1. CASE x = d
        BY <1>1, <1>3, <3>1 DEF rest
      <3>2. CASE x # d
        <4>1. File(x) = Rest(f, before[x].lines)
          BY <1>1, <2>1, <2>3, <3>2 DEF Exact
        <4>2. (x \in DOMAIN files' <=> x \in DOMAIN files) /\ (x \in DOMAIN files => files'[x] = files[x])
          BY <1>3, <3>2
        <4> QED
          BY <4>1, <4>2 DEF File
      <3> QED
        BY <3>1, <3>2
    <2>4. IsFiniteSet(Done)
      <3>1. IsFiniteSet(Days) /\ Done \subseteq Days
        BY <1>1, Constants, FS_Interval DEF Days, Done, Clearing
      <3> QED
        BY <3>1, FS_Subset
    <2>5. clear'.count = IF Everything(f) THEN Cardinality(Done')
                         ELSE Cardinality(Taken(f, before, Done', next'))
      <3>1. CASE Everything(f)
        <4>1. Hit(d, f) = 1 /\ clear.count = Cardinality(Done)
          BY <1>1, <3>1 DEF Hit, Exact
        <4>2. Cardinality(Done \cup {d}) = Cardinality(Done) + 1
          BY <2>1, <2>4, FS_AddElement
        <4> QED
          BY <1>4, <2>1, <3>1, <4>1, <4>2
      <3>2. CASE ~Everything(f)
        <4>1. Gone(f, lines) = {n \in DOMAIN lines : Matches(lines[n], f)}
          BY <3>2, MatchesGoes DEF Gone
        <4>2. Hit(d, f) = Cardinality(Gone(f, before[d].lines))
          BY <1>1, <3>2, <4>1 DEF Hit
        <4>3. clear.count = Cardinality(Taken(f, before, Done, next))
          BY <1>1, <3>2 DEF Exact
        <4>4. DOMAIN before[d].lines \subseteq 1..next - 1
          BY <1>1 DEF Clearing
        <4>5. Cardinality(Taken(f, before, Done \cup {d}, next)) =
                Cardinality(Taken(f, before, Done, next)) + Cardinality(Gone(f, before[d].lines))
          BY <1>5, <2>1, <2>4, <4>4, TakenGrows
        <4> QED
          BY <1>2, <1>4, <2>1, <3>2, <4>2, <4>3, <4>5
      <3> QED
        BY <3>1, <3>2
    <2> HIDE DEF f, before
    <2> QED
      BY <1>4, <2>2, <2>3, <2>5 DEF Exact, File
  <1> QED
    BY <1>7, <1>8, <1>9, <1>10, <1>11, ExactIsExactNext DEF IndInv

\* A clear starts, fails, ends or goes down with the daemon.
LEMMA ClearStep ==
    ASSUME IndInv, ClearFails \/ ClearEnd \/ Crash \/ \E f \in Filters : ClearStart(f)
    PROVE  IndInv'
  <1>1. /\ UNCHANGED <<files, today, next, broken, owed, newest, stuck>> /\ recording' \subseteq Filters
    <2>1. UNCHANGED <<files, today, next, broken, owed, newest, stuck>>
      BY DEF ClearFails, ClearEnd, Crash, ClearStart
    <2>2. recording \subseteq Filters
      BY DEF IndInv, TypeOK
    <2>3. ~Idle => clear.filter \in Filters
      BY DEF IndInv, Clearing
    <2> QED
      BY <2>1, <2>2, <2>3 DEF ClearFails, ClearEnd, Crash, ClearStart
  <1>2. TypeOK' /\ (\A e \in owed' : Found(e)') /\ Young'
    BY <1>1 DEF IndInv, TypeOK, FileOK, Found, Young
  <1>3. CASE ClearFails \/ ClearEnd \/ Crash
    <2>1. Idle'
      BY <1>3 DEF ClearFails, ClearEnd, Crash, Idle
    <2> QED
      BY <1>2, <2>1 DEF IndInv, ClearExact
  <1>4. ASSUME NEW f \in Filters, ClearStart(f)
        PROVE  IndInv'
    <2>1. clear' = [filter |-> f, left |-> DOMAIN files, count |-> 0, before |-> files]
      BY <1>4 DEF ClearStart
    <2>2. /\ DOMAIN clear' = {"filter", "left", "count", "before"}
          /\ clear'.filter = f /\ clear'.left = DOMAIN files /\ clear'.count = 0 /\ clear'.before = files
      BY <2>1
    <2>3. \A d \in DOMAIN files : DOMAIN files[d].lines \subseteq 1..next - 1
      BY DEF IndInv, TypeOK, FileOK
    <2>4. Clearing'
      BY <1>1, <2>2, <2>3 DEF Clearing, IndInv, TypeOK
    <2>5. Exact'
      <3>1. Done' = {}
        BY <2>2 DEF Done
      <3>2. Taken(f, files, {}, next) = {}
        BY DEF Taken
      <3>3. Cardinality({}) = 0
        BY FS_EmptySet
      <3> QED
        BY <1>1, <2>2, <3>1, <3>2, <3>3 DEF Exact
    <2> QED
      BY <1>2, <2>4, <2>5, ExactIsExactNext DEF IndInv
  <1> QED
    BY <1>3, <1>4

LEMMA InitInd == Init => IndInv
  <1> SUFFICES ASSUME Init PROVE IndInv
    OBVIOUS
  <1>1. DOMAIN files = {} /\ Idle
    BY DEF Init, Idle
  <1> QED
    BY <1>1, Constants DEF Init, IndInv, TypeOK, Young, ClearExact, Days

\* The inductive invariant, for every behaviour.
LEMMA AlwaysInd == Spec => []IndInv
  <1>1. IndInv /\ [Next]_vars => IndInv'
    <2> SUFFICES ASSUME IndInv, [Next]_vars PROVE IndInv'
      OBVIOUS
    <2>1. CASE UNCHANGED vars \/ Midnight
      <3>1. UNCHANGED <<files, next, broken, clear, recording, owed, newest, stuck>>
        BY <2>1 DEF vars, Midnight
      <3>2. today' \in Days /\ newest \in 0..today'
        <4>1. today \in Days /\ newest \in 0..today
          BY DEF IndInv, TypeOK
        <4>2. today' = today \/ (today < MaxDay /\ today' = today + 1)
          BY <2>1 DEF vars, Midnight
        <4> QED
          BY <4>1, <4>2, Constants DEF Days
      <3>3. TypeOK'
        BY <3>1, <3>2 DEF IndInv, TypeOK, FileOK
      <3>4. (\A e \in owed' : Found(e)') /\ Young' /\ (Idle' \/ Clearing')
        BY <3>1 DEF IndInv, Found, Young, Idle, Clearing
      <3>5. ClearExact'
        <4>1. ~Idle' => Exact
          BY <3>1, ExactIsExact DEF IndInv, Idle
        <4>2. Exact => Exact'
          BY <3>1 DEF Exact, Done, File
        <4> QED
          BY <4>1, <4>2, ExactIsExactNext
      <3> QED
        BY <3>3, <3>4, <3>5 DEF IndInv
    <2>2. ASSUME NEW d \in EventDays, NEW tag \in Tags, Record(d, tag)
          PROVE  IndInv'
      <3>1. recording' \subseteq Filters
        BY <2>2 DEF Record, IndInv, TypeOK
      <3> QED
        BY <2>2, <3>1, AppendStep DEF Record
    <2>3. ASSUME NEW f \in Filters, RecordClear(f)
          PROVE  IndInv'
      <3> DEFINE tag == [f EXCEPT !["type"] = "audit_cleared"]
      <3>1. /\ Idle /\ (Appended(today, tag) \/ AppendBroken(today, tag)) /\ UNCHANGED <<today, clear>>
            /\ recording' = recording \ {f}
        BY <2>3 DEF RecordClear
      <3> HIDE DEF tag
      <3>2. recording' \subseteq Filters /\ today \in EventDays
        BY <3>1 DEF IndInv, TypeOK, EventDays
      <3> QED
        BY <3>1, <3>2, AppendStep
    <2> QED
      BY <2>1, <2>2, <2>3, ClearFileStep, ClearStep DEF Next
  <1> QED
    BY <1>1, InitInd, PTL DEF Spec

-----------------------------------------------------------------------------
(* Theorems *)

\* Every file of the journal keeps its shape (Append, clearAuditFile): lines of its
\* own day only, each event once, and only the last line can lack its newline.
THEOREM TypeCorrect == Spec => []TypeOK
  BY AlwaysInd, PTL DEF IndInv

\* An event that Append has answered is found until its day is past the retention
\* or a Clear that matches it has removed it, whatever is written, cut off, cleared
\* halfway or pruned in between; and of the files past the retention only those are
\* left that pruneLocked failed to remove.
THEOREM RetentionIsKept == Spec => []KeptForRetention
  <1>1. IndInv => KeptForRetention
    <2> SUFFICES ASSUME IndInv PROVE KeptForRetention
      OBVIOUS
    <2>1. \A e \in owed : e.day \in DOMAIN files /\ e \in Lines(e.day)
      BY DEF IndInv, Found, Lines, Range
    <2> QED
      BY <2>1 DEF IndInv, Young, KeptForRetention
  <1> QED
    BY <1>1, AlwaysInd, PTL

\* At every step of a Clear the files it has been to have lost exactly the lines
\* it was asked to remove, the others nothing, and its count is what went.
THEOREM ClearsAreExact == Spec => []ClearExact
  BY AlwaysInd, PTL DEF IndInv

-----------------------------------------------------------------------------
(* The ring of readAuditFile *)

\* The remainder of a number below twice the divisor.
LEMMA ModFacts ==
    ASSUME NEW n \in Nat \ {0}, NEW x \in 0..2 * n - 1
    PROVE  x % n = IF x < n THEN x ELSE x - n
  <1>1. ASSUME NEW y \in 0..n - 1 PROVE y % n = y /\ (y + n) % n = y
    OBVIOUS
  <1>2. CASE x < n
    BY <1>1, <1>2
  <1>3. CASE ~(x < n)
    <2>1. x - n \in 0..n - 1 /\ (x - n) + n = x
      BY <1>3
    <2>2. ((x - n) + n) % n = x - n
      BY <1>1, <2>1
    <2> QED
      BY <1>3, <2>1, <2>2
  <1> QED
    BY <1>2, <1>3

\* The ring r of readAuditFile after the matches seen: the newest of them, as many
\* as the limit, the oldest of these at start.
RingOf(r, seen, limit) ==
    /\ DOMAIN r = {"ring", "start"}
    /\ Len(r.ring) = IF Len(seen) < limit THEN Len(seen) ELSE limit
    /\ r.start \in 0..limit - 1
    /\ Len(seen) < limit => r.start = 0
    /\ \A p \in 1..Len(r.ring) :
          r.ring[p] = seen[(IF p > r.start THEN p - r.start ELSE p - r.start + Len(r.ring))
                           + (Len(seen) - Len(r.ring))]

\* The step of readAuditFile's loop, for every limit and any number of lines: a
\* ring that holds the newest matches holds them after the next match as well, and
\* what readAuditFile reads off it is those matches, newest first.  (That the loop
\* so reads a whole file, and List the whole journal, is an induction over the
\* lines.)
THEOREM RingKeepsNewest ==
    ASSUME NEW E, NEW limit \in Nat \ {0}, NEW seen \in Seq(E), NEW r, r.ring \in Seq(E)
    PROVE  /\ RingOf(EmptyRing, <<>>, limit)
           /\ RingOf(r, seen, limit) =>
                /\ \A e \in E : /\ RingStep(r, e, limit).ring \in Seq(E)
                                /\ RingOf(RingStep(r, e, limit), Append(seen, e), limit)
                /\ DOMAIN NewestFirst(r) = 1..(IF Len(seen) < limit THEN Len(seen) ELSE limit)
                /\ \A i \in DOMAIN NewestFirst(r) : NewestFirst(r)[i] = seen[Len(seen) + 1 - i]
  <1>1. RingOf(EmptyRing, <<>>, limit)
    BY DEF RingOf, EmptyRing
  <1> SUFFICES ASSUME RingOf(r, seen, limit)
               PROVE  /\ \A e \in E : /\ RingStep(r, e, limit).ring \in Seq(E)
                                      /\ RingOf(RingStep(r, e, limit), Append(seen, e), limit)
                      /\ DOMAIN NewestFirst(r) = 1..(IF Len(seen) < limit THEN Len(seen) ELSE limit)
                      /\ \A i \in DOMAIN NewestFirst(r) : NewestFirst(r)[i] = seen[Len(seen) + 1 - i]
    BY <1>1
  <1> DEFINE L == Len(seen)
             c == Len(r.ring)
             s == r.start
             ring == r.ring
  <1>2. /\ L \in Nat /\ c \in Nat /\ c = (IF L < limit THEN L ELSE limit)
        /\ s \in 0..limit - 1 /\ (L < limit => s = 0) /\ ring \in Seq(E)
        /\ \A p \in 1..c : ring[p] = seen[(IF p > s THEN p - s ELSE p - s + c) + (L - c)]
    <2>1. L \in Nat /\ c \in Nat /\ ring \in Seq(E)
      OBVIOUS
    <2>2. /\ c = (IF L < limit THEN L ELSE limit) /\ s \in 0..limit - 1 /\ (L < limit => s = 0)
          /\ \A p \in 1..c : ring[p] = seen[(IF p > s THEN p - s ELSE p - s + c) + (L - c)]
      BY Zenon DEF RingOf
    <2> QED
      BY <2>1, <2>2, Zenon
  <1>0. /\ L \in Nat /\ c \in Nat /\ s \in Nat /\ s < limit /\ limit \in Nat /\ limit > 0
        /\ L < limit => c = L /\ s = 0
        /\ L >= limit => c = limit
        /\ DOMAIN ring = 1..c
    BY <1>2
  <1> HIDE DEF L, c, s, ring
  <1>3. ASSUME NEW e \in E
        PROVE  /\ RingStep(r, e, limit).ring \in Seq(E)
               /\ RingOf(RingStep(r, e, limit), Append(seen, e), limit)
    <2> DEFINE more == Append(seen, e)
               q == RingStep(r, e, limit)
    <2>1. Len(more) = L + 1 /\ more[L + 1] = e /\ \A k \in 1..L : more[k] = seen[k]
      BY DEF L
    <2>2. CASE c < limit
      <3>1. L < limit /\ c = L /\ s = 0
        BY <1>0, <2>2
      <3>2. DOMAIN q = {"ring", "start"} /\ q.ring = Append(ring, e) /\ q.start = s
        BY <2>2 DEF RingStep, RingOf, c, s, ring
      <3>3. Len(q.ring) = L + 1 /\ q.ring[L + 1] = e /\ (\A k \in 1..L : q.ring[k] = ring[k]) /\ q.ring \in Seq(E)
        BY <1>2, <3>1, <3>2 DEF c, ring
      <3> HIDE DEF q, more
      <3>4. \A p \in 1..L + 1 : q.ring[p] = more[p]
        <4>1. \A p \in 1..L : ring[p] = seen[p]
          BY <1>2, <3>1
        <4>2. ASSUME NEW p \in 1..L + 1 PROVE p \in 1..L \/ p = L + 1
          BY <1>0
        <4> QED
          BY <2>1, <3>3, <4>1, <4>2
      <3> QED
        BY <1>0, <2>1, <3>1, <3>2, <3>3, <3>4 DEF RingOf, q, more
    <2>3. CASE ~(c < limit)
      <3>1. c = limit /\ L >= limit
        BY <1>0, <2>3
      <3> DEFINE t == (s + 1) % limit
      <3>2. q = [ring |-> [ring EXCEPT ![s + 1] = e], start |-> t]
        BY <2>3 DEF RingStep, c, s, ring
      <3>3. DOMAIN q = {"ring", "start"} /\ q.ring = [ring EXCEPT ![s + 1] = e] /\ q.start = t
        BY <3>2
      <3>4. t = IF s + 1 < limit THEN s + 1 ELSE 0
        <4>1. PICK y \in 0..2 * limit - 1 : y = s + 1
          BY <1>0
        <4>2. y % limit = IF y < limit THEN y ELSE y - limit
          BY ModFacts
        <4>3. t = y % limit
          BY <4>1
        <4> HIDE DEF t
        <4> QED
          BY <1>0, <4>1, <4>2, <4>3
      <3>5. /\ q.ring \in Seq(E) /\ Len(q.ring) = limit /\ q.ring[s + 1] = e
            /\ \A p \in 1..limit : p # s + 1 => q.ring[p] = ring[p]
        BY <1>0, <1>2, <3>1, <3>3 DEF c
      <3> HIDE DEF q, more, t
      <3>6. ASSUME NEW p \in 1..limit
            PROVE  q.ring[p] = more[(IF p > t THEN p - t ELSE p - t + limit) + (L + 1 - limit)]
        <4>1. CASE p = s + 1
          <5>1. (IF p > t THEN p - t ELSE p - t + limit) + (L + 1 - limit) = L + 1
            BY <1>0, <3>1, <3>4, <4>1
          <5> QED
            BY <2>1, <3>5, <4>1, <5>1
        <4>2. CASE p # s + 1
          <5> DEFINE k == (IF p > s THEN p - s ELSE p - s + limit) + (L - limit)
          <5>1. (IF p > t THEN p - t ELSE p - t + limit) + (L + 1 - limit) = k /\ k \in 1..L
            BY <1>0, <3>1, <3>4, <4>2
          <5>2. ring[p] = seen[k]
            BY <1>2, <3>1
          <5> HIDE DEF k
          <5> QED
            BY <2>1, <3>5, <4>2, <5>1, <5>2
        <4> QED
          BY <4>1, <4>2
      <3>7. t \in 0..limit - 1
        BY <1>0, <3>4
      <3>8. /\ Len(q.ring) = IF Len(more) < limit THEN Len(more) ELSE limit
            /\ q.start \in 0..limit - 1 /\ (Len(more) < limit => q.start = 0)
        BY <1>0, <2>1, <3>1, <3>3, <3>5, <3>7
      <3>9. ASSUME NEW p \in 1..Len(q.ring)
            PROVE  q.ring[p] = more[(IF p > q.start THEN p - q.start ELSE p - q.start + Len(q.ring))
                                    + (Len(more) - Len(q.ring))]
        <4>1. p \in 1..limit
          BY <3>5
        <4>2. q.ring[p] = more[(IF p > t THEN p - t ELSE p - t + limit) + (L + 1 - limit)]
          BY <3>6, <4>1
        <4>3. q.start = t /\ Len(q.ring) = limit /\ Len(more) = L + 1
          BY <2>1, <3>3, <3>5
        <4>4. (IF p > q.start THEN p - q.start ELSE p - q.start + Len(q.ring)) + (Len(more) - Len(q.ring))
                = (IF p > t THEN p - t ELSE p - t + limit) + (L + 1 - limit)
          BY <1>0, <3>7, <4>1, <4>3
        <4> QED
          BY <4>2, <4>4
      <3>10. RingOf(q, more, limit)
        BY <3>3, <3>8, <3>9 DEF RingOf
      <3> QED
        BY <3>5, <3>10 DEF q, more
    <2> QED
      BY <2>2, <2>3
  <1>4. DOMAIN NewestFirst(r) = 1..c
    BY DEF NewestFirst, c, ring
  <1>5. ASSUME NEW i \in 1..c
        PROVE  NewestFirst(r)[i] = seen[L + 1 - i]
    <2> DEFINE x == s + c - i
               m == x % c
               p == m + 1
    <2>1. c \in Nat \ {0} /\ s < c /\ x \in 0..2 * c - 1
      BY <1>0
    <2>2. m = IF x < c THEN x ELSE x - c
      BY <2>1, ModFacts
    <2>3. NewestFirst(r)[i] = ring[p]
      BY DEF NewestFirst, c, s, ring
    <2> HIDE DEF m
    <2>4. p \in 1..c /\ p = IF s < i THEN s + c - i + 1 ELSE s - i + 1
      BY <1>0, <2>1, <2>2
    <2> HIDE DEF p
    <2>5. (IF p > s THEN p - s ELSE p - s + c) + (L - c) = L + 1 - i
      BY <1>0, <2>1, <2>4
    <2>6. ring[p] = seen[(IF p > s THEN p - s ELSE p - s + c) + (L - c)]
      BY <1>2, <2>4
    <2> QED
      BY <2>3, <2>5, <2>6
  <1> QED
    BY <1>2, <1>3, <1>4, <1>5 DEF L
=============================================================================

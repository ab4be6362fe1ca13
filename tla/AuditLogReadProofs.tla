------------------------- MODULE AuditLogReadProofs -------------------------
(***************************************************************************)
(* Proofs about AuditLogRead, for any number of transactions, entries and  *)
(* queries: what a reader who takes page after page has been shown of a    *)
(* log that grows behind its back.  The argument is about places: ORDER BY *)
(* puts an entry behind those with a later stamp, whose number only grows, *)
(* and the offset is the number of rows shown.                             *)
(***************************************************************************)
EXTENDS AuditLogRead, SequenceTheorems, FiniteSetTheorems, TLAPS

\* Types; the log is finite and an id names one entry.
ReadTypes ==
  /\ clock \in 0..MaxClock
  /\ IsFiniteSet(log) /\ log \subseteq Entry /\ open \subseteq Entry
  /\ \A e, f \in log \cup open : e.id = f.id => e = f
  /\ \A e \in log \cup open : e.id \in begun
  /\ shown \in Seq({AuditLogModel(e) : e \in Entry})
  /\ pc \in {"idle", "page", "lookup", "done"}

\* The entries with a later stamp, and those with no earlier one.
Newer(S, e) == {f \in S : f.created > e.created}
AtLeast(S, e) == {f \in S : f.created >= e.created}

\* Where ORDER BY may put e, with ties in any order.
InItsPlace(S, e, i) == Cardinality(Newer(S, e)) < i /\ i <= Cardinality(AtLeast(S, e))

\* The reader is at its pages, or has just had the last.
Reading == pc \in {"page", "lookup"}

\* The call is the one asked for, but for the offset: what has been shown so far.
AsAsked ==
  /\ pc = "idle" => shown = <<>> /\ resp = Nil
  /\ Reading =>
       /\ asked \in Queries /\ query = [asked EXCEPT !.offset = query.offset]
       /\ query.offset \in Int \cup {Nil}
       /\ resp = "ok" => present \subseteq Matching(asked.filter)
  /\ pc = "page" =>
       /\ resp = Nil \/ resp = "ok"
       /\ resp = Nil => shown = <<>>
       /\ asked.offset \in {Nil, 0} => ResolvedOffset(query.offset) = Len(shown)

\* Reads from the first row on, and has been answered.
FromTheStart == Reading /\ asked.offset \in {Nil, 0} /\ resp = "ok"

\* What has not been shown yet is behind the offset.
NothingSkipped ==
  FromTheStart => \A e \in present :
    \/ Tied(e)
    \/ AuditLogModel(e) \in ToSet(shown)
    \/ pc = "page" /\ Cardinality(Newer(Matching(asked.filter), e)) >= Len(shown)

\* As long as nothing matching was added, row i of what was shown is an entry that may
\* stand in place i of the whole log.
Exact ==
  (FromTheStart /\ Matching(asked.filter) = present) =>
    /\ \A i \in DOMAIN shown :
         \E e \in present : shown[i] = AuditLogModel(e) /\ InItsPlace(present, e, i)
    /\ pc = "lookup" => Len(shown) = Cardinality(present)

RInv == ReadTypes /\ AsAsked /\ NothingSkipped /\ Exact

-----------------------------------------------------------------------------
\* Min, as the limits use it.
LEMMA MinOfTwo ==
  ASSUME NEW a \in Int, NEW b \in Int
  PROVE  Min({a, b}) = IF a <= b THEN a ELSE b
  BY DEF Min

\* Whatever limit is asked for, or none, a page has room for an entry: a zero would end
\* the reading at once.
LEMMA LimitPositive ==
  ASSUME NEW limit \in Int \cup {Nil}
  PROVE  StoreLimit(ResolvedLimit(limit)) \in Nat \ {0}
<1>1. PICK l \in Int : ResolvedLimit(limit) = l
  <2>1. (IF limit = Nil THEN DefaultListLimit ELSE limit) \in Int
    BY ReadAssumption
  <2> QED BY <2>1, MinOfTwo, ReadAssumption DEF ResolvedLimit
<1>2. StoreLimit(l) \in Nat \ {0}
  <2>1. (IF l <= 0 THEN DefaultListLimit ELSE l) \in Nat \ {0}
    BY ReadAssumption
  <2> QED BY <2>1, MinOfTwo, ReadAssumption DEF StoreLimit
<1> QED BY <1>1, <1>2

\* What an answer keeps of an entry.
LEMMA EntryStamp ==
  ASSUME NEW e \in Entry
  PROVE  /\ e.created \in Int
         /\ AuditLogModel(e).created = e.created \div TicksPerSecond
         /\ AuditLogModel(e).id = e.id
  BY ReadAssumption DEF Entry, NewEntry, AuditLogModel

\* A later stamp has no earlier second.
LEMMA DivMonotone ==
  ASSUME NEW a \in Int, NEW b \in Int, NEW n \in Nat \ {0}, a <= b
  PROVE  a \div n <= b \div n
  OBVIOUS

\* ORDER BY created_at DESC returns every row once, each behind the later ones.
LEMMA Places ==
  ASSUME NEW S, IsFiniteSet(S), S \subseteq Entry, NEW s \in NewestFirst(S)
  PROVE  /\ s \in Seq(S) /\ Len(s) = Cardinality(S)
         /\ \A i \in 1..Len(s) : s[i] \in S /\ InItsPlace(S, s[i], i)
         /\ \A e \in S : \E i \in 1..Len(s) : s[i] = e
<1> DEFINE n == Cardinality(S)
<1>1. n \in Nat
  BY FS_CardinalityType
<1>2. s \in [1..n -> S] /\ \A i, j \in 1..n : i # j => s[i] # s[j]
  BY DEF NewestFirst, SetToSeqs
<1>3. \A i, j \in 1..n : i < j => s[i].created >= s[j].created
  BY <1>2 DEF NewestFirst
<1>4. s \in Seq(S) /\ Len(s) = n
  BY <1>1, <1>2
<1>5. \A i, j \in 1..n : i <= j => s[i].created >= s[j].created
  BY <1>1, <1>2, <1>3, EntryStamp
<1>6. s \in Injection(1..n, S)
  BY <1>2 DEF Injection, IsInjective
<1>7. IsFiniteSet(1..n) /\ Cardinality(1..n) = n
  BY <1>1, FS_Interval
<1>8. s \in Surjection(1..n, S)
  BY <1>6, <1>7, FS_Injection
<1>9. \A e \in S : \E i \in 1..n : s[i] = e
  BY <1>8 DEF Surjection
<1>10. ASSUME NEW i \in 1..n
       PROVE  s[i] \in S /\ InItsPlace(S, s[i], i)
  <2> DEFINE before == Newer(S, s[i])  upTo == AtLeast(S, s[i])
  <2>1. s[i] \in S /\ s[i].created \in Int
    BY <1>2, EntryStamp
  <2>2. before \subseteq S /\ upTo \subseteq S
    BY DEF Newer, AtLeast
  <2>3. IsFiniteSet(before) /\ IsFiniteSet(upTo) /\ Cardinality(before) \in Nat
    BY <2>2, FS_Subset, FS_CardinalityType
  <2>4. Cardinality(before) <= i - 1
    <3> DEFINE place == [f \in before |-> CHOOSE k \in 1..n : s[k] = f]
    <3>1. ASSUME NEW f \in before
          PROVE  place[f] \in 1..(i - 1) /\ s[place[f]] = f
      <4>1. place[f] \in 1..n /\ s[place[f]] = f
        BY <1>9, <2>2
      <4>2. f.created > s[i].created
        BY DEF Newer
      <4>3. ~(i <= place[f])
        BY <4>1, <4>2, <1>5, <2>1, <2>2, EntryStamp
      <4> QED BY <4>1, <4>3, <1>1
    <3>2. place \in [before -> 1..(i - 1)]
      BY <3>1
    <3>3. place \in Injection(before, 1..(i - 1))
      BY <3>1, <3>2 DEF Injection, IsInjective
    <3>4. IsFiniteSet(1..(i - 1)) /\ Cardinality(1..(i - 1)) = i - 1
      <4> DEFINE j == i - 1
      <4>1. 1 \in Int /\ j \in Int /\ (1 > j => j = 0)
        BY <1>1
      <4> HIDE DEF j
      <4>2. IsFiniteSet(1..j) /\ Cardinality(1..j) = IF 1 > j THEN 0 ELSE j - 1 + 1
        BY <4>1, FS_Interval
      <4>3. IsFiniteSet(1..j) /\ Cardinality(1..j) = j
        BY <4>1, <4>2
      <4> QED BY <4>3 DEF j
    <3> QED BY <3>3, <3>4, FS_Injection
  <2>5. i <= Cardinality(upTo)
    <3> DEFINE rows == [j \in 1..i |-> s[j]]
    <3>1. ASSUME NEW j \in 1..i
          PROVE  s[j] \in upTo
      BY <1>1, <1>2, <1>5 DEF AtLeast
    <3>2. rows \in Injection(1..i, upTo)
      BY <1>1, <1>2, <3>1 DEF Injection, IsInjective
    <3>3. IsFiniteSet(1..i) /\ Cardinality(1..i) = i
      <4>1. 1 \in Int /\ i \in Int /\ ~(1 > i)
        BY <1>1
      <4> QED BY <4>1, FS_Interval
    <3> QED BY <3>2, <3>3, <2>3, FS_Injection
  <2> QED BY <1>1, <2>1, <2>3, <2>4, <2>5 DEF InItsPlace
<1> QED BY <1>4, <1>9, <1>10

\* LIMIT and OFFSET.
Page(s, offset, limit) == SubSeq(s, offset + 1, Min({offset + limit, Len(s)}))

\* A page holds the rows behind the offset, up to its limit; only behind the last row is it
\* empty.
LEMMA Pages ==
  ASSUME NEW S, NEW s \in Seq(S), NEW offset \in Nat, NEW limit \in Nat \ {0}
  PROVE  LET page == Page(s, offset, limit) IN
         /\ page \in Seq(S)
         /\ \A i \in 1..Len(page) : offset + i \in 1..Len(s) /\ page[i] = s[offset + i]
         /\ \A i \in 1..Len(s) : i > offset =>
              i <= offset + Len(page) \/ (Len(page) = limit /\ i > offset + limit)
         /\ page = <<>> <=> Len(page) = 0
<1> DEFINE page == Page(s, offset, limit)
<1> DEFINE last == Min({offset + limit, Len(s)})
<1>1. Len(s) \in Nat /\ last = (IF offset + limit <= Len(s) THEN offset + limit ELSE Len(s))
  BY MinOfTwo
<1>2. last \in Nat /\ last <= Len(s) /\ last <= offset + limit
  BY <1>1
<1>3. \A i \in (offset + 1)..last : s[i] \in S
  BY <1>2
<1> HIDE DEF last
<1>4. /\ SubSeq(s, offset + 1, last) \in Seq(S)
      /\ Len(SubSeq(s, offset + 1, last)) =
           IF offset + 1 <= last THEN last - (offset + 1) + 1 ELSE 0
      /\ \A i \in 1..(last - (offset + 1) + 1) :
           SubSeq(s, offset + 1, last)[i] = s[offset + 1 + i - 1]
  BY <1>2, <1>3, SubSeqProperties
<1>5. page = SubSeq(s, offset + 1, last)
  BY DEF last, Page
<1> HIDE DEF page
<1>6. page \in Seq(S) /\ Len(page) = IF offset + 1 <= last THEN last - offset ELSE 0
  <2>1. page \in Seq(S)
    BY <1>4, <1>5
  <2>2. Len(page) = IF offset + 1 <= last THEN last - (offset + 1) + 1 ELSE 0
    BY <1>4, <1>5
  <2>3. last - (offset + 1) + 1 = last - offset
    BY <1>2
  <2> QED BY <2>1, <2>2, <2>3
<1>7. \A i \in 1..Len(page) : offset + i \in 1..Len(s) /\ page[i] = s[offset + i]
  <2> TAKE i \in 1..Len(page)
  <2>1. i \in 1..(last - (offset + 1) + 1) /\ offset + i \in 1..Len(s)
    BY <1>1, <1>2, <1>6
  <2>2. page[i] = s[offset + 1 + i - 1]
    BY <1>4, <1>5, <2>1
  <2>3. offset + 1 + i - 1 = offset + i
    BY <2>1
  <2> QED BY <2>1, <2>2, <2>3
<1>8. page = <<>> <=> Len(page) = 0
  BY <1>6, EmptySeq
<1>9. \A i \in 1..Len(s) : i > offset =>
              i <= offset + Len(page) \/ (Len(page) = limit /\ i > offset + limit)
  BY <1>1, <1>2, <1>6
<1> QED BY <1>6, <1>7, <1>8, <1>9 DEF page

-----------------------------------------------------------------------------
\* The counts of the invariant are numbers; a larger log has no fewer later entries.
LEMMA FiniteParts ==
  ASSUME NEW S, IsFiniteSet(S), NEW T, T \subseteq S, NEW e
  PROVE  /\ IsFiniteSet(T) /\ Cardinality(T) \in Nat
         /\ IsFiniteSet(Newer(T, e)) /\ Cardinality(Newer(T, e)) \in Nat
         /\ IsFiniteSet(AtLeast(T, e)) /\ Cardinality(AtLeast(T, e)) \in Nat
         /\ Cardinality(AtLeast(T, e)) <= Cardinality(T)
         /\ Cardinality(Newer(T, e)) <= Cardinality(Newer(S, e))
<1>1. Newer(T, e) \subseteq T /\ AtLeast(T, e) \subseteq T /\ Newer(T, e) \subseteq Newer(S, e)
      /\ Newer(S, e) \subseteq S
  BY DEF Newer, AtLeast
<1>2. IsFiniteSet(T) /\ IsFiniteSet(Newer(S, e))
  BY <1>1, FS_Subset
<1>3. IsFiniteSet(Newer(T, e)) /\ IsFiniteSet(AtLeast(T, e))
      /\ Cardinality(AtLeast(T, e)) <= Cardinality(T)
      /\ Cardinality(Newer(T, e)) <= Cardinality(Newer(S, e))
  BY <1>1, <1>2, FS_Subset
<1> QED BY <1>2, <1>3, FS_CardinalityType

\* Rows that appear behind the reader's back.
LEMMA LogGrows ==
  ASSUME RInv, log \subseteq log', IsFiniteSet(log'), UNCHANGED reader
  PROVE  AsAsked' /\ NothingSkipped' /\ Exact'
<1> DEFINE M == Matching(asked.filter)  N == Matching(asked.filter)'
<1>1. /\ pc' = pc /\ query' = query /\ asked' = asked /\ shown' = shown
      /\ resp' = resp /\ present' = present
  BY DEF reader
<1>2. M \subseteq N /\ N \subseteq log'
  BY <1>1 DEF Matching
<1>3. IsFiniteSet(N)
  BY <1>2, FS_Subset
<1>4. FromTheStart' <=> FromTheStart
  BY <1>1 DEF FromTheStart, Reading
<1>5. ASSUME FromTheStart
      PROVE  present \subseteq M
  BY <1>5 DEF RInv, AsAsked, FromTheStart
<1>6. AsAsked'
  <2>1. Reading' <=> Reading
    BY <1>1 DEF Reading
  <2>2. ASSUME Reading, resp = "ok"
        PROVE  present' \subseteq Matching(asked.filter)'
    BY <1>1, <1>2, <2>2 DEF RInv, AsAsked
  <2>3. (Reading => /\ asked \in Queries /\ query = [asked EXCEPT !.offset = query.offset]
                    /\ query.offset \in Int \cup {Nil})'
    BY <1>1, <2>1 DEF RInv, AsAsked
  <2>4. /\ pc' = "idle" => shown' = <<>> /\ resp' = Nil
        /\ pc' = "page" => /\ resp' = Nil \/ resp' = "ok"
                           /\ resp' = Nil => shown' = <<>>
                           /\ asked'.offset \in {Nil, 0} =>
                                ResolvedOffset(query.offset)' = Len(shown')
    BY <1>1 DEF RInv, AsAsked, ResolvedOffset
  <2> HIDE DEF M, N
  <2> QED BY <1>1, <2>1, <2>2, <2>3, <2>4 DEF AsAsked
<1>7. NothingSkipped'
  <2> SUFFICES ASSUME FromTheStart', NEW e \in present'
               PROVE  \/ Tied(e)'
                      \/ AuditLogModel(e) \in ToSet(shown')
                      \/ pc' = "page" /\ Cardinality(Newer(N, e)) >= Len(shown')
    BY DEF NothingSkipped
  <2>1. FromTheStart /\ e \in present
    BY <1>1, <1>4
  <2>2. \/ Tied(e)
        \/ AuditLogModel(e) \in ToSet(shown)
        \/ pc = "page" /\ Cardinality(Newer(M, e)) >= Len(shown)
    BY <2>1 DEF RInv, NothingSkipped
  <2>3. CASE Tied(e)
    BY <1>1, <1>2, <2>3 DEF Tied
  <2>4. CASE AuditLogModel(e) \in ToSet(shown)
    BY <1>1, <2>4
  <2>5. CASE pc = "page" /\ Cardinality(Newer(M, e)) >= Len(shown)
    <3>1. Cardinality(Newer(M, e)) <= Cardinality(Newer(N, e))
      <4> HIDE DEF M, N
      <4> QED BY <1>2, <1>3, FiniteParts
    <3>2. Cardinality(Newer(M, e)) \in Nat /\ Cardinality(Newer(N, e)) \in Nat
      <4> HIDE DEF M, N
      <4> QED BY <1>2, <1>3, FiniteParts
    <3>3. Len(shown) \in Nat
      BY DEF RInv, ReadTypes
    <3> HIDE DEF M, N
    <3> QED BY <1>1, <2>5, <3>1, <3>2, <3>3
  <2> QED BY <2>2, <2>3, <2>4, <2>5
<1>8. Exact'
  <2> SUFFICES ASSUME FromTheStart', N = present'
               PROVE  /\ \A i \in DOMAIN shown : \E e \in present :
                           shown[i] = AuditLogModel(e) /\ InItsPlace(present, e, i)
                      /\ pc = "lookup" => Len(shown) = Cardinality(present)
    BY <1>1 DEF Exact
  <2>1. M = present
    BY <1>1, <1>2, <1>4, <1>5
  <2> QED BY <1>4, <2>1 DEF RInv, Exact
<1> QED BY <1>6, <1>7, <1>8

\* The invariant holds before anything was written or read.
LEMMA InitHolds == Init => RInv
<1> SUFFICES ASSUME Init
             PROVE  RInv
  OBVIOUS
<1>1. ReadTypes
  <2>1. 0 \in 0..MaxClock
    BY ReadAssumption
  <2>2. IsFiniteSet({})
    BY FS_EmptySet
  <2> QED BY <2>1, <2>2 DEF Init, ReadTypes
<1>2. AsAsked /\ ~FromTheStart
  BY DEF Init, AsAsked, Reading, FromTheStart
<1> QED BY <1>1, <1>2 DEF RInv, NothingSkipped, Exact

\* A new entry has the id of a transaction that had not begun.
LEMMA KeepsBegin ==
  ASSUME RInv, NEW w \in Writers, Begin(w)
  PROVE  RInv'
<1> USE DEF Begin
<1>1. PICK c \in Content : open' = open \cup {NewEntry(c, w, clock)}
  OBVIOUS
<1> DEFINE n == NewEntry(c, w, clock)
<1>2. n \in Entry /\ n.id = w
  BY DEF RInv, ReadTypes, Entry, NewEntry
<1> HIDE DEF n
<1>3. open' = open \cup {n} /\ log' = log /\ clock' = clock
  BY <1>1 DEF n
<1>4. pc' = pc /\ shown' = shown
  BY DEF reader
<1>5. \A e, f \in (log \cup open)' : e.id = f.id => e = f
  <2>1. \A e \in log \cup open : e.id # w
    BY DEF RInv, ReadTypes
  <2> QED BY <1>2, <1>3, <2>1 DEF RInv, ReadTypes
<1>6. \A e \in (log \cup open)' : e.id \in begun'
  BY <1>2, <1>3 DEF RInv, ReadTypes
<1>7. ReadTypes'
  BY <1>2, <1>3, <1>4, <1>5, <1>6 DEF RInv, ReadTypes
<1>8. AsAsked' /\ NothingSkipped' /\ Exact'
  BY LogGrows DEF RInv, ReadTypes
<1> QED BY <1>7, <1>8 DEF RInv

\* A commit adds an entry anywhere in the order.
LEMMA KeepsCreate ==
  ASSUME RInv, NEW e \in open, Create(e)
  PROVE  RInv'
<1> USE DEF Create
<1>1. log' = log \cup {e} /\ open' = open \ {e} /\ clock' = clock /\ begun' = begun
  OBVIOUS
<1>2. pc' = pc /\ shown' = shown
  BY DEF reader
<1>3. IsFiniteSet(log')
  BY <1>1, FS_AddElement DEF RInv, ReadTypes
<1>4. ReadTypes'
  BY <1>1, <1>2, <1>3 DEF RInv, ReadTypes
<1>5. AsAsked' /\ NothingSkipped' /\ Exact'
  BY <1>1, <1>3, LogGrows
<1> QED BY <1>4, <1>5 DEF RInv

\* A step that leaves the reader and the log alone.
LEMMA KeepsLog ==
  ASSUME RInv, UNCHANGED <<log, begun, reader>>, open' \subseteq open, clock' \in 0..MaxClock
  PROVE  RInv'
<1>1. pc' = pc /\ shown' = shown /\ log' = log /\ begun' = begun
  BY DEF reader
<1>2. ReadTypes'
  BY <1>1 DEF RInv, ReadTypes
<1>3. AsAsked' /\ NothingSkipped' /\ Exact'
  BY <1>1, LogGrows DEF RInv, ReadTypes
<1> QED BY <1>2, <1>3 DEF RInv

\* The first page starts at the offset asked for.
LEMMA KeepsAsk ==
  ASSUME RInv, Ask
  PROVE  RInv'
<1>1. PICK q \in Queries : asked' = q /\ query' = q
  BY DEF Ask
<1>2. /\ pc = "idle" /\ pc' = "page" /\ shown' = shown /\ resp' = resp
      /\ log' = log /\ open' = open /\ clock' = clock /\ begun' = begun
  BY DEF Ask, tables
<1>3. shown = <<>> /\ resp = Nil
  BY <1>2 DEF RInv, AsAsked
<1>4. ReadTypes'
  BY <1>2 DEF RInv, ReadTypes
<1>5. ~FromTheStart' /\ resp' # "ok"
  BY <1>2, <1>3, QueriesAssumption DEF FromTheStart
<1>6. q = [q EXCEPT !.offset = q.offset] /\ q.offset \in Int \cup {Nil}
  BY QueriesAssumption
<1>7. asked'.offset \in {Nil, 0} => ResolvedOffset(query'.offset) = Len(shown')
  BY <1>1, <1>2, <1>3 DEF ResolvedOffset
<1>8. AsAsked'
  BY <1>1, <1>2, <1>3, <1>5, <1>6, <1>7 DEF AsAsked
<1> QED BY <1>4, <1>5, <1>8 DEF RInv, NothingSkipped, Exact

\* A refused call ends the reading.
LEMMA KeepsError ==
  ASSUME RInv, AuditLogsError
  PROVE  RInv'
<1>1. /\ pc = "page" /\ pc' = "lookup" /\ shown' = shown /\ resp' # "ok"
      /\ asked' = asked /\ query' = query
      /\ log' = log /\ open' = open /\ clock' = clock /\ begun' = begun
  BY DEF AuditLogsError, tables
<1>2. ReadTypes'
  BY <1>1 DEF RInv, ReadTypes
<1>3. ~FromTheStart'
  BY <1>1 DEF FromTheStart
<1>4. AsAsked'
  BY <1>1 DEF RInv, AsAsked, Reading
<1> QED BY <1>2, <1>3, <1>4 DEF RInv, NothingSkipped, Exact

\* auditLog reads one row after the pages.
LEMMA KeepsLookup ==
  ASSUME RInv, NEW id, AuditLog(id)
  PROVE  RInv'
<1>1. /\ pc' = "done" /\ shown' = shown
      /\ log' = log /\ open' = open /\ clock' = clock /\ begun' = begun
  BY DEF AuditLog, tables
<1>2. ReadTypes'
  BY <1>1 DEF RInv, ReadTypes
<1>3. ~Reading'
  BY <1>1 DEF Reading
<1>4. AsAsked' /\ ~FromTheStart'
  BY <1>1, <1>3 DEF AsAsked, FromTheStart
<1> QED BY <1>2, <1>4 DEF RInv, NothingSkipped, Exact

\* One page: an entry that was behind the old offset is on it or behind the new one, because
\* an entry with a stamp of its own has one place only; an empty page has nothing behind it.
LEMMA KeepsPage ==
  ASSUME RInv, AuditLogs
  PROVE  RInv'
<1> DEFINE F == asked.filter  M == Matching(F)
           offset == ResolvedOffset(query.offset)  limit == StoreLimit(ResolvedLimit(query.limit))
           Model == {AuditLogModel(e) : e \in Entry}
<1>1. PICK page \in List(query.filter, ResolvedLimit(query.limit), offset) :
        /\ shown' = shown \o [i \in DOMAIN page |-> AuditLogModel(page[i])]
        /\ query' = [query EXCEPT !.offset = ResolvedOffset(@) + Len(page)]
        /\ pc' = IF page = <<>> THEN "lookup" ELSE "page"
  BY DEF AuditLogs
<1>2. /\ pc = "page" /\ ~Refused /\ resp' = "ok" /\ asked' = asked
      /\ present' = IF resp = Nil THEN Matching(query.filter) ELSE present
      /\ log' = log /\ open' = open /\ clock' = clock /\ begun' = begun
  BY DEF AuditLogs, tables
<1>3. /\ asked \in Queries /\ query = [asked EXCEPT !.offset = query.offset]
      /\ query.offset \in Int \cup {Nil}
      /\ resp = "ok" => present \subseteq M
      /\ resp = Nil \/ resp = "ok"
      /\ resp = Nil => shown = <<>>
      /\ asked.offset \in {Nil, 0} => offset = Len(shown)
  BY <1>2 DEF RInv, AsAsked, Reading
<1>4. query.filter = F /\ query.limit = asked.limit /\ query.limit \in Int \cup {Nil}
  <2>1. asked = [role |-> asked.role, filter |-> asked.filter,
                 limit |-> asked.limit, offset |-> asked.offset]
    BY <1>3, QueriesAssumption
  <2>2. query.filter = F /\ query.limit = asked.limit
    BY <1>3, <2>1
  <2> QED BY <1>3, <2>2, QueriesAssumption
<1>5. offset \in Nat
  BY <1>2, <1>3 DEF Refused, ResolvedOffset
<1>6. limit \in Nat \ {0}
  BY <1>4, LimitPositive
<1>7. IsFiniteSet(M) /\ M \subseteq log /\ M \subseteq Entry
  BY FS_Subset DEF RInv, ReadTypes, Matching
<1>8. PICK s \in NewestFirst(M) :
        page = Page(s, offset, limit)
  BY <1>1, <1>4 DEF List, Page
<1>9. M' = M
  BY <1>2 DEF Matching, Matches
<1>10. present' = IF resp = Nil THEN M ELSE present
  BY <1>2, <1>4
<1>11. present' \subseteq M /\ (resp = Nil => present' = M)
  BY <1>3, <1>10
<1>12. shown \in Seq(Model) /\ Len(shown) \in Nat
  BY DEF RInv, ReadTypes
<1> HIDE DEF offset, limit, M, Model
<1>13. /\ s \in Seq(M) /\ Len(s) = Cardinality(M) /\ Len(s) \in Nat
       /\ \A i \in 1..Len(s) : s[i] \in M /\ InItsPlace(M, s[i], i)
       /\ \A e \in M : \E i \in 1..Len(s) : s[i] = e
  BY <1>7, Places
<1>14. /\ page \in Seq(M) /\ Len(page) \in Nat
       /\ \A i \in 1..Len(page) : offset + i \in 1..Len(s) /\ page[i] = s[offset + i]
       /\ \A i \in 1..Len(s) : i > offset =>
            i <= offset + Len(page) \/ (Len(page) = limit /\ i > offset + limit)
       /\ page = <<>> <=> Len(page) = 0
  <2>1. s \in Seq(M)
    BY <1>13
  <2>2. /\ page \in Seq(M)
        /\ \A i \in 1..Len(page) : offset + i \in 1..Len(s) /\ page[i] = s[offset + i]
        /\ \A i \in 1..Len(s) : i > offset =>
             i <= offset + Len(page) \/ (Len(page) = limit /\ i > offset + limit)
        /\ page = <<>> <=> Len(page) = 0
    <3>1. Page(s, offset, limit) \in Seq(M)
      BY <1>5, <1>6, <2>1, Pages
    <3>2. \A i \in 1..Len(Page(s, offset, limit)) :
            offset + i \in 1..Len(s) /\ Page(s, offset, limit)[i] = s[offset + i]
      BY <1>5, <1>6, <2>1, Pages
    <3>3. \A i \in 1..Len(s) : i > offset =>
             \/ i <= offset + Len(Page(s, offset, limit))
             \/ Len(Page(s, offset, limit)) = limit /\ i > offset + limit
      BY <1>5, <1>6, <2>1, Pages
    <3>4. Page(s, offset, limit) = <<>> <=> Len(Page(s, offset, limit)) = 0
      BY <1>5, <1>6, <2>1, Pages
    <3> QED BY <1>8, <3>1, <3>2, <3>3, <3>4
  <2>3. Len(page) \in Nat
    BY <2>2
  <2> QED BY <2>2, <2>3
<1> DEFINE new == [i \in DOMAIN page |-> AuditLogModel(page[i])]
<1>15. new \in Seq(Model) /\ Len(new) = Len(page)
       /\ \A i \in 1..Len(page) : new[i] = AuditLogModel(page[i])
  <2>1. DOMAIN page = 1..Len(page) /\ \A i \in 1..Len(page) : page[i] \in M
    BY <1>14
  <2>2. \A i \in 1..Len(page) : AuditLogModel(page[i]) \in Model
    BY <1>7, <2>1 DEF Model
  <2>3. new \in [1..Len(page) -> Model]
    BY <2>1, <2>2
  <2> HIDE DEF Model
  <2> QED BY <1>14, <2>1, <2>3
<1>16. shown' = shown \o new
  BY <1>1
<1> HIDE DEF new
<1>17. /\ shown' \in Seq(Model) /\ Len(shown') = Len(shown) + Len(page)
       /\ \A i \in 1..Len(shown) : shown'[i] = shown[i]
       /\ \A i \in 1..Len(page) : shown'[Len(shown) + i] = AuditLogModel(page[i])
  <2>1. /\ shown' \in Seq(Model) /\ Len(shown') = Len(shown) + Len(new)
        /\ \A i \in 1..(Len(shown) + Len(new)) :
             shown'[i] = IF i <= Len(shown) THEN shown[i] ELSE new[i - Len(shown)]
    <3>1. shown \in Seq(Model) /\ new \in Seq(Model)
      BY <1>12, <1>15
    <3>2. /\ shown \o new \in Seq(Model) /\ Len(shown \o new) = Len(shown) + Len(new)
          /\ \A i \in 1..(Len(shown) + Len(new)) :
               (shown \o new)[i] = IF i <= Len(shown) THEN shown[i] ELSE new[i - Len(shown)]
      BY <3>1, ConcatProperties
    <3> QED BY <1>16, <3>2
  <2>2. \A i \in 1..Len(shown) : shown'[i] = shown[i]
    BY <1>12, <1>14, <1>15, <2>1
  <2>3. ASSUME NEW i \in 1..Len(page)
        PROVE  shown'[Len(shown) + i] = AuditLogModel(page[i])
    <3> DEFINE k == Len(shown) + i
    <3>1. k \in 1..(Len(shown) + Len(new)) /\ ~(k <= Len(shown)) /\ k - Len(shown) = i
      BY <1>12, <1>14, <1>15
    <3> HIDE DEF k
    <3>2. shown'[k] = new[i]
      BY <2>1, <3>1
    <3> QED BY <1>15, <3>2 DEF k
  <2> QED BY <1>15, <2>1, <2>2, <2>3
<1>18. DOMAIN shown = 1..Len(shown) /\ DOMAIN shown' = 1..Len(shown')
  BY <1>12, <1>17
<1>19. query' = [asked' EXCEPT !.offset = query'.offset] /\ query'.offset = offset + Len(page)
  <2>1. asked = [role |-> asked.role, filter |-> asked.filter,
                 limit |-> asked.limit, offset |-> asked.offset]
    BY <1>3, QueriesAssumption
  <2> QED BY <1>1, <1>2, <1>3, <2>1 DEF offset
<1>20. ReadTypes'
  <2>1. pc' \in {"idle", "page", "lookup", "done"}
    BY <1>1
  <2>2. shown' \in Seq({AuditLogModel(e) : e \in Entry})
    BY <1>17 DEF Model
  <2> QED BY <1>2, <2>1, <2>2 DEF RInv, ReadTypes
<1>21. AsAsked'
  <2>1. query'.offset \in Nat /\ ResolvedOffset(query'.offset) = offset + Len(page)
    BY <1>5, <1>14, <1>19, QueriesAssumption DEF ResolvedOffset
  <2>2. asked'.offset \in {Nil, 0} => ResolvedOffset(query'.offset) = Len(shown')
    BY <1>2, <1>3, <1>17, <2>1
  <2>3. present' \subseteq Matching(asked.filter)'
    BY <1>9, <1>11 DEF M
  <2>4. pc' # "idle" /\ resp' = "ok" /\ asked' \in Queries /\ query'.offset \in Int
    BY <1>1, <1>2, <1>3, <2>1
  <2> QED BY <1>19, <2>2, <2>3, <2>4, QueriesAssumption DEF AsAsked
<1>22. ASSUME FromTheStart'
       PROVE  offset = Len(shown) /\ (resp = "ok" => FromTheStart)
  BY <1>2, <1>3, <1>22 DEF FromTheStart, Reading
<1>23. NothingSkipped'
  <2> SUFFICES ASSUME FromTheStart', NEW e \in present'
               PROVE  \/ Tied(e)'
                      \/ AuditLogModel(e) \in ToSet(shown')
                      \/ pc' = "page" /\ Cardinality(Newer(M, e)) >= Len(shown')
    BY <1>9 DEF NothingSkipped, M
  <2>1. e \in M /\ offset = Len(shown)
    BY <1>11, <1>22
  <2>2. /\ Cardinality(Newer(M, e)) \in Nat
        /\ IsFiniteSet(Newer(M, e))
    BY <1>7, FiniteParts
  <2>3. \/ Tied(e)
        \/ AuditLogModel(e) \in ToSet(shown)
        \/ Cardinality(Newer(M, e)) >= Len(shown)
    <3>1. CASE resp = Nil
      BY <1>3, <2>2, <3>1
    <3>2. CASE resp = "ok"
      <4>1. present' = present /\ FromTheStart
        BY <1>10, <1>22, <3>2, QueriesAssumption
      <4> QED BY <4>1 DEF RInv, NothingSkipped, M
    <3> QED BY <1>3, <3>1, <3>2
  <2>4. CASE Tied(e)
    BY <1>2, <1>9, <2>4 DEF Tied, M
  <2>5. CASE AuditLogModel(e) \in ToSet(shown)
    <3>1. PICK i \in 1..Len(shown) : shown[i] = AuditLogModel(e)
      BY <1>18, <2>5 DEF ToSet
    <3>2. i \in DOMAIN shown' /\ shown'[i] = AuditLogModel(e)
      BY <1>12, <1>14, <1>17, <1>18, <3>1
    <3> QED BY <3>2 DEF ToSet
  <2>6. CASE ~Tied(e) /\ Cardinality(Newer(M, e)) >= Len(shown)
    <3>1. PICK i \in 1..Len(s) : s[i] = e
      BY <1>13, <2>1
    <3>2. Cardinality(Newer(M, e)) < i /\ i <= Cardinality(AtLeast(M, e))
      BY <1>13, <3>1 DEF InItsPlace
    <3>3. i > offset
      BY <1>5, <1>13, <2>1, <2>2, <2>6, <3>2
    <3>4. CASE i <= offset + Len(page)
      <4> DEFINE k == i - offset
      <4>1. k \in 1..Len(page) /\ offset + k = i
        BY <1>5, <1>13, <1>14, <3>3, <3>4
      <4> HIDE DEF k
      <4>2. page[k] = e
        BY <1>14, <3>1, <4>1
      <4>3. shown'[Len(shown) + k] = AuditLogModel(e) /\ Len(shown) + k \in DOMAIN shown'
        BY <1>12, <1>14, <1>17, <1>18, <4>1, <4>2
      <4> QED BY <4>3 DEF ToSet
    <3>5. CASE Len(page) = limit /\ i > offset + limit
      <4>1. pc' = "page"
        BY <1>1, <1>6, <1>14, <3>5
      <4>2. Cardinality(AtLeast(M, e)) <= Cardinality(Newer(M, e)) + 1
        <5>1. AtLeast(M, e) = Newer(M, e) \cup {e}
          <6>1. ASSUME NEW f \in AtLeast(M, e)
                PROVE  f \in Newer(M, e) \/ f = e
            <7>1. f \in M /\ f.created >= e.created /\ f.created \in Int /\ e.created \in Int
              BY <1>7, <2>1, EntryStamp DEF AtLeast
            <7>2. f.created = e.created => f = e
              BY <2>6, <7>1 DEF Tied, M
            <7> QED BY <7>1, <7>2 DEF Newer
          <6>2. ASSUME NEW f \in Newer(M, e) \cup {e}
                PROVE  f \in AtLeast(M, e)
            <7>1. f \in M /\ f.created \in Int /\ e.created \in Int
              BY <1>7, <2>1, EntryStamp DEF Newer
            <7> QED BY <2>1, <7>1 DEF Newer, AtLeast
          <6> QED BY <6>1, <6>2
        <5>2. Cardinality(Newer(M, e) \cup {e}) =
                IF e \in Newer(M, e) THEN Cardinality(Newer(M, e)) ELSE Cardinality(Newer(M, e)) + 1
          BY <2>2, FS_AddElement
        <5> QED BY <2>2, <5>1, <5>2
      <4>3. Cardinality(AtLeast(M, e)) \in Nat
        BY <1>7, FiniteParts
      <4>4. Len(shown') = offset + limit
        BY <1>17, <2>1, <3>5
      <4>5. Cardinality(Newer(M, e)) >= Len(shown')
        BY <1>5, <1>6, <1>13, <2>2, <3>2, <3>5, <4>2, <4>3, <4>4
      <4> QED BY <4>1, <4>5
    <3> QED BY <1>14, <3>3, <3>4, <3>5
  <2> QED BY <2>3, <2>4, <2>5, <2>6
<1>24. Exact'
  <2> SUFFICES ASSUME FromTheStart', M = present'
               PROVE  /\ \A i \in DOMAIN shown' : \E e \in present' :
                           shown'[i] = AuditLogModel(e) /\ InItsPlace(present', e, i)
                      /\ pc' = "lookup" => Len(shown') = Cardinality(present')
    BY <1>9 DEF Exact, M
  <2>1. offset = Len(shown)
    BY <1>22
  <2>2. ASSUME NEW i \in 1..Len(shown)
        PROVE  \E e \in M : shown[i] = AuditLogModel(e) /\ InItsPlace(M, e, i)
    <3>1. CASE resp = Nil
      BY <1>3, <3>1
    <3>2. CASE resp = "ok"
      <4>1. present' = present /\ FromTheStart
        BY <1>10, <1>22, <3>2, QueriesAssumption
      <4>2. Matching(asked.filter) = present
        BY <4>1 DEF M
      <4> QED BY <1>18, <4>1, <4>2 DEF RInv, Exact
    <3> QED BY <1>3, <3>1, <3>2
  <2>3. ASSUME NEW i \in 1..Len(page)
        PROVE  \E e \in M : shown'[offset + i] = AuditLogModel(e) /\ InItsPlace(M, e, offset + i)
    <3>1. offset + i \in 1..Len(s) /\ page[i] = s[offset + i]
      BY <1>14
    <3>2. s[offset + i] \in M /\ InItsPlace(M, s[offset + i], offset + i)
      BY <1>13, <3>1
    <3> QED BY <1>17, <2>1, <3>1, <3>2
  <2>4. ASSUME NEW i \in DOMAIN shown'
        PROVE  \E e \in M : shown'[i] = AuditLogModel(e) /\ InItsPlace(M, e, i)
    <3>1. i \in 1..(Len(shown) + Len(page))
      BY <1>17, <1>18
    <3>2. CASE i <= Len(shown)
      <4>1. i \in 1..Len(shown)
        BY <1>12, <3>1, <3>2
      <4> QED BY <1>17, <2>2, <4>1
    <3>3. CASE i > Len(shown)
      <4> DEFINE k == i - offset
      <4>1. k \in 1..Len(page) /\ i = offset + k
        BY <1>12, <1>14, <2>1, <3>1, <3>3
      <4> HIDE DEF k
      <4> QED BY <2>3, <4>1
    <3> QED BY <1>12, <3>1, <3>2, <3>3
  <2>5. ASSUME pc' = "lookup"
        PROVE  Len(shown') = Cardinality(M)
    <3>1. Len(page) = 0
      BY <1>1, <1>14, <2>5
    <3>2. Len(s) <= offset
      <4>1. ~(Len(s) > offset)
        <5>1. ASSUME Len(s) > offset
              PROVE  FALSE
          <6>1. Len(s) \in 1..Len(s)
            BY <1>5, <1>13, <5>1
          <6> QED BY <1>5, <1>6, <1>13, <1>14, <3>1, <5>1, <6>1
        <5> QED BY <5>1
      <4> QED BY <1>5, <1>13, <4>1
    <3>3. Len(shown) <= Cardinality(M)
      <4>1. CASE Len(shown) = 0
        BY <1>13, <4>1
      <4>2. CASE Len(shown) > 0
        <5>1. Len(shown) \in 1..Len(shown)
          BY <1>12, <4>2
        <5>2. PICK e \in M : InItsPlace(M, e, Len(shown))
          BY <2>2, <5>1
        <5>3. Cardinality(AtLeast(M, e)) <= Cardinality(M) /\ Cardinality(AtLeast(M, e)) \in Nat
          BY <1>7, FiniteParts
        <5> QED BY <1>12, <1>13, <5>2, <5>3 DEF InItsPlace
      <4> QED BY <1>12, <4>1, <4>2
    <3> QED BY <1>12, <1>13, <1>17, <2>1, <3>1, <3>2, <3>3
  <2> QED BY <2>4, <2>5
<1> QED BY <1>20, <1>21, <1>23, <1>24 DEF RInv

\* Every step preserves the invariant.
LEMMA NextKeeps == RInv /\ [Next]_vars => RInv'
<1> SUFFICES ASSUME RInv, [Next]_vars
             PROVE  RInv'
  OBVIOUS
<1>1. ASSUME NEW w \in Writers, Begin(w)
      PROVE  RInv'
  BY <1>1, KeepsBegin
<1>2. ASSUME NEW e \in open, Create(e)
      PROVE  RInv'
  BY <1>2, KeepsCreate
<1>3. ASSUME NEW e \in open, Rollback(e)
      PROVE  RInv'
  BY <1>3, KeepsLog DEF Rollback, RInv, ReadTypes
<1>4. CASE Tick
  BY <1>4, KeepsLog, ReadAssumption DEF Tick, RInv, ReadTypes
<1>5. CASE Ask
  BY <1>5, KeepsAsk
<1>6. CASE AuditLogsError
  BY <1>6, KeepsError
<1>7. CASE AuditLogs
  BY <1>7, KeepsPage
<1>8. ASSUME NEW id \in Writers \cup {Malformed}, AuditLog(id)
      PROVE  RInv'
  BY <1>8, KeepsLookup
<1>9. CASE UNCHANGED vars
  BY <1>9, KeepsLog DEF vars, tables, RInv, ReadTypes
<1> QED
  BY <1>1, <1>2, <1>3, <1>4, <1>5, <1>6, <1>7, <1>8, <1>9 DEF Next, AllDone

\* The invariant holds of every behaviour.
THEOREM ReadInvariance == Spec => []RInv
<1> QED BY InitHolds, NextKeeps, PTL DEF Spec

\* However many entries are committed between two pages of a read from the first row on,
\* by any number of transactions, and whatever limit the pages have, List and auditLogs
\* show every entry that was there at the first page and shares its stamp with no other.
THEOREM NothingIsSkipped == Spec => []NoEntrySkipped
<1>1. RInv => NoEntrySkipped
  BY DEF RInv, NothingSkipped, FromTheStart, Reading, NoEntrySkipped, ReadAll
<1> QED BY <1>1, ReadInvariance, PTL

\* An entry in an earlier place has no earlier stamp.
LEMMA InOrder ==
  ASSUME NEW S, IsFiniteSet(S), S \subseteq Entry, NEW e \in S, NEW f \in S,
         NEW i \in Int, NEW j \in Int, InItsPlace(S, e, i), InItsPlace(S, f, j), i <= j
  PROVE  e.created >= f.created
<1>1. e.created \in Int /\ f.created \in Int
  BY EntryStamp
<1>2. ASSUME e.created < f.created
      PROVE  FALSE
  <2>1. AtLeast(S, f) \subseteq Newer(S, e)
    <3> SUFFICES ASSUME NEW g \in AtLeast(S, f)
                 PROVE  g \in Newer(S, e)
      OBVIOUS
    <3>1. g \in S /\ g.created >= f.created /\ g.created \in Int
      BY EntryStamp DEF AtLeast
    <3> QED BY <1>1, <1>2, <3>1 DEF Newer
  <2>2. IsFiniteSet(Newer(S, e)) /\ Cardinality(Newer(S, e)) \in Nat
        /\ Cardinality(AtLeast(S, f)) \in Nat
    BY FiniteParts
  <2>3. Cardinality(AtLeast(S, f)) <= Cardinality(Newer(S, e))
    BY <2>1, <2>2, FS_Subset
  <2> QED BY <2>2, <2>3 DEF InItsPlace
<1> QED BY <1>1, <1>2

\* If nothing that matches was committed in between, the pages of a read from the first
\* row on are together exactly the matching log, latest first: as long, in the order of
\* the stamps, and each entry that shares its stamp with no other is there once.
THEOREM QuietReadExact == Spec => []QuietReadIsExact
<1>1. RInv => QuietReadIsExact
  <2> SUFFICES ASSUME RInv, ReadAll, Matching(asked.filter) = present
               PROVE  /\ Len(shown) = Cardinality(present)
                      /\ \A i, j \in DOMAIN shown : i < j => shown[i].created >= shown[j].created
                      /\ \A e \in present :
                           Tied(e) \/ Cardinality({i \in DOMAIN shown : shown[i].id = e.id}) = 1
    BY DEF QuietReadIsExact
  <2>1. /\ Len(shown) = Cardinality(present)
        /\ \A i \in DOMAIN shown :
             \E e \in present : shown[i] = AuditLogModel(e) /\ InItsPlace(present, e, i)
    BY DEF RInv, Exact, ReadAll, FromTheStart, Reading
  <2>2. IsFiniteSet(present) /\ present \subseteq log /\ present \subseteq Entry
    BY FS_Subset DEF RInv, ReadTypes, Matching
  <2>3. DOMAIN shown = 1..Len(shown) /\ Len(shown) \in Nat
    BY DEF RInv, ReadTypes
  <2>4. ASSUME NEW i \in DOMAIN shown, NEW j \in DOMAIN shown, i < j
        PROVE  shown[i].created >= shown[j].created
    <3>1. PICK e \in present : shown[i] = AuditLogModel(e) /\ InItsPlace(present, e, i)
      BY <2>1
    <3>2. PICK f \in present : shown[j] = AuditLogModel(f) /\ InItsPlace(present, f, j)
      BY <2>1
    <3>3. e.created >= f.created
      BY <2>2, <2>3, <2>4, <3>1, <3>2, InOrder
    <3>4. e.created \in Int /\ f.created \in Int /\ TicksPerSecond \in Nat \ {0}
      BY <2>2, EntryStamp, ReadAssumption
    <3>5. f.created \div TicksPerSecond <= e.created \div TicksPerSecond
      BY <3>3, <3>4, DivMonotone
    <3>6. /\ shown[i].created = e.created \div TicksPerSecond
          /\ shown[j].created = f.created \div TicksPerSecond
      BY <2>2, <3>1, <3>2, EntryStamp
    <3> QED BY <3>4, <3>5, <3>6
  <2>5. ASSUME NEW e \in present, ~Tied(e)
        PROVE  Cardinality({i \in DOMAIN shown : shown[i].id = e.id}) = 1
    <3> DEFINE k == Cardinality(Newer(present, e)) + 1
    <3>1. /\ IsFiniteSet(Newer(present, e)) /\ Cardinality(Newer(present, e)) \in Nat
          /\ Cardinality(AtLeast(present, e)) \in Nat
          /\ Cardinality(AtLeast(present, e)) <= Cardinality(present)
      BY <2>2, FiniteParts
    <3>2. AtLeast(present, e) = Newer(present, e) \cup {e} /\ e \notin Newer(present, e)
      <4>1. ASSUME NEW f \in present
            PROVE  f.created \in Int /\ e.created \in Int /\ (f.created = e.created => f = e)
        BY <2>2, <2>5, EntryStamp DEF Tied
      <4> QED BY <4>1 DEF Newer, AtLeast
    <3>3. Cardinality(AtLeast(present, e)) = k
      BY <3>1, <3>2, FS_AddElement
    <3>4. k \in DOMAIN shown
      BY <2>1, <2>3, <3>1, <3>3
    <3> HIDE DEF k
    <3>5. ASSUME NEW i \in DOMAIN shown, shown[i].id = e.id
          PROVE  i = k
      <4>1. PICK f \in present : shown[i] = AuditLogModel(f) /\ InItsPlace(present, f, i)
        BY <2>1
      <4>2. f.id = e.id
        BY <2>2, <3>5, <4>1, EntryStamp
      <4>3. f = e
        BY <2>2, <4>2 DEF RInv, ReadTypes
      <4> QED BY <2>3, <3>1, <3>3, <4>1, <4>3 DEF InItsPlace, k
    <3>6. shown[k].id = e.id
      <4>1. PICK f \in present : shown[k] = AuditLogModel(f) /\ InItsPlace(present, f, k)
        BY <2>1, <3>4
      <4>2. InItsPlace(present, e, k) /\ k \in Int
        BY <3>1, <3>3 DEF InItsPlace, k
      <4>3. e.created >= f.created /\ f.created >= e.created
        BY <2>2, <4>1, <4>2, InOrder
      <4>4. f = e
        BY <2>2, <2>5, <4>3, EntryStamp DEF Tied
      <4> QED BY <2>2, <4>1, <4>4, EntryStamp
    <3>7. {i \in DOMAIN shown : shown[i].id = e.id} = {k}
      BY <3>4, <3>5, <3>6
    <3>8. Cardinality({k}) = 1
      BY FS_Singleton
    <3> QED BY <3>7, <3>8
  <2> QED BY <2>1, <2>4, <2>5
<1> QED BY <1>1, ReadInvariance, PTL
=============================================================================

---------------------------- MODULE AuditLogRead ----------------------------
(***************************************************************************)
(* Reading the audit log (internal/audit/postgres.go, the resolvers        *)
(* auditLog and auditLogs) while transactions of the services add to it.   *)
(*                                                                         *)
(* An entry is stamped with the start of its transaction (created_at       *)
(* DEFAULT now()) and appears when that commits: entries may appear out of *)
(* the order of their stamps, and two may have the same one.  A reader     *)
(* asks for page after page, each time with the offset moved on by what it *)
(* was given, until a page is empty: the client the API is made for.       *)
(***************************************************************************)
EXTENDS SequencesExt, FiniteSetsExt, Integers

CONSTANTS
  Writers,          \* the transactions; each writes one entry, which has its id
  Content,          \* the [entity, action, actor] an entry may have
  Queries,          \* the auditLogs calls: [role, filter, limit, offset]
  DefaultListLimit, \* 50 in the code
  MaxListLimit,     \* 200 in the code
  MaxClock,         \* bound on the clock
  TicksPerSecond,   \* what an answer shows of a stamp is its second
  Malformed,        \* a text that is not a UUID
  Nil               \* Go's nil

ASSUME ReadAssumption ==
  /\ DefaultListLimit \in Nat \ {0} /\ MaxListLimit \in Nat /\ DefaultListLimit <= MaxListLimit
  /\ MaxClock \in Nat /\ TicksPerSecond \in Nat \ {0}
  /\ Malformed \notin Writers /\ Nil \notin Writers

\* The entry of writer w, begun at t.
NewEntry(c, w, t) ==
  [entity |-> c.entity, action |-> c.action, actor |-> c.actor, id |-> w, created |-> t]

Entry == {NewEntry(c, w, t) : c \in Content, w \in Writers, t \in 0..MaxClock}

\* A call leaves its limit and its offset out or gives numbers; nil is no number and no answer.
ASSUME QueriesAssumption ==
  /\ \A q \in Queries :
       /\ q = [role |-> q.role, filter |-> q.filter, limit |-> q.limit, offset |-> q.offset]
       /\ q.limit \in Int \cup {Nil} /\ q.offset \in Int \cup {Nil}
  /\ Nil \notin Int /\ Nil # "ok"

VARIABLES
  clock,    \* the clock of the database
  begun,    \* the writers whose transaction has begun
  open,     \* the entries of open transactions
  log,      \* the rows of audit_logs
  pc,       \* what the reader does next
  query,    \* its call, with the offset of the next page
  asked,    \* the call it began with
  shown,    \* what the pages have shown, one after the other
  resp,     \* "ok", or the error of the last call
  present   \* history: the matching rows when the first page was read

tables == <<clock, begun, open, log>>
reader == <<pc, query, asked, shown, resp, present>>
vars == <<tables, reader>>

Init ==
  /\ clock = 0 /\ begun = {} /\ open = {} /\ log = {}
  /\ pc = "idle" /\ query = Nil /\ asked = Nil /\ shown = <<>> /\ resp = Nil /\ present = Nil

-----------------------------------------------------------------------------
\* PrepareWriteTx: the transaction begins, and with it now().
Begin(w) ==
  /\ w \notin begun
  /\ begun' = begun \cup {w}
  /\ \E c \in Content : open' = open \cup {NewEntry(c, w, clock)}
  /\ UNCHANGED <<clock, log, reader>>

\* Create has inserted the entry, and the transaction commits.
Create(e) ==
  /\ open' = open \ {e} /\ log' = log \cup {e}
  /\ UNCHANGED <<clock, begun, reader>>

Rollback(e) ==
  /\ open' = open \ {e}
  /\ UNCHANGED <<clock, begun, log, reader>>

Tick == clock < MaxClock /\ clock' = clock + 1 /\ UNCHANGED <<begun, open, log, reader>>

-----------------------------------------------------------------------------
\* The WHERE clause of List.
Matches(filter, e) ==
  /\ filter.entity \in {Nil, e.entity}
  /\ filter.action \in {Nil, e.action}
  /\ filter.actor \in {Nil, e.actor}

Matching(filter) == {e \in log : Matches(filter, e)}

\* Mutant of NewestFirst: without DESC.
OldestFirst(S) == {s \in SetToSeqs(S) : \A i, j \in DOMAIN s : i < j => s[i].created <= s[j].created}

\* ORDER BY created_at DESC: every query may order the entries of one stamp anew.
NewestFirst(S) == {s \in SetToSeqs(S) : \A i, j \in DOMAIN s : i < j => s[i].created >= s[j].created}

\* Mutant of StoreLimit: only a negative limit is replaced.
KeepZero(limit) == Min({IF limit < 0 THEN DefaultListLimit ELSE limit, MaxListLimit})

\* The limit List applies, and the one the resolver hands to it.
StoreLimit(limit) == Min({IF limit <= 0 THEN DefaultListLimit ELSE limit, MaxListLimit})

ResolvedLimit(limit) == Min({IF limit = Nil THEN DefaultListLimit ELSE limit, MaxListLimit})

ResolvedOffset(offset) == IF offset = Nil THEN 0 ELSE offset

\* What List may return.
List(filter, limit, offset) ==
  {SubSeq(s, offset + 1, Min({offset + StoreLimit(limit), Len(s)})) : s \in NewestFirst(Matching(filter))}

\* toAuditLogModel: an answer shows the second of the stamp.
AuditLogModel(e) == [e EXCEPT !.created = @ \div TicksPerSecond]

\* requireAuditReadAccess returns nil.
AuditReadAccess(role) == role = "admin"

-----------------------------------------------------------------------------
Ask ==
  /\ pc = "idle"
  /\ \E q \in Queries : asked' = q /\ query' = q
  /\ pc' = "page"
  /\ UNCHANGED <<tables, shown, resp, present>>

\* auditLogs answers an error: no access, a negative offset, an actor that is no UUID.
Refused ==
  \/ ~AuditReadAccess(query.role)
  \/ ResolvedOffset(query.offset) < 0
  \/ query.filter.actor = Malformed

AuditLogsError ==
  /\ pc = "page" /\ Refused
  /\ pc' = "lookup"
  /\ resp' = IF ~AuditReadAccess(query.role) THEN "forbidden"
             ELSE IF ResolvedOffset(query.offset) < 0 THEN "negativeOffset" ELSE "error"
  /\ UNCHANGED <<tables, query, asked, shown, present>>

AuditLogs ==
  /\ pc = "page" /\ ~Refused
  /\ \E page \in List(query.filter, ResolvedLimit(query.limit), ResolvedOffset(query.offset)) :
       /\ shown' = shown \o [i \in DOMAIN page |-> AuditLogModel(page[i])]
       /\ query' = [query EXCEPT !.offset = ResolvedOffset(@) + Len(page)]
       /\ pc' = IF page = <<>> THEN "lookup" ELSE "page"
  /\ resp' = "ok"
  /\ present' = IF resp = Nil THEN Matching(query.filter) ELSE present
  /\ UNCHANGED <<tables, asked>>

\* auditLog of any id: one row, none, or an error.
AuditLog(id) ==
  /\ pc = "lookup"
  /\ pc' = "done"
  /\ resp' = IF ~AuditReadAccess(query.role) THEN "forbidden"
             ELSE IF id = Malformed THEN "error"
             ELSE IF \E e \in log : e.id = id THEN "ok" ELSE "null"
  /\ UNCHANGED <<tables, query, asked, shown, present>>

AllDone == pc = "done" /\ UNCHANGED vars

Next ==
  \/ \E w \in Writers : Begin(w)
  \/ \E e \in open : Create(e) \/ Rollback(e)
  \/ Tick \/ Ask \/ AuditLogsError \/ AuditLogs \/ AllDone
  \/ \E id \in Writers \cup {Malformed} : AuditLog(id)

Spec == Init /\ [][Next]_vars

-----------------------------------------------------------------------------
\* The reader has come to the end of what matches its filter.
ReadAll == pc = "lookup" /\ resp = "ok" /\ asked.offset \in {Nil, 0}

Tied(e) == \E f \in Matching(asked.filter) : f # e /\ f.created = e.created

\* Pages by offset (List, ORDER BY created_at DESC): whatever is committed while a reader
\* goes from page to page, and whatever limit it asks for (none, zero, negative, too
\* large), an entry that was there from the start is shown, unless it shares its stamp.
NoEntrySkipped ==
  ReadAll => \A e \in present : Tied(e) \/ AuditLogModel(e) \in ToSet(shown)

\* If no matching entry was committed in between, the pages together are as long as the
\* log, with the latest first, and an entry comes twice only in the place of one that it
\* shares its stamp with.
QuietReadIsExact ==
  (ReadAll /\ Matching(asked.filter) = present) =>
    /\ Len(shown) = Cardinality(present)
    /\ \A i, j \in DOMAIN shown : i < j => shown[i].created >= shown[j].created
    /\ \A e \in present : Tied(e) \/ Cardinality({i \in DOMAIN shown : shown[i].id = e.id}) = 1

=============================================================================

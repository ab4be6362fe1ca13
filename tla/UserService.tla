---------------------------- MODULE UserService ----------------------------
(***************************************************************************)
(* The users service (internal/users/service.go) over its Postgres store   *)
(* (internal/users/postgres.go).  createUser, updateUser and deleteUser    *)
(* run in one READ COMMITTED transaction with their audit entry; login is  *)
(* one read.  A step is one SQL statement, but the UPDATE of a user is two *)
(* steps, for it waits twice: for the row, and for its new email.          *)
(*                                                                         *)
(* A request is handled once; it is the id of the user it creates and the  *)
(* actor it acts for.  A password stands for its hash as well.             *)
(***************************************************************************)
EXTENDS Integers, Sequences, FiniteSets

CONSTANTS
  Requests,                  \* the calls that reach the service
  Seeded,                    \* ids of the users there are to begin with, and
  SeedRow,                   \* their rows
  Emails, Roles, Passwords,  \* what a user may have
  Calls,                     \* what the requests may ask for
  Anonymous,                 \* the requests whose context holds no actor id
  Nil                        \* Go's nil; a password is nil when it is empty, too

Ids == Requests \cup Seeded
User == [id : Ids, email : Emails, role : Roles, password : Passwords \cup {Nil}]

CreateInput ==
  [op : {"create"}, email : Emails, role : Roles, password : Passwords \cup {Nil}]
UpdateInput ==
  [op : {"update"}, id : Ids, email : Emails \cup {Nil}, role : Roles \cup {Nil},
   password : Passwords \cup {Nil}]
DeleteInput == [op : {"delete"}, id : Ids]
LoginInput == [op : {"login"}, email : Emails, password : Passwords]
Input == CreateInput \cup UpdateInput \cup DeleteInput \cup LoginInput

Entry == [action : {"create", "update", "delete"}, id : Ids, actor : Requests]

ASSUME ServiceAssumption ==
  /\ Calls \subseteq Input /\ Anonymous \subseteq Requests
  /\ Requests \cap Seeded = {} /\ Nil \notin Emails \cup Roles \cup Passwords \cup Input \cup User
  /\ SeedRow \in [Seeded -> User]
  /\ \A s, t \in Seeded : SeedRow[s].id = s /\ (SeedRow[s].email = SeedRow[t].email => s = t)

VARIABLES
  users, audit,  \* the committed rows; the log of the entity "user", in commit order
  pc,            \* the statement each request executes next
  input,         \* what it was called with
  seen,          \* the *User it holds in memory: the row it writes
  tx,            \* what its open transaction has written
  resp           \* what it answered; for a login, the row it was let in with

db == <<users, audit>>
vars == <<db, pc, input, seen, tx, resp>>

\* wrote: "locked" is an UPDATE whose new email is not in the index yet.
NoTx == [wrote |-> "none", entries |-> <<>>]

Init ==
  /\ users = {SeedRow[s] : s \in Seeded} /\ audit = <<>>
  /\ pc = [r \in Requests |-> "idle"]
  /\ input = [r \in Requests |-> Nil]
  /\ seen = [r \in Requests |-> Nil]
  /\ tx = [r \in Requests |-> NoTx]
  /\ resp = [r \in Requests |-> [word |-> "none", user |-> Nil]]

InTx == {"insertUser", "lockRow", "indexEmail", "deleteUser", "audit", "commit"}

UsersWith(email) == {u \in users : u.email = email}
Row(id) == {u \in users : u.id = id}

\* The id of the user r writes.
Target(r) == IF input[r].op = "create" THEN r ELSE input[r].id

\* s has written the row of the user id.
HoldsRow(s, id) == tx[s].wrote \in {"locked", "update", "delete"} /\ Target(s) = id

\* s has put the email into the index, or is leaving it: nobody knows yet whether it is free.
HoldsEmail(s, email) ==
  \/ tx[s].wrote \in {"insert", "update"} /\ seen[s].email = email
  \/ \E u \in UsersWith(email) : HoldsRow(s, u.id)

\* The row r updates does not have the email it is to have: the index is concerned.
NewEmail(r) == \A u \in Row(seen[r].id) : u.email # seen[r].email

Blocks(s, r) ==
  \/ pc[r] = "insertUser" /\ HoldsEmail(s, seen[r].email)
  \/ pc[r] = "indexEmail" /\ NewEmail(r) /\ HoldsEmail(s, seen[r].email)
  \/ pc[r] \in {"lockRow", "deleteUser"} /\ HoldsRow(s, Target(r))

WaitsFor(r) == {s \in Requests \ {r} : Blocks(s, r)}

\* r waits, directly or through others, for itself.
InWaitCycle(r) ==
  \A S \in SUBSET Requests :
    (WaitsFor(r) \subseteq S /\ \A s \in S : WaitsFor(s) \subseteq S) => r \in S

Goto(r, statement) == pc' = [pc EXCEPT ![r] = statement]

\* The handler returns: an open transaction is gone (defer tx.Rollback() or committed).
FinishWith(r, in, word, user) ==
  /\ Goto(r, "done")
  /\ resp' = [resp EXCEPT ![r] = [word |-> word, user |-> user]]
  /\ input' = [input EXCEPT ![r] = in]
  /\ seen' = [seen EXCEPT ![r] = Nil]
  /\ tx' = [tx EXCEPT ![r] = NoTx]

Finish(r, word) == FinishWith(r, input[r], word, Nil)

\* The handler goes on with the next statement, holding the row in memory.
Continue(r, in, user, statement) ==
  /\ Goto(r, statement)
  /\ input' = [input EXCEPT ![r] = in]
  /\ seen' = [seen EXCEPT ![r] = user]
  /\ UNCHANGED <<tx, resp>>

\* The statement has written; the transaction goes on.
Wrote(r, what, statement) ==
  /\ tx' = [tx EXCEPT ![r].wrote = what]
  /\ Goto(r, statement)
  /\ UNCHANGED <<input, seen, resp>>

Execute(r, statement) == pc[r] = statement /\ WaitsFor(r) = {}

-----------------------------------------------------------------------------
Asked(op) == {in \in Calls : in.op = op}

PrepareAuditTx(r) == pc[r] = "idle" /\ r \notin Anonymous

MissingActor(r) ==
  /\ pc[r] = "idle" /\ r \in Anonymous
  /\ \E in \in Asked("create") \cup Asked("update") \cup Asked("delete") :
       FinishWith(r, in, "missingActor", Nil)
  /\ UNCHANGED db

\* ensureUniqueEmailWithStore, then the row to be inserted.
CreateUser(r) ==
  /\ PrepareAuditTx(r)
  /\ \E in \in Asked("create") :
       \/ /\ UsersWith(in.email) # {}
          /\ FinishWith(r, in, "duplicate", Nil)
       \/ /\ UsersWith(in.email) = {}
          /\ Continue(r, in, [id |-> r, email |-> in.email, role |-> in.role,
                              password |-> in.password], "insertUser")
  /\ UNCHANGED db

\* Mutant of InsertUser: no UNIQUE index on the email.
InsertUnindexed(r) ==
  /\ Execute(r, "insertUser") /\ Wrote(r, "insert", "audit")
  /\ UNCHANGED db

InsertUser(r) ==
  /\ Execute(r, "insertUser")
  /\ \/ UsersWith(seen[r].email) # {} /\ Finish(r, "wrappedDuplicate")
     \/ UsersWith(seen[r].email) = {} /\ Wrote(r, "insert", "audit")
  /\ UNCHANGED db

\* Mutant of ApplyUpdateFields: an omitted password is written as NULL.
ApplyPassword(u, in) ==
  [u EXCEPT !.email = IF in.email = Nil THEN @ ELSE in.email,
            !.role = IF in.role = Nil THEN @ ELSE in.role,
            !.password = in.password]

\* The fields that are given replace those of the row (applyUpdateFieldsToUser).
ApplyUpdateFields(u, in) ==
  [u EXCEPT !.email = IF in.email = Nil THEN @ ELSE in.email,
            !.role = IF in.role = Nil THEN @ ELSE in.role,
            !.password = IF in.password = Nil THEN @ ELSE in.password]

UpdateUser(r) ==
  /\ PrepareAuditTx(r)
  /\ \E in \in Asked("update") :
       \/ Row(in.id) = {} /\ FinishWith(r, in, "notFound", Nil)
       \/ \E u \in Row(in.id) : Continue(r, in, ApplyUpdateFields(u, in), "lockRow")
  /\ UNCHANGED db

\* Mutant of LockRow: the row is deleted, and inserted again with its new fields.
UpdateByReinsert(r) ==
  /\ Execute(r, "lockRow")
  /\ \/ Row(seen[r].id) = {} /\ Finish(r, "wrappedNotFound")
     \/ Row(seen[r].id) # {} /\ Wrote(r, "delete", "insertUser")
  /\ UNCHANGED db

\* Mutants of LockRow: a row that is gone is taken for one that is there; it is waited for.
LockAnyRow(r) ==
  /\ Execute(r, "lockRow") /\ Wrote(r, "locked", "indexEmail")
  /\ UNCHANGED db

LockRowRetrying(r) ==
  /\ Execute(r, "lockRow") /\ Row(seen[r].id) # {} /\ Wrote(r, "locked", "indexEmail")
  /\ UNCHANGED db

\* UPDATE ... WHERE id: the row is found and locked.
LockRow(r) ==
  /\ Execute(r, "lockRow")
  /\ \/ Row(seen[r].id) = {} /\ Finish(r, "wrappedNotFound")
     \/ Row(seen[r].id) # {} /\ Wrote(r, "locked", "indexEmail")
  /\ UNCHANGED db

\* ... and its new version written, with every column as r holds it; a duplicate email is
\* not told apart from other errors here.
IndexEmail(r) ==
  /\ Execute(r, "indexEmail")
  /\ \/ NewEmail(r) /\ UsersWith(seen[r].email) # {} /\ Finish(r, "error")
     \/ ~(NewEmail(r) /\ UsersWith(seen[r].email) # {}) /\ Wrote(r, "update", "audit")
  /\ UNCHANGED db

DeleteUser(r) ==
  /\ PrepareAuditTx(r)
  /\ \E in \in Asked("delete") : Continue(r, in, Nil, "deleteUser")
  /\ UNCHANGED db

\* No row, no audit entry: the handler answers false, and rolls back.
DeleteRow(r) ==
  /\ Execute(r, "deleteUser")
  /\ \/ Row(Target(r)) = {} /\ Finish(r, "false")
     \/ Row(Target(r)) # {} /\ Wrote(r, "delete", "audit")
  /\ UNCHANGED db

AuditCreate(r) ==
  /\ Execute(r, "audit")
  /\ tx' = [tx EXCEPT ![r].entries =
               <<[action |-> input[r].op, id |-> Target(r), actor |-> r]>>]
  /\ Goto(r, "commit")
  /\ UNCHANGED <<db, input, seen, resp>>

\* The transaction's writes become visible to everyone at once.
Apply(r) ==
  LET others == {u \in users : u.id # Target(r)}
  IN  /\ users' = IF tx[r].wrote = "delete" THEN others ELSE others \cup {seen[r]}
      /\ audit' = audit \o tx[r].entries

\* Mutant of Commit: the error of COMMIT is dropped.
CommitUnchecked(r) ==
  /\ Execute(r, "commit")
  /\ Apply(r) \/ UNCHANGED db
  /\ Finish(r, "ok")

\* COMMIT takes effect; its acknowledgement may be lost (the handler then returns an error).
Commit(r) ==
  /\ Execute(r, "commit")
  /\ Apply(r)
  /\ \E word \in {"ok", "error"} : Finish(r, word)

\* A statement fails, the client goes away, the server is shut down or crashes.
Fail(r) ==
  /\ pc[r] # "done"
  /\ Finish(r, "error")
  /\ UNCHANGED db

\* Postgres aborts a statement that it finds waiting in a cycle.
AbortDeadlock(r) ==
  /\ pc[r] \in InTx /\ InWaitCycle(r)
  /\ Finish(r, "deadlock")
  /\ UNCHANGED db

\* login compares the password with the hash on record and tells the id and the role.
Login(r) ==
  /\ pc[r] = "idle"
  /\ \E in \in Asked("login") :
       LET matching == {u \in UsersWith(in.email) : u.password = in.password}
       IN  \/ matching = {} /\ FinishWith(r, in, "invalidCredentials", Nil)
           \/ \E u \in matching : FinishWith(r, in, "loggedIn", u)
  /\ UNCHANGED db

-----------------------------------------------------------------------------
Receive(r) == MissingActor(r) \/ CreateUser(r) \/ UpdateUser(r) \/ DeleteUser(r) \/ Login(r)

Advance(r) ==
  \/ InsertUser(r) \/ LockRow(r) \/ IndexEmail(r) \/ DeleteRow(r)
  \/ AuditCreate(r) \/ Commit(r) \/ AbortDeadlock(r)

\* Every request has been answered.
AllDone == (\A r \in Requests : pc[r] = "done") /\ UNCHANGED vars

Next == (\E r \in Requests : Receive(r) \/ Advance(r) \/ Fail(r)) \/ AllDone

Spec == Init /\ [][Next]_vars

\* The goroutine of a request and the backend that serves it keep running, and
\* Postgres looks for a cycle once a statement has waited for deadlock_timeout.
FairSpec == Spec /\ \A r \in Requests : WF_vars(Advance(r))

-----------------------------------------------------------------------------
TypeOK ==
  /\ users \subseteq User /\ audit \in Seq(Entry)
  /\ pc \in [Requests -> InTx \cup {"idle", "done"}]
  /\ input \in [Requests -> Calls \cup {Nil}]
  /\ seen \in [Requests -> User \cup {Nil}]
  /\ \A r \in Requests :
       /\ tx[r].wrote \in {"none", "locked", "insert", "update", "delete"}
       /\ tx[r].entries = <<>> \/ \E e \in Entry : tx[r].entries = <<e>>
       /\ resp[r].user \in User \cup {Nil}

\* No two users share an email, although createUser checks before it inserts and updateUser
\* does not check at all (ensureUniqueEmailWithStore, updateUserWithStore).
Consistent == TypeOK /\ \A u, v \in users : u.email = v.email => u = v

\* A request that was told "ok" has exactly one entry in the log; one that has an entry was
\* told "ok" or "error"; "false", a refusal or an abort by Postgres leaves none, whatever had
\* been written when it was given (CreateUser, UpdateUser, DeleteUser).
AnswerMatchesAudit ==
  \A r \in Requests :
    LET own == {i \in DOMAIN audit : audit[i].actor = r}
    IN  /\ Cardinality(own) <= 1
        /\ resp[r].word = "ok" => own # {}
        /\ own # {} => resp[r].word \in {"ok", "error"} /\ r \notin Anonymous

\* Requests wait for one another in a circle only when each of them updates a user to the
\* email that the next one's user still has: never because of a creation or a deletion.
DeadlockNeedsEmailSwap ==
  \A r \in Requests : InWaitCycle(r) =>
    /\ pc[r] = "indexEmail" /\ NewEmail(r)
    /\ \E s \in WaitsFor(r) : InWaitCycle(s) /\ \E u \in UsersWith(seen[r].email) : HoldsRow(s, u.id)

\* The fields a request gives, of an update as of a creation.
Gives(r, field) == input[r].op = "create" \/ input[r][field] # Nil

\* What the last change of a user in the log asked for is in effect, and every other field is
\* what some earlier change, or the seed, gave that very user: whatever is written back from a
\* stale read, nobody gets a role, an email or a password that was never given to them
\* (applyUpdateFieldsToUser and the UPDATE of every column).
FieldsWereGiven ==
  \A u \in users : \A field \in {"email", "role", "password"} :
    LET changes == {i \in DOMAIN audit : audit[i].id = u.id}
        Asks(i) == Gives(audit[i].actor, field)
        Value(i) == input[audit[i].actor][field]
    IN  /\ \A i \in changes :
             (\A j \in changes : j <= i) /\ Asks(i) => u[field] = Value(i)
        /\ \/ \E i \in changes : Asks(i) /\ u[field] = Value(i)
           \/ u.id \in Seeded /\ u[field] = SeedRow[u.id][field]

\* Every request that was begun is answered, also when requests wait for one another.
EveryRequestAnswered == \A r \in Requests : pc[r] # "idle" ~> pc[r] = "done"

\* A committed change of the users is one whole audited change: see AuditedUsers.
Audited == INSTANCE AuditedUsers WITH Actors <- Requests, Seed <- {SeedRow[s] : s \in Seeded}
ImplementsAuditedUsers == Audited!Spec

=============================================================================

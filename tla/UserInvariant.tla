--------------------------- MODULE UserInvariant ---------------------------
(***************************************************************************)
(* The inductive invariant of UserService: what an open transaction has    *)
(* written at each statement, what the row locks and the email index keep  *)
(* true of the committed rows until it commits, where every field that is  *)
(* stored or about to be written comes from, and what the log tells.       *)
(***************************************************************************)
EXTENDS UserService

Fields == {"email", "role", "password"}

Tx == [wrote : {"none", "locked", "insert", "update", "delete"},
       entries : {<<>>} \cup {<<e>> : e \in Entry}]

Words ==
  {"none", "missingActor", "duplicate", "wrappedDuplicate", "notFound", "wrappedNotFound", "false",
   "error", "deadlock", "ok", "invalidCredentials", "loggedIn"}

Answers == [word : Words, user : User \cup {Nil}]

UserType == TypeOK /\ tx \in [Requests -> Tx] /\ resp \in [Requests -> Answers]

\* How far the handler has come: what it holds in memory and has written when it executes its
\* next statement.
Progress(r) ==
  /\ pc[r] \in {"idle", "done"} => seen[r] = Nil /\ tx[r] = NoTx
  /\ pc[r] \in InTx =>
       /\ input[r] \in Calls /\ input[r].op \in {"create", "update", "delete"}
       /\ r \notin Anonymous
       /\ input[r].op \in {"create", "update"} => seen[r] \in User /\ seen[r].id = Target(r)
  /\ pc[r] = "insertUser" => input[r].op = "create" /\ tx[r].wrote = "none"
  /\ pc[r] = "lockRow" => input[r].op = "update" /\ tx[r].wrote = "none"
  /\ pc[r] = "indexEmail" => input[r].op = "update" /\ tx[r].wrote = "locked"
  /\ pc[r] = "deleteUser" => input[r].op = "delete" /\ tx[r].wrote = "none"
  /\ pc[r] \in {"audit", "commit"} =>
       \/ input[r].op = "create" /\ tx[r].wrote = "insert"
       \/ input[r].op = "update" /\ tx[r].wrote = "update"
       \/ input[r].op = "delete" /\ tx[r].wrote = "delete"
  /\ tx[r].entries = IF pc[r] = "commit"
                     THEN <<[action |-> input[r].op, id |-> Target(r), actor |-> r]>>
                     ELSE <<>>

\* A row that r has written is there until r commits; the email it has put into the index is
\* nobody else's.
Locked(r) ==
  /\ tx[r].wrote \in {"locked", "update", "delete"} => Row(Target(r)) # {}
  /\ tx[r].wrote = "insert" => UsersWith(seen[r].email) = {}
  /\ tx[r].wrote = "update" => \A u \in UsersWith(seen[r].email) : u.id = Target(r)

\* Two open transactions have neither written the same row nor indexed the same email.
Exclusive(r, s) ==
  r # s =>
    /\ ~(tx[r].wrote \in {"locked", "update", "delete"} /\ HoldsRow(s, Target(r)))
    /\ ~(/\ tx[r].wrote \in {"insert", "update"} /\ tx[s].wrote \in {"insert", "update"}
         /\ seen[r].email = seen[s].email)

\* The value of a field of the user id was given by a change of that user, or by the seed.
Came(id, field, value) ==
  \/ \E i \in DOMAIN audit :
       /\ audit[i].id = id /\ audit[i].action # "delete"
       /\ Gives(audit[i].actor, field) /\ input[audit[i].actor][field] = value
  \/ id \in Seeded /\ value = SeedRow[id][field]

\* The row r is about to write has what r gives, and what the user had when it was read.
Given(r) ==
  pc[r] \in InTx /\ input[r].op \in {"create", "update"} =>
    \A field \in Fields :
      /\ Gives(r, field) => seen[r][field] = input[r][field]
      /\ ~Gives(r, field) => Came(Target(r), field, seen[r][field])

\* Only who is done has answered, and "ok" only with an entry in the log.
Answered(r) ==
  /\ pc[r] # "done" => resp[r].word = "none"
  /\ resp[r].word = "ok" => \E i \in DOMAIN audit : audit[i].actor = r

\* A row names a request that is done, or one of the seed.
Rows ==
  /\ \A u \in users : u.id \in Seeded \/ pc[u.id] = "done"
  /\ \A u, v \in users : u.id = v.id => u = v
  /\ \A u, v \in users : u.email = v.email => u = v

\* An entry tells what its actor, who is done, was asked for; a deleted user stays deleted.
Logged(i) ==
  LET e == audit[i]
  IN  /\ pc[e.actor] = "done" /\ resp[e.actor].word \in {"ok", "error"} /\ e.actor \notin Anonymous
      /\ input[e.actor] \in Calls /\ input[e.actor].op = e.action
      /\ e.id \in Seeded \/ pc[e.id] = "done"
      /\ e.action = "delete" => Row(e.id) = {}

OneEntry == \A i, j \in DOMAIN audit : audit[i].actor = audit[j].actor => i = j

\* Every field of a user was given, and by the last change if that gives it.
Kept(u) ==
  \A field \in Fields :
    /\ Came(u.id, field, u[field])
    /\ \A i \in DOMAIN audit :
         /\ audit[i].id = u.id /\ Gives(audit[i].actor, field)
         /\ \A j \in DOMAIN audit : audit[j].id = u.id => j <= i
         => u[field] = input[audit[i].actor][field]

UInv ==
  /\ UserType
  /\ \A r \in Requests : Progress(r) /\ Locked(r) /\ Given(r) /\ Answered(r)
  /\ \A r, s \in Requests : Exclusive(r, s)
  /\ Rows
  /\ \A i \in DOMAIN audit : Logged(i)
  /\ OneEntry
  /\ \A u \in users : Kept(u)

=============================================================================

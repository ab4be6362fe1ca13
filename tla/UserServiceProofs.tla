-------------------------- MODULE UserServiceProofs --------------------------
(***************************************************************************)
(* Proofs about UserService: its invariant, for any requests, users and    *)
(* calls, and what follows from it.                                        *)
(***************************************************************************)
EXTENDS UserInvariant, UserHistory, FiniteSetTheorems, TLAPS

\* What the four kinds of calls hold.
LEMMA CallFields ==
  ASSUME NEW in \in Calls
  PROVE  /\ in \in Input /\ in # Nil
         /\ in.op \in {"create", "update", "delete", "login"}
         /\ in.op = "create" => in \in CreateInput
         /\ in.op = "update" => in \in UpdateInput
         /\ in.op = "delete" => in \in DeleteInput
         /\ in.op = "login" => in \in LoginInput
  BY ServiceAssumption DEF Input, CreateInput, UpdateInput, DeleteInput, LoginInput

LEMMA NoTxFields ==
  NoTx \in Tx /\ NoTx.wrote = "none" /\ NoTx.entries = <<>>
  BY DEF NoTx, Tx

LEMMA TargetId ==
  ASSUME NEW r \in Requests, UserType, Progress(r), pc[r] \in InTx
  PROVE  Target(r) \in Ids
  BY CallFields DEF Progress, Target, UpdateInput, DeleteInput, Ids

-----------------------------------------------------------------------------
\* The step concerns the handler of r only, and r has not answered before.
StepOf(r) ==
  /\ pc[r] # "done"
  /\ \A s \in Requests \ {r} :
       /\ pc'[s] = pc[s] /\ input'[s] = input[s] /\ seen'[s] = seen[s]
       /\ tx'[s] = tx[s] /\ resp'[s] = resp[s]

\* What was given stays given: the actors of the log are done.
LEMMA CameStays ==
  ASSUME UInv, NEW r \in Requests, StepOf(r), UNCHANGED db, NEW id, NEW field, NEW value,
         Came(id, field, value)
  PROVE  Came(id, field, value)'
  <1>1. CASE id \in Seeded /\ value = SeedRow[id][field]  BY <1>1 DEF Came
  <1>2. ASSUME NEW i \in DOMAIN audit, audit[i].id = id, audit[i].action # "delete",
               Gives(audit[i].actor, field), input[audit[i].actor][field] = value
        PROVE  Came(id, field, value)'
    <2>1. audit[i] \in Entry  BY DEF UInv, UserType, TypeOK
    <2>2. audit[i].actor \in Requests \ {r}  BY <2>1 DEF Entry, UInv, Logged, StepOf
    <2>3. input'[audit[i].actor] = input[audit[i].actor] /\ audit' = audit
      BY <2>2 DEF StepOf, db
    <2>4. Gives(audit[i].actor, field)'  BY <1>2, <2>3 DEF Gives
    <2> QED  BY <1>2, <2>3, <2>4 DEF Came
  <1> QED  BY <1>1, <1>2 DEF Came

\* A step that commits nothing keeps the invariant if it keeps what is said of its request.
LEMMA LocalStep ==
  ASSUME UInv, UserType', NEW r \in Requests, StepOf(r), UNCHANGED db,
         Progress(r)', Locked(r)', Given(r)', Answered(r)',
         \A s \in Requests : Exclusive(r, s)' /\ Exclusive(s, r)'
  PROVE  UInv'
  <1>1. ASSUME NEW s \in Requests \ {r}
        PROVE  Progress(s)' /\ Locked(s)' /\ Given(s)' /\ Answered(s)'
    <2>1. /\ pc'[s] = pc[s] /\ input'[s] = input[s] /\ seen'[s] = seen[s]
          /\ tx'[s] = tx[s] /\ resp'[s] = resp[s] /\ users' = users /\ audit' = audit
      BY DEF StepOf, db
    <2>2. Progress(s) /\ Locked(s) /\ Given(s) /\ Answered(s)  BY DEF UInv
    <2>3. Target(s)' = Target(s)  BY <2>1 DEF Target
    <2>4. Progress(s)'  BY <2>1, <2>2, <2>3 DEF Progress
    <2>5. Locked(s)'  BY <2>1, <2>2, <2>3 DEF Locked, Row, UsersWith
    <2>6. Given(s)'
      <3>1. ASSUME NEW field \in Fields, NEW id, NEW value, Came(id, field, value),
                   id = Target(s), value = seen[s][field]
            PROVE  Came(Target(s), field, seen[s][field])'
        <4>1. Came(id, field, value)'  BY <3>1, CameStays
        <4>2. Target(s)' = id /\ seen'[s][field] = value  BY <2>1, <2>3, <3>1
        <4> QED  BY <4>1, <4>2 DEF Came
      <3>2. \A field \in Fields : Came(Target(s), field, seen[s][field]) =>
                                  Came(Target(s), field, seen[s][field])'
        BY <3>1
      <3> QED  BY <2>1, <2>2, <2>3, <3>2 DEF Given, Gives
    <2>7. Answered(s)'  BY <2>1, <2>2 DEF Answered
    <2> QED  BY <2>4, <2>5, <2>6, <2>7
  <1>2. ASSUME NEW s \in Requests, NEW t \in Requests PROVE Exclusive(s, t)'
    <2>1. CASE s = r \/ t = r  BY <2>1
    <2>2. CASE s # r /\ t # r
      <3>1. /\ tx'[s] = tx[s] /\ tx'[t] = tx[t] /\ seen'[s] = seen[s] /\ seen'[t] = seen[t]
            /\ input'[s] = input[s] /\ input'[t] = input[t]
        BY <2>2 DEF StepOf
      <3>2. Exclusive(s, t)  BY DEF UInv
      <3> QED  BY <3>1, <3>2 DEF Exclusive, HoldsRow, Target
    <2> QED  BY <2>1, <2>2
  <1>3. Rows'
    <2>1. \A u \in users : u.id \in Ids  BY DEF UInv, UserType, TypeOK, User
    <2> QED  BY <2>1 DEF UInv, Rows, StepOf, db, Ids
  <1>4. ASSUME NEW i \in DOMAIN audit' PROVE Logged(i)'
    <2>1. i \in DOMAIN audit /\ audit' = audit /\ users' = users  BY DEF db
    <2>2. audit[i] \in Entry /\ Logged(i)  BY <2>1 DEF UInv, UserType, TypeOK
    <2>3. audit[i].actor \in Requests \ {r} /\ (audit[i].id \in Seeded \/ audit[i].id \in Requests \ {r})
      BY <2>2 DEF Entry, Ids, Logged, StepOf
    <2> QED  BY <2>1, <2>2, <2>3 DEF Logged, StepOf, Row
  <1>5. OneEntry'  BY DEF UInv, OneEntry, db
  <1>6. ASSUME NEW u \in users' PROVE Kept(u)'
    <2>1. u \in users /\ audit' = audit  BY DEF db
    <2>2. Kept(u)  BY <2>1 DEF UInv
    <2> SUFFICES ASSUME NEW field \in Fields
                 PROVE  /\ Came(u.id, field, u[field])'
                        /\ \A i \in DOMAIN audit :
                             /\ audit[i].id = u.id /\ Gives(audit[i].actor, field)'
                             /\ \A j \in DOMAIN audit : audit[j].id = u.id => j <= i
                             => u[field] = input'[audit[i].actor][field]
      BY <2>1 DEF Kept
    <2>3. Came(u.id, field, u[field])'  BY <2>2, CameStays DEF Kept
    <2>4. ASSUME NEW i \in DOMAIN audit
          PROVE  input'[audit[i].actor] = input[audit[i].actor]
                 /\ (Gives(audit[i].actor, field)' <=> Gives(audit[i].actor, field))
      <3>1. audit[i] \in Entry /\ Logged(i)  BY DEF UInv, UserType, TypeOK
      <3>2. audit[i].actor \in Requests \ {r}  BY <3>1 DEF Entry, Logged, StepOf
      <3> QED  BY <2>1, <3>2 DEF Gives, StepOf
    <2> QED  BY <2>2, <2>3, <2>4 DEF Kept
  <1>7. \A s \in Requests : Progress(s)' /\ Locked(s)' /\ Given(s)' /\ Answered(s)'  BY <1>1
  <1> QED  BY <1>2, <1>3, <1>4, <1>5, <1>6, <1>7 DEF UInv

-----------------------------------------------------------------------------
\* A handler that gives up, or is refused, keeps the invariant.
LEMMA GiveUp ==
  ASSUME UInv, NEW r \in Requests, pc[r] # "done", UNCHANGED db,
         NEW in \in Calls \cup {Nil}, NEW word \in Words \ {"ok"}, NEW user \in User \cup {Nil},
         FinishWith(r, in, word, user)
  PROVE  UInv'
  <1>1. /\ pc' = [pc EXCEPT ![r] = "done"] /\ input' = [input EXCEPT ![r] = in]
        /\ seen' = [seen EXCEPT ![r] = Nil] /\ tx' = [tx EXCEPT ![r] = NoTx]
        /\ resp' = [resp EXCEPT ![r] = [word |-> word, user |-> user]]
    BY DEF FinishWith, Goto
  <1>2. UserType'
    <2>1. [word |-> word, user |-> user] \in Answers  BY DEF Answers
    <2>2. tx' \in [Requests -> Tx] /\ resp' \in [Requests -> Answers]
      BY <1>1, <2>1, NoTxFields DEF UInv, UserType
    <2>3. \A s \in Requests :
            /\ tx'[s].wrote \in {"none", "locked", "insert", "update", "delete"}
            /\ tx'[s].entries = <<>> \/ \E e \in Entry : tx'[s].entries = <<e>>
            /\ resp'[s].user \in User \cup {Nil}
      BY <2>2 DEF Tx, Answers
    <2> QED  BY <1>1, <2>2, <2>3 DEF UInv, UserType, TypeOK, db
  <1>3. StepOf(r)  BY <1>1 DEF UInv, UserType, TypeOK, StepOf
  <1>4. pc'[r] = "done" /\ seen'[r] = Nil /\ tx'[r] = NoTx /\ resp'[r].word = word
    BY <1>1 DEF UInv, UserType, TypeOK
  <1>5. Progress(r)' /\ Given(r)' /\ Answered(r)' /\ Locked(r)'
    BY <1>4, NoTxFields DEF Progress, Given, Answered, Locked, InTx
  <1>6. \A s \in Requests : Exclusive(r, s)' /\ Exclusive(s, r)'
    BY <1>4, NoTxFields DEF Exclusive, HoldsRow
  <1> QED  BY <1>2, <1>3, <1>5, <1>6, LocalStep

\* A handler that goes on after its first statement: it has written nothing.
LEMMA Begin ==
  ASSUME UInv, NEW r \in Requests, pc[r] = "idle", r \notin Anonymous, UNCHANGED db,
         NEW in \in Calls, NEW user \in User \cup {Nil}, NEW statement,
         Continue(r, in, user, statement),
         \/ in.op = "create" /\ statement = "insertUser" /\ user \in User /\ user.id = r
         \/ in.op = "update" /\ statement = "lockRow" /\ user \in User /\ user.id = in.id
         \/ in.op = "delete" /\ statement = "deleteUser",
         in.op \in {"create", "update"} => \A field \in Fields :
           /\ in.op = "create" \/ in[field] # Nil => user[field] = in[field]
           /\ in.op # "create" /\ in[field] = Nil => Came(in.id, field, user[field])
  PROVE  UInv'
  <1>1. /\ pc' = [pc EXCEPT ![r] = statement] /\ input' = [input EXCEPT ![r] = in]
        /\ seen' = [seen EXCEPT ![r] = user] /\ UNCHANGED <<tx, resp>>
    BY DEF Continue, Goto
  <1>2. statement \in InTx /\ statement \notin {"idle", "done", "indexEmail", "audit", "commit"}
    BY DEF InTx
  <1>3. UserType'  BY <1>1, <1>2 DEF UInv, UserType, TypeOK, db
  <1>4. StepOf(r)  BY <1>1 DEF UInv, UserType, TypeOK, StepOf
  <1>5. /\ pc'[r] = statement /\ seen'[r] = user /\ tx'[r] = NoTx /\ input'[r] = in
        /\ resp'[r].word = "none"
    <2>1. Progress(r) /\ Answered(r)  BY DEF UInv
    <2>2. tx[r] = NoTx /\ resp[r].word = "none"  BY <2>1 DEF Progress, Answered
    <2> QED  BY <1>1, <2>2 DEF UInv, UserType, TypeOK
  <1>6. Progress(r)'
    <2>1. Target(r)' = IF in.op = "create" THEN r ELSE in.id  BY <1>5 DEF Target
    <2> QED  BY <1>2, <1>5, <2>1, NoTxFields DEF Progress
  <1>7. Given(r)'
    <2> SUFFICES ASSUME in.op \in {"create", "update"}, NEW field \in Fields
                 PROVE  /\ Gives(r, field)' => user[field] = in[field]
                        /\ ~Gives(r, field)' => Came(Target(r), field, seen[r][field])'
      BY <1>5 DEF Given
    <2>1. Gives(r, field)' <=> in.op = "create" \/ in[field] # Nil  BY <1>5 DEF Gives
    <2>2. ASSUME in.op # "create", in[field] = Nil
          PROVE  Came(Target(r), field, seen[r][field])'
      <3>1. PICK value : value = user[field]  OBVIOUS
      <3>2. PICK id : id = in.id  OBVIOUS
      <3>3. Came(id, field, value)  BY <2>2, <3>1, <3>2
      <3>4. Came(id, field, value)'  BY <3>3, <1>4, CameStays
      <3>5. Target(r)' = id /\ seen'[r][field] = value  BY <1>5, <2>2, <3>1, <3>2 DEF Target
      <3> QED  BY <3>4, <3>5 DEF Came
    <2> QED  BY <2>1, <2>2
  <1>8. Answered(r)' /\ Locked(r)'
    BY <1>2, <1>5, NoTxFields DEF Answered, Locked
  <1>9. \A s \in Requests : Exclusive(r, s)' /\ Exclusive(s, r)'
    BY <1>5, NoTxFields DEF Exclusive, HoldsRow
  <1> QED  BY <1>3, <1>4, <1>6, <1>7, <1>8, <1>9, LocalStep

\* A statement that writes keeps the invariant if nobody else holds what it writes.
LEMMA Write ==
  ASSUME UInv, NEW r \in Requests, pc[r] \in InTx, UNCHANGED db,
         NEW what \in {"locked", "insert", "update", "delete"}, NEW statement,
         Wrote(r, what, statement),
         \/ pc[r] = "insertUser" /\ what = "insert" /\ statement = "audit"
         \/ pc[r] = "lockRow" /\ what = "locked" /\ statement = "indexEmail"
         \/ pc[r] = "indexEmail" /\ what = "update" /\ statement = "audit"
         \/ pc[r] = "deleteUser" /\ what = "delete" /\ statement = "audit",
         what \in {"locked", "delete"} =>
           Row(Target(r)) # {} /\ \A s \in Requests \ {r} : ~HoldsRow(s, Target(r)),
         what \in {"insert", "update"} =>
           \A s \in Requests \ {r} : tx[s].wrote \in {"insert", "update"} => seen[s].email # seen[r].email,
         what = "insert" => UsersWith(seen[r].email) = {},
         what = "update" => \A u \in UsersWith(seen[r].email) : u.id = Target(r)
  PROVE  UInv'
  <1>1. tx' = [tx EXCEPT ![r].wrote = what] /\ pc' = [pc EXCEPT ![r] = statement]
        /\ UNCHANGED <<input, seen, resp>>
    BY DEF Wrote, Goto
  <1>2. statement \in {"audit", "indexEmail"} /\ statement \in InTx  BY DEF InTx
  <1>3. tx[r] \in Tx /\ Progress(r) /\ Locked(r) /\ Given(r) /\ Answered(r)  BY DEF UInv, UserType
  <1>4. tx'[r] = [tx[r] EXCEPT !.wrote = what] /\ pc'[r] = statement  BY <1>1 DEF UInv, UserType, TypeOK
  <1>5. tx'[r] \in Tx /\ tx'[r].wrote = what /\ tx'[r].entries = tx[r].entries
    BY <1>3, <1>4 DEF Tx
  <1>6. UserType'
    <2>1. tx' \in [Requests -> Tx]  BY <1>1, <1>4, <1>5 DEF UInv, UserType
    <2>2. \A s \in Requests :
            /\ tx'[s].wrote \in {"none", "locked", "insert", "update", "delete"}
            /\ tx'[s].entries = <<>> \/ \E e \in Entry : tx'[s].entries = <<e>>
      BY <2>1 DEF Tx
    <2> QED  BY <1>1, <1>2, <2>1, <2>2 DEF UInv, UserType, TypeOK, db
  <1>7. pc[r] # "done"  BY DEF InTx
  <1>8. StepOf(r)  BY <1>1, <1>7 DEF UInv, UserType, TypeOK, StepOf
  <1>9. Target(r)' = Target(r)  BY <1>1 DEF Target
  <1>10. Progress(r)'
    <2>1. tx'[r].entries = <<>>  BY <1>3, <1>5 DEF Progress
    <2> QED  BY <1>1, <1>2, <1>3, <1>4, <1>5, <1>9, <2>1 DEF Progress
  <1>11. Given(r)'
    <2>1. ASSUME NEW field \in Fields, NEW id, NEW value, Came(id, field, value),
                 id = Target(r), value = seen[r][field]
          PROVE  Came(Target(r), field, seen[r][field])'
      <3>1. Came(id, field, value)'  BY <2>1, <1>8, CameStays
      <3> QED  BY <1>1, <1>9, <2>1, <3>1 DEF Came
    <2> QED  BY <1>1, <1>3, <1>9, <2>1 DEF Given, Gives
  <1>12. Answered(r)'  BY <1>1, <1>3, <1>7, <1>2, <1>4 DEF Answered, db
  <1>13. Locked(r)'
    <2>1. what = "update" => tx[r].wrote = "locked"  BY <1>3 DEF Progress
    <2> QED  BY <1>1, <1>3, <1>5, <1>9, <2>1 DEF Locked, Row, UsersWith, db
  <1>14. ASSUME NEW s \in Requests PROVE Exclusive(r, s)' /\ Exclusive(s, r)'
    <2>1. CASE s = r  BY <2>1 DEF Exclusive
    <2>2. CASE s # r
      <3>1. tx'[s] = tx[s] /\ Target(s)' = Target(s)  BY <1>1, <2>2 DEF UInv, UserType, Target
      <3>2. Exclusive(r, s) /\ Exclusive(s, r)  BY DEF UInv
      <3>3. what = "update" => tx[r].wrote = "locked"  BY <1>3 DEF Progress
      <3> QED  BY <1>1, <1>5, <1>9, <2>2, <3>1, <3>2, <3>3 DEF Exclusive, HoldsRow
    <2> QED  BY <2>1, <2>2
  <1> QED  BY <1>6, <1>8, <1>10, <1>11, <1>12, <1>13, <1>14, LocalStep

-----------------------------------------------------------------------------
\* applyUpdateFieldsToUser replaces what is given, and nothing else.
LEMMA ApplyFields ==
  ASSUME NEW u \in User, NEW in \in UpdateInput
  PROVE  /\ ApplyUpdateFields(u, in) \in User /\ ApplyUpdateFields(u, in).id = u.id
         /\ \A field \in Fields : ApplyUpdateFields(u, in)[field] =
                                    IF in[field] = Nil THEN u[field] ELSE in[field]
  BY DEF ApplyUpdateFields, User, UpdateInput, Fields

LEMMA ReceiveStep ==
  ASSUME UInv, NEW r \in Requests, Receive(r)
  PROVE  UInv'
  <1>1. UNCHANGED db /\ pc[r] = "idle"
    BY DEF Receive, MissingActor, CreateUser, UpdateUser, DeleteUser, Login, PrepareAuditTx
  <1>2. pc[r] # "done" /\ \A op \in {"create", "update", "delete", "login"} : Asked(op) \subseteq Calls
    BY <1>1 DEF Asked
  <1>3. CASE MissingActor(r)
    <2>1. PICK in \in Calls : FinishWith(r, in, "missingActor", Nil)
      BY <1>2, <1>3 DEF MissingActor
    <2> QED  BY <1>1, <1>2, <2>1, GiveUp DEF Words
  <1>4. CASE CreateUser(r)
    <2>1. PICK in \in Asked("create") :
            \/ FinishWith(r, in, "duplicate", Nil)
            \/ Continue(r, in, [id |-> r, email |-> in.email, role |-> in.role,
                                password |-> in.password], "insertUser")
      BY <1>4 DEF CreateUser
    <2>2. in \in Calls /\ in.op = "create" /\ r \notin Anonymous
      BY <1>4 DEF Asked, CreateUser, PrepareAuditTx
    <2>3. CASE FinishWith(r, in, "duplicate", Nil)  BY <1>1, <1>2, <2>2, <2>3, GiveUp DEF Words
    <2> DEFINE user == [id |-> r, email |-> in.email, role |-> in.role, password |-> in.password]
    <2>4. CASE Continue(r, in, user, "insertUser")
      <3>1. in \in CreateInput  BY <2>2, CallFields
      <3>2. user \in User /\ user.id = r /\ \A field \in Fields : user[field] = in[field]
        BY <3>1 DEF CreateInput, User, Ids, Fields
      <3> HIDE DEF user
      <3> QED  BY <1>1, <2>2, <2>4, <3>2, Begin
    <2> QED  BY <2>1, <2>3, <2>4
  <1>5. CASE UpdateUser(r)
    <2>1. PICK in \in Asked("update") :
            \/ FinishWith(r, in, "notFound", Nil)
            \/ \E u \in Row(in.id) : Continue(r, in, ApplyUpdateFields(u, in), "lockRow")
      BY <1>5 DEF UpdateUser
    <2>2. in \in Calls /\ in.op = "update" /\ r \notin Anonymous /\ in \in UpdateInput
      BY <1>5, CallFields DEF Asked, UpdateUser, PrepareAuditTx
    <2>3. CASE FinishWith(r, in, "notFound", Nil)  BY <1>1, <1>2, <2>2, <2>3, GiveUp DEF Words
    <2>4. ASSUME NEW u \in Row(in.id), Continue(r, in, ApplyUpdateFields(u, in), "lockRow")
          PROVE  UInv'
      <3>1. u \in users /\ u.id = in.id /\ u \in User  BY DEF Row, UInv, UserType, TypeOK
      <3>2. \A field \in Fields : Came(in.id, field, u[field])  BY <3>1 DEF UInv, Kept
      <3>3. PICK user \in User : user = ApplyUpdateFields(u, in)  BY <2>2, <3>1, ApplyFields
      <3>4. user.id = in.id /\ \A field \in Fields :
                                 user[field] = IF in[field] = Nil THEN u[field] ELSE in[field]
        BY <2>2, <3>1, <3>3, ApplyFields
      <3>5. Continue(r, in, user, "lockRow")  BY <2>4, <3>3
      <3> QED  BY <1>1, <2>2, <3>2, <3>4, <3>5, Begin
    <2> QED  BY <2>1, <2>3, <2>4
  <1>6. CASE DeleteUser(r)
    <2>1. PICK in \in Asked("delete") : Continue(r, in, Nil, "deleteUser")
      BY <1>6 DEF DeleteUser
    <2>2. in \in Calls /\ in.op = "delete" /\ r \notin Anonymous
      BY <1>6 DEF Asked, DeleteUser, PrepareAuditTx
    <2> QED  BY <1>1, <2>1, <2>2, Begin
  <1>7. CASE Login(r)
    <2>1. PICK in \in Asked("login") :
            \/ FinishWith(r, in, "invalidCredentials", Nil)
            \/ \E u \in UsersWith(in.email) : FinishWith(r, in, "loggedIn", u)
      BY <1>7 DEF Login
    <2>2. in \in Calls /\ UsersWith(in.email) \subseteq User
      BY DEF Asked, UsersWith, UInv, UserType, TypeOK
    <2> QED  BY <1>1, <1>2, <2>1, <2>2, GiveUp DEF Words
  <1> QED  BY <1>3, <1>4, <1>5, <1>6, <1>7 DEF Receive

\* Who gives up with what it was called with.
LEMMA FinishStep ==
  ASSUME UInv, NEW r \in Requests, pc[r] # "done", UNCHANGED db,
         NEW word \in Words \ {"ok"}, Finish(r, word)
  PROVE  UInv'
  <1>1. input[r] \in Calls \cup {Nil}  BY DEF UInv, UserType, TypeOK
  <1> QED  BY <1>1, GiveUp DEF Finish

LEMMA StatementStep ==
  ASSUME UInv, NEW r \in Requests, InsertUser(r) \/ LockRow(r) \/ IndexEmail(r) \/ DeleteRow(r)
  PROVE  UInv'
  <1>1. UNCHANGED db /\ pc[r] \in {"insertUser", "lockRow", "indexEmail", "deleteUser"}
    BY DEF InsertUser, LockRow, IndexEmail, DeleteRow, Execute
  <1>2. pc[r] # "done" /\ pc[r] \in InTx  BY <1>1 DEF InTx
  <1>3. Progress(r) /\ Locked(r)  BY DEF UInv
  <1>4. \A s \in Requests \ {r} : ~Blocks(s, r)
    BY DEF InsertUser, LockRow, IndexEmail, DeleteRow, Execute, WaitsFor
  <1>5. input[r].op \in {"create", "update"} => seen[r] \in User /\ seen[r].id = Target(r)
    BY <1>2, <1>3 DEF Progress
  <1>6. CASE InsertUser(r)
    <2>1. CASE Finish(r, "wrappedDuplicate")  BY <1>1, <1>2, <2>1, FinishStep DEF Words
    <2>2. CASE UsersWith(seen[r].email) = {} /\ Wrote(r, "insert", "audit")
      <3>1. pc[r] = "insertUser"  BY <1>6 DEF InsertUser, Execute
      <3>2. \A s \in Requests \ {r} :
              tx[s].wrote \in {"insert", "update"} => seen[s].email # seen[r].email
        BY <1>4, <3>1 DEF Blocks, HoldsEmail
      <3> QED  BY <1>1, <1>2, <2>2, <3>1, <3>2, Write
    <2> QED  BY <1>6, <2>1, <2>2 DEF InsertUser
  <1>7. CASE LockRow(r)
    <2>1. CASE Finish(r, "wrappedNotFound")  BY <1>1, <1>2, <2>1, FinishStep DEF Words
    <2>2. CASE Row(seen[r].id) # {} /\ Wrote(r, "locked", "indexEmail")
      <3>1. pc[r] = "lockRow"  BY <1>7 DEF LockRow, Execute
      <3>2. seen[r].id = Target(r)  BY <1>3, <1>5, <3>1 DEF Progress
      <3>3. \A s \in Requests \ {r} : ~HoldsRow(s, Target(r))  BY <1>4, <3>1 DEF Blocks
      <3> QED  BY <1>1, <1>2, <2>2, <3>1, <3>2, <3>3, Write
    <2> QED  BY <1>7, <2>1, <2>2 DEF LockRow
  <1>8. CASE IndexEmail(r)
    <2>1. CASE Finish(r, "error")  BY <1>1, <1>2, <2>1, FinishStep DEF Words
    <2>2. CASE ~(NewEmail(r) /\ UsersWith(seen[r].email) # {}) /\ Wrote(r, "update", "audit")
      <3>1. pc[r] = "indexEmail"  BY <1>8 DEF IndexEmail, Execute
      <3>2. /\ tx[r].wrote = "locked" /\ seen[r].id = Target(r) /\ Row(Target(r)) # {}
        BY <1>3, <1>5, <3>1 DEF Progress, Locked
      <3>3. CASE NewEmail(r)
        <4>1. \A s \in Requests \ {r} :
                tx[s].wrote \in {"insert", "update"} => seen[s].email # seen[r].email
          BY <1>4, <3>1, <3>3 DEF Blocks, HoldsEmail
        <4> QED  BY <1>1, <1>2, <2>2, <3>1, <3>3, <4>1, Write
      <3>4. CASE ~NewEmail(r)
        <4>1. PICK u \in users : u.id = Target(r) /\ u.email = seen[r].email
          BY <3>2, <3>4 DEF NewEmail, Row
        <4>2. \A v \in UsersWith(seen[r].email) : v.id = Target(r)
          BY <4>1 DEF UInv, Rows, UsersWith
        <4>3. ASSUME NEW s \in Requests \ {r}, tx[s].wrote \in {"insert", "update"},
                     seen[s].email = seen[r].email
              PROVE  FALSE
          <5>1. Locked(s) /\ Exclusive(r, s)  BY DEF UInv
          <5>2. u \in UsersWith(seen[s].email)  BY <4>1, <4>3 DEF UsersWith
          <5>3. tx[s].wrote = "update" /\ Target(s) = Target(r)
            BY <4>1, <4>3, <5>1, <5>2 DEF Locked
          <5> QED  BY <3>2, <5>1, <5>3 DEF Exclusive, HoldsRow
        <4> QED  BY <1>1, <1>2, <2>2, <3>1, <4>2, <4>3, Write
      <3> QED  BY <3>3, <3>4
    <2> QED  BY <1>8, <2>1, <2>2 DEF IndexEmail
  <1>9. CASE DeleteRow(r)
    <2>1. CASE Finish(r, "false")  BY <1>1, <1>2, <2>1, FinishStep DEF Words
    <2>2. CASE Row(Target(r)) # {} /\ Wrote(r, "delete", "audit")
      <3>1. pc[r] = "deleteUser"  BY <1>9 DEF DeleteRow, Execute
      <3>2. \A s \in Requests \ {r} : ~HoldsRow(s, Target(r))  BY <1>4, <3>1 DEF Blocks
      <3> QED  BY <1>1, <1>2, <2>2, <3>1, <3>2, Write
    <2> QED  BY <1>9, <2>1, <2>2 DEF DeleteRow
  <1> QED  BY <1>6, <1>7, <1>8, <1>9

LEMMA AuditStep ==
  ASSUME UInv, NEW r \in Requests, AuditCreate(r)
  PROVE  UInv'
  <1> DEFINE e == [action |-> input[r].op, id |-> Target(r), actor |-> r]
  <1>1. /\ pc[r] = "audit" /\ tx' = [tx EXCEPT ![r].entries = <<e>>]
        /\ pc' = [pc EXCEPT ![r] = "commit"] /\ UNCHANGED <<db, input, seen, resp>>
    BY DEF AuditCreate, Execute, Goto
  <1>2. pc[r] \in InTx /\ "commit" \in InTx  BY <1>1 DEF InTx
  <1>3. tx[r] \in Tx /\ Progress(r) /\ Locked(r) /\ Given(r) /\ Answered(r)  BY DEF UInv, UserType
  <1>4. e \in Entry  BY <1>2, <1>3, TargetId DEF UInv, Progress, Entry
  <1> HIDE DEF e
  <1>5. tx'[r] \in Tx /\ tx'[r].wrote = tx[r].wrote /\ tx'[r].entries = <<e>>
    BY <1>1, <1>3, <1>4 DEF Tx, UInv, UserType
  <1>6. UserType'
    <2>1. tx' \in [Requests -> Tx]  BY <1>1, <1>5 DEF UInv, UserType
    <2>2. \A s \in Requests :
            /\ tx'[s].wrote \in {"none", "locked", "insert", "update", "delete"}
            /\ tx'[s].entries = <<>> \/ \E x \in Entry : tx'[s].entries = <<x>>
      BY <2>1 DEF Tx
    <2> QED  BY <1>1, <1>2, <2>1, <2>2 DEF UInv, UserType, TypeOK, db
  <1>7. StepOf(r)  BY <1>1 DEF UInv, UserType, TypeOK, StepOf
  <1>8. Target(r)' = Target(r) /\ pc'[r] = "commit"  BY <1>1 DEF Target, UInv, UserType, TypeOK
  <1>9. Progress(r)'
    <2>1. tx'[r].entries = <<[action |-> input[r].op, id |-> Target(r), actor |-> r]>>
      BY <1>5 DEF e
    <2> QED  BY <1>1, <1>2, <1>3, <1>5, <1>8, <2>1 DEF Progress
  <1>10. Given(r)'
    <2>1. ASSUME NEW field \in Fields, NEW id, NEW value, Came(id, field, value),
                 id = Target(r), value = seen[r][field]
          PROVE  Came(Target(r), field, seen[r][field])'
      <3>1. Came(id, field, value)'  BY <1>1, <1>7, <2>1, CameStays
      <3> QED  BY <1>1, <1>8, <2>1, <3>1 DEF Came
    <2> QED  BY <1>1, <1>2, <1>3, <1>8, <2>1 DEF Given, Gives
  <1>11. Answered(r)' /\ Locked(r)'
    BY <1>1, <1>3, <1>5, <1>8 DEF Answered, Locked, Row, UsersWith, db
  <1>12. ASSUME NEW s \in Requests PROVE Exclusive(r, s)' /\ Exclusive(s, r)'
    <2>1. CASE s = r  BY <2>1 DEF Exclusive
    <2>2. CASE s # r
      <3>1. tx'[s] = tx[s] /\ Target(s)' = Target(s) /\ seen' = seen
        BY <1>1, <2>2 DEF UInv, UserType, Target
      <3>2. Exclusive(r, s) /\ Exclusive(s, r)  BY DEF UInv
      <3> QED  BY <1>5, <1>8, <3>1, <3>2 DEF Exclusive, HoldsRow
    <2> QED  BY <2>1, <2>2
  <1> QED  BY <1>1, <1>6, <1>7, <1>9, <1>10, <1>11, <1>12, LocalStep

-----------------------------------------------------------------------------
\* The entry r logs when it commits, and the log with it.
NewEntry(r) == [action |-> input[r].op, id |-> Target(r), actor |-> r]

\* What a COMMIT does to the tables and to the handler.
LEMMA CommitEffect ==
  ASSUME UInv, NEW r \in Requests, Commit(r)
  PROVE  /\ audit' = Append(audit, NewEntry(r)) /\ NewEntry(r) \in Entry
         /\ input' = input /\ input[r] \in Calls /\ r \notin Anonymous
         /\ pc[r] = "commit" /\ pc'[r] = "done" /\ seen'[r] = Nil /\ tx'[r] = NoTx
         /\ resp'[r].word \in {"ok", "error"}
         /\ \A s \in Requests \ {r} :
              /\ pc'[s] = pc[s] /\ seen'[s] = seen[s] /\ tx'[s] = tx[s] /\ resp'[s] = resp[s]
         /\ \/ /\ input[r].op = "create" /\ tx[r].wrote = "insert" /\ Target(r) = r
               /\ \A u \in users : u.id # r /\ u.email # seen[r].email
               /\ users' = users \cup {seen[r]}
            \/ /\ input[r].op = "update" /\ tx[r].wrote = "update"
               /\ \E u \in users : u.id = Target(r) /\ users' = (users \ {u}) \cup {seen[r]}
               /\ \A u \in users : u.email = seen[r].email => u.id = Target(r)
            \/ /\ input[r].op = "delete" /\ tx[r].wrote = "delete"
               /\ \E u \in users : u.id = Target(r) /\ users' = users \ {u}
         /\ input[r].op \in {"create", "update"} => seen[r] \in User /\ seen[r].id = Target(r)
         /\ UserType'
  <1>1. pc[r] = "commit" /\ Apply(r) /\ \E word \in {"ok", "error"} : Finish(r, word)
    BY DEF Commit, Execute
  <1>2. PICK word \in {"ok", "error"} : Finish(r, word)  BY <1>1
  <1>3. /\ pc' = [pc EXCEPT ![r] = "done"] /\ input' = [input EXCEPT ![r] = input[r]]
        /\ seen' = [seen EXCEPT ![r] = Nil] /\ tx' = [tx EXCEPT ![r] = NoTx]
        /\ resp' = [resp EXCEPT ![r] = [word |-> word, user |-> Nil]]
    BY <1>2 DEF Finish, FinishWith, Goto
  <1>4. Progress(r) /\ Locked(r)  BY DEF UInv
  <1>5. pc[r] \in InTx  BY <1>1 DEF InTx
  <1>6. /\ input[r] \in Calls /\ r \notin Anonymous
        /\ tx[r].entries = <<NewEntry(r)>>
        /\ \/ input[r].op = "create" /\ tx[r].wrote = "insert"
           \/ input[r].op = "update" /\ tx[r].wrote = "update"
           \/ input[r].op = "delete" /\ tx[r].wrote = "delete"
        /\ input[r].op \in {"create", "update"} => seen[r] \in User /\ seen[r].id = Target(r)
    BY <1>1, <1>4, <1>5 DEF Progress, NewEntry
  <1>7. NewEntry(r) \in Entry
    <2>1. Target(r) \in Ids  BY <1>4, <1>5, TargetId DEF UInv
    <2> QED  BY <1>6, <2>1 DEF NewEntry, Entry
  <1>8. audit' = Append(audit, NewEntry(r))
    <2>1. audit' = audit \o <<NewEntry(r)>>  BY <1>1, <1>6 DEF Apply
    <2>2. audit \in Seq(Entry)  BY DEF UInv, UserType, TypeOK
    <2> QED  BY <1>7, <2>1, <2>2
  <1> HIDE DEF NewEntry
  <1>9. \/ /\ input[r].op = "create" /\ tx[r].wrote = "insert" /\ Target(r) = r
           /\ \A u \in users : u.id # r /\ u.email # seen[r].email
           /\ users' = users \cup {seen[r]}
        \/ /\ input[r].op = "update" /\ tx[r].wrote = "update"
           /\ \E u \in users : u.id = Target(r) /\ users' = (users \ {u}) \cup {seen[r]}
           /\ \A u \in users : u.email = seen[r].email => u.id = Target(r)
        \/ /\ input[r].op = "delete" /\ tx[r].wrote = "delete"
           /\ \E u \in users : u.id = Target(r) /\ users' = users \ {u}
    <2>1. CASE input[r].op = "create" /\ tx[r].wrote = "insert"
      <3>1. Target(r) = r  BY <2>1 DEF Target
      <3>2. \A u \in users : u.id # r
        BY <1>1, ServiceAssumption DEF UInv, Rows
      <3>3. \A u \in users : u.email # seen[r].email  BY <1>4, <2>1 DEF Locked, UsersWith
      <3>4. {u \in users : u.id # Target(r)} = users  BY <3>1, <3>2
      <3> QED  BY <1>1, <2>1, <3>1, <3>2, <3>3, <3>4 DEF Apply
    <2>2. CASE input[r].op \in {"update", "delete"} /\ tx[r].wrote \in {"update", "delete"}
      <3>1. PICK u \in users : u.id = Target(r)  BY <1>4, <2>2 DEF Locked, Row
      <3>2. {v \in users : v.id # Target(r)} = users \ {u}  BY <3>1 DEF UInv, Rows
      <3>3. tx[r].wrote = "update" => \A v \in users : v.email = seen[r].email => v.id = Target(r)
        BY <1>4 DEF Locked, UsersWith
      <3> QED  BY <1>1, <1>6, <2>2, <3>1, <3>2, <3>3 DEF Apply
    <2> QED  BY <1>6, <2>1, <2>2
  <1>10. UserType'
    <2>1. [word |-> word, user |-> Nil] \in Answers  BY DEF Answers, Words
    <2>2. tx' \in [Requests -> Tx] /\ resp' \in [Requests -> Answers]
      BY <1>3, <2>1, NoTxFields DEF UInv, UserType
    <2>3. \A s \in Requests :
            /\ tx'[s].wrote \in {"none", "locked", "insert", "update", "delete"}
            /\ tx'[s].entries = <<>> \/ \E e \in Entry : tx'[s].entries = <<e>>
            /\ resp'[s].user \in User \cup {Nil}
      BY <2>2 DEF Tx, Answers
    <2>4. users' \subseteq User  BY <1>6, <1>9 DEF UInv, UserType, TypeOK
    <2>5. audit' \in Seq(Entry)  BY <1>7, <1>8 DEF UInv, UserType, TypeOK
    <2> QED  BY <1>3, <2>2, <2>3, <2>4, <2>5 DEF UInv, UserType, TypeOK
  <1>11. /\ input' = input /\ pc'[r] = "done" /\ seen'[r] = Nil /\ tx'[r] = NoTx
         /\ resp'[r].word \in {"ok", "error"}
         /\ \A s \in Requests \ {r} :
              /\ pc'[s] = pc[s] /\ seen'[s] = seen[s] /\ tx'[s] = tx[s] /\ resp'[s] = resp[s]
    BY <1>3 DEF UInv, UserType, TypeOK
  <1> QED  BY <1>1, <1>6, <1>7, <1>8, <1>9, <1>10, <1>11

\* The log after a COMMIT: the old entries where they were, and the new one.
LEMMA LogAfter ==
  ASSUME UInv, NEW r \in Requests, Commit(r), NEW n, n = Len(audit) + 1
  PROVE  /\ n \in Nat /\ n \in DOMAIN audit' /\ n \notin DOMAIN audit
         /\ \A i \in DOMAIN audit' : i \in Nat /\ i <= n /\ (i \in DOMAIN audit \/ i = n)
         /\ \A i \in DOMAIN audit : i \in DOMAIN audit' /\ audit'[i] = audit[i] /\ audit[i] \in Entry
         /\ audit'[n] = NewEntry(r) /\ audit'[n].actor = r /\ audit'[n].id = Target(r)
         /\ audit'[n].action = input[r].op
  <1>1. audit \in Seq(Entry) /\ NewEntry(r) \in Entry /\ audit' = Append(audit, NewEntry(r))
    BY CommitEffect DEF UInv, UserType, TypeOK
  <1>2. /\ Len(audit) \in Nat /\ DOMAIN audit = 1..Len(audit)
        /\ DOMAIN audit' = 1..(Len(audit) + 1) /\ audit'[n] = NewEntry(r)
        /\ \A i \in DOMAIN audit : audit'[i] = audit[i] /\ audit[i] \in Entry
    BY <1>1
  <1>3. NewEntry(r).actor = r /\ NewEntry(r).id = Target(r) /\ NewEntry(r).action = input[r].op
    BY DEF NewEntry
  <1> HIDE DEF NewEntry
  <1> QED  BY <1>2, <1>3

\* What was given stays given.
LEMMA CameOn ==
  ASSUME UInv, NEW r \in Requests, Commit(r), NEW id, NEW field, NEW value, Came(id, field, value)
  PROVE  Came(id, field, value)'
  <1>1. CASE id \in Seeded /\ value = SeedRow[id][field]  BY <1>1 DEF Came
  <1>2. ASSUME NEW i \in DOMAIN audit, audit[i].id = id, audit[i].action # "delete",
               Gives(audit[i].actor, field), input[audit[i].actor][field] = value
        PROVE  Came(id, field, value)'
    <2>1. i \in DOMAIN audit' /\ audit'[i] = audit[i] /\ input' = input
      BY <1>2, LogAfter, CommitEffect
    <2>2. Gives(audit[i].actor, field)'  BY <1>2, <2>1 DEF Gives
    <2> QED  BY <1>2, <2>1, <2>2 DEF Came
  <1> QED  BY <1>1, <1>2 DEF Came

LEMMA CommitStep ==
  ASSUME UInv, NEW r \in Requests, Commit(r)
  PROVE  UInv'
  <1> DEFINE n == Len(audit) + 1
  <1>log. /\ n \in Nat /\ n \in DOMAIN audit' /\ n \notin DOMAIN audit
          /\ \A i \in DOMAIN audit' : i \in Nat /\ i <= n /\ (i \in DOMAIN audit \/ i = n)
          /\ \A i \in DOMAIN audit : i \in DOMAIN audit' /\ audit'[i] = audit[i] /\ audit[i] \in Entry
          /\ audit'[n].actor = r /\ audit'[n].id = Target(r) /\ audit'[n].action = input[r].op
    BY LogAfter
  <1> HIDE DEF n
  <1>0. pc[r] = "commit" /\ pc[r] \in InTx /\ input' = input /\ Progress(r) /\ Locked(r) /\ Given(r)
    BY CommitEffect DEF InTx, UInv
  <1>1. UserType'  BY CommitEffect
  <1>2. \A u \in users' : u \in users \/ (u = seen[r] /\ u.id = Target(r) /\ input[r].op \in {"create", "update"})
    BY CommitEffect
  <1>3. \A u \in users : u.id # Target(r) => u \in users'  BY CommitEffect
  <1>4. \A s \in Requests : Target(s)' = Target(s)  BY <1>0 DEF Target
  <1>5. ASSUME NEW s \in Requests PROVE Progress(s)'
    <2>1. CASE s = r  BY <2>1, CommitEffect, NoTxFields DEF Progress, InTx
    <2>2. CASE s # r
      <3>1. Progress(s)  BY DEF UInv
      <3>2. pc'[s] = pc[s] /\ seen'[s] = seen[s] /\ tx'[s] = tx[s]  BY <2>2, CommitEffect
      <3> QED  BY <1>0, <1>4, <3>1, <3>2 DEF Progress
    <2> QED  BY <2>1, <2>2
  <1>6. ASSUME NEW s \in Requests PROVE Locked(s)'
    <2>1. CASE s = r  BY <2>1, CommitEffect, NoTxFields DEF Locked
    <2>2. CASE s # r
      <3>1. Locked(s) /\ Exclusive(r, s) /\ Exclusive(s, r) /\ tx'[s] = tx[s] /\ seen'[s] = seen[s]
        BY <2>2, CommitEffect DEF UInv
      <3>2. ASSUME tx[s].wrote \in {"locked", "update", "delete"} PROVE (Row(Target(s)) # {})'
        <4>1. PICK u \in users : u.id = Target(s)  BY <3>1, <3>2 DEF Locked, Row
        <4>2. CASE tx[r].wrote = "insert"
          <5>1. u \in users'  BY <4>2, CommitEffect
          <5> QED  BY <1>4, <4>1, <5>1 DEF Row
        <4>3. CASE tx[r].wrote \in {"update", "delete"}
          <5>1. Target(s) # Target(r)  BY <2>2, <3>1, <3>2, <4>3 DEF Exclusive, HoldsRow
          <5>2. u \in users'  BY <1>3, <4>1, <5>1
          <5> QED  BY <1>4, <4>1, <5>2 DEF Row
        <4> QED  BY <4>2, <4>3, CommitEffect
      <3>3. ASSUME tx[s].wrote \in {"insert", "update"}, input[r].op \in {"create", "update"}
            PROVE  seen[r].email # seen[s].email
        <4>1. tx[r].wrote \in {"insert", "update"}  BY <3>3, CommitEffect
        <4> QED  BY <2>2, <3>1, <3>3, <4>1 DEF Exclusive
      <3>4. tx[s].wrote \in {"insert", "update"} =>
              \A u \in users' : u.email = seen[s].email => u \in users
        BY <1>2, <3>3
      <3> QED  BY <1>4, <3>1, <3>2, <3>4 DEF Locked, UsersWith
    <2> QED  BY <2>1, <2>2
  <1>7. ASSUME NEW s \in Requests PROVE Given(s)'
    <2>1. CASE s = r  BY <2>1, CommitEffect DEF Given, InTx
    <2>2. CASE s # r
      <3>1. ASSUME NEW field \in Fields, NEW id, NEW value, Came(id, field, value),
                   id = Target(s), value = seen[s][field]
            PROVE  Came(Target(s), field, seen[s][field])'
        <4>1. Came(id, field, value)'  BY <3>1, CameOn
        <4>2. Target(s)' = id /\ seen'[s][field] = value  BY <1>4, <2>2, <3>1, CommitEffect
        <4> QED  BY <4>1, <4>2 DEF Came
      <3>2. Given(s) /\ pc'[s] = pc[s] /\ seen'[s] = seen[s]  BY <2>2, CommitEffect DEF UInv
      <3> QED  BY <1>0, <3>1, <3>2 DEF Given, Gives
    <2> QED  BY <2>1, <2>2
  <1>8. ASSUME NEW s \in Requests PROVE Answered(s)'
    <2>1. CASE s = r
      <3>1. n \in DOMAIN audit' /\ audit'[n].actor = r  BY <1>log
      <3>2. \E i \in DOMAIN audit' : audit'[i].actor = s  BY <2>1, <3>1
      <3> QED  BY <2>1, <3>2, CommitEffect DEF Answered
    <2>2. CASE s # r
      <3>1. Answered(s) /\ pc'[s] = pc[s] /\ resp'[s] = resp[s]  BY <2>2, CommitEffect DEF UInv
      <3>2. (\E i \in DOMAIN audit : audit[i].actor = s) => \E i \in DOMAIN audit' : audit'[i].actor = s
        BY <1>log
      <3> QED  BY <3>1, <3>2 DEF Answered
    <2> QED  BY <2>1, <2>2
  <1>9. ASSUME NEW s \in Requests, NEW t \in Requests PROVE Exclusive(s, t)'
    <2>1. CASE s = r \/ t = r  BY <2>1, CommitEffect, NoTxFields DEF Exclusive, HoldsRow
    <2>2. CASE s # r /\ t # r
      <3>1. tx'[s] = tx[s] /\ tx'[t] = tx[t] /\ seen'[s] = seen[s] /\ seen'[t] = seen[t]
        BY <2>2, CommitEffect
      <3>2. Exclusive(s, t)  BY DEF UInv
      <3> QED  BY <1>4, <3>1, <3>2 DEF Exclusive, HoldsRow
    <2> QED  BY <2>1, <2>2
  <1>10. \A id \in Ids : id \in Seeded \/ pc[id] = "done" => id \in Seeded \/ pc'[id] = "done"
    BY <1>0, CommitEffect DEF Ids
  <1>11. Target(r) \in Seeded \/ pc'[Target(r)] = "done"
    <2>1. CASE input[r].op = "create"  BY <2>1, CommitEffect
    <2>2. CASE input[r].op # "create"
      <3>1. PICK u \in users : u.id = Target(r)  BY <2>2, CommitEffect
      <3>2. u.id \in Ids  BY DEF UInv, UserType, TypeOK, User
      <3> QED  BY <1>10, <3>1, <3>2 DEF UInv, Rows
    <2> QED  BY <2>1, <2>2
  <1>12. Rows'
    <2>1. ASSUME NEW u \in users' PROVE u.id \in Seeded \/ pc'[u.id] = "done"
      <3>1. u \in users => u.id \in Ids  BY DEF UInv, UserType, TypeOK, User
      <3> QED  BY <1>2, <1>10, <1>11, <2>1, <3>1 DEF UInv, Rows
    <2>2. ASSUME NEW u \in users', NEW v \in users', u.id = v.id \/ u.email = v.email PROVE u = v
      BY <2>2, CommitEffect DEF UInv, Rows
    <2> QED  BY <2>1, <2>2 DEF Rows
  <1>13. ASSUME NEW i \in DOMAIN audit' PROVE Logged(i)'
    <2>1. CASE i \in DOMAIN audit
      <3>1. audit'[i] = audit[i] /\ audit[i] \in Entry /\ Logged(i)  BY <2>1, <1>log DEF UInv
      <3>2. audit[i].actor \in Requests \ {r} /\ audit[i].id \in Ids
        BY <1>0, <3>1 DEF Entry, Logged
      <3>3. ASSUME audit[i].action = "delete" PROVE (Row(audit[i].id) = {})'
        <4>1. \A u \in users : u.id # audit[i].id  BY <3>1, <3>3 DEF Logged, Row
        <4>2. input[r].op = "create" => audit[i].id # Target(r)
          BY <1>0, <3>1, CommitEffect, ServiceAssumption DEF Logged
        <4>3. \A u \in users' : u.id # audit[i].id  BY <4>1, <4>2, CommitEffect
        <4> QED  BY <3>1, <4>3 DEF Row
      <3> QED  BY <1>0, <1>10, <3>1, <3>2, <3>3, CommitEffect DEF Logged
    <2>2. CASE i \notin DOMAIN audit
      <3>1. i = n   BY <2>2, <1>log
      <3>2. /\ audit'[i].actor = r /\ audit'[i].action = input[r].op /\ audit'[i].id = Target(r)
        BY <1>log, <3>1
      <3>3. input[r].op = "delete" => \A u \in users' : u.id # Target(r)
        BY CommitEffect DEF UInv, Rows
      <3> QED  BY <1>0, <1>11, <3>2, <3>3, CommitEffect DEF Logged, Row
    <2> QED  BY <2>1, <2>2
  <1>14. OneEntry'
    <2>1. \A i \in DOMAIN audit : audit[i].actor # r  BY <1>0 DEF UInv, Logged
    <2>2. audit'[n].actor = r  BY <1>log
    <2>3. \A i \in DOMAIN audit' : i \in DOMAIN audit \/ i = n  BY <1>log
    <2> QED  BY <2>1, <2>2, <2>3, <1>log DEF UInv, OneEntry
  <1>15. ASSUME NEW u \in users' PROVE Kept(u)'
    <2> SUFFICES ASSUME NEW field \in Fields
                 PROVE  /\ Came(u.id, field, u[field])'
                        /\ \A i \in DOMAIN audit' :
                             /\ audit'[i].id = u.id /\ Gives(audit'[i].actor, field)
                             /\ \A j \in DOMAIN audit' : audit'[j].id = u.id => j <= i
                             => u[field] = input[audit'[i].actor][field]
      BY <1>0 DEF Kept, Gives
    <2>1. CASE u.id # Target(r)
      <3>1. u \in users  BY <1>2, <2>1
      <3>2. Kept(u)  BY <3>1 DEF UInv
      <3>3. Came(u.id, field, u[field])'  BY <3>2, CameOn DEF Kept
      <3>4. audit'[n].id # u.id  BY <2>1, <1>log
      <3>5. \A i \in DOMAIN audit' : audit'[i].id = u.id => i \in DOMAIN audit /\ audit'[i] = audit[i]
        BY <3>4, <1>log
      <3>6. DOMAIN audit \subseteq DOMAIN audit' /\ \A i \in DOMAIN audit : audit'[i] = audit[i]
        BY <1>log
      <3> QED  BY <3>2, <3>3, <3>5, <3>6 DEF Kept
    <2>2. CASE u.id = Target(r)
      <3>1. u = seen[r] /\ input[r].op \in {"create", "update"}
        BY <1>2, <2>2, CommitEffect DEF UInv, Rows
      <3>2. /\ n \in DOMAIN audit' /\ audit'[n].id = u.id /\ audit'[n].actor = r
            /\ audit'[n].action # "delete"
        BY <2>2, <3>1, <1>log
      <3>3. Gives(r, field) => u[field] = input[r][field]  BY <1>0, <3>1 DEF Given
      <3>4. Came(u.id, field, u[field])'
        <4>1. CASE Gives(r, field)
          <5>1. input'[audit'[n].actor] = input[r]  BY <1>0, <3>2
          <5> QED  BY <3>2, <3>3, <4>1, <5>1 DEF Came, Gives
        <4>2. CASE ~Gives(r, field)
          <5>1. Came(u.id, field, u[field])  BY <1>0, <2>2, <3>1, <4>2 DEF Given
          <5> QED  BY <5>1, CameOn
        <4> QED  BY <4>1, <4>2
      <3>5. ASSUME NEW i \in DOMAIN audit', Gives(audit'[i].actor, field),
                   \A j \in DOMAIN audit' : audit'[j].id = u.id => j <= i
            PROVE  u[field] = input[audit'[i].actor][field]
        <4>1. n <= i /\ i <= n  BY <3>2, <3>5, <1>log
        <4>2. i = n  BY <4>1, <1>log
        <4> QED  BY <3>2, <3>3, <3>5, <4>2
      <3> QED  BY <3>4, <3>5
    <2> QED  BY <2>1, <2>2
  <1> QED  BY <1>1, <1>5, <1>6, <1>7, <1>8, <1>9, <1>12, <1>13, <1>14, <1>15 DEF UInv


-----------------------------------------------------------------------------
LEMMA InitHolds == Init => UInv
  <1> SUFFICES ASSUME Init PROVE UInv
    OBVIOUS
  <1>1. /\ users = {SeedRow[s] : s \in Seeded} /\ audit = <<>> /\ DOMAIN audit = {}
        /\ pc = [r \in Requests |-> "idle"] /\ input = [r \in Requests |-> Nil]
        /\ seen = [r \in Requests |-> Nil] /\ tx = [r \in Requests |-> NoTx]
        /\ resp = [r \in Requests |-> [word |-> "none", user |-> Nil]]
    BY DEF Init
  <1>2. \A u \in users : u.id \in Seeded /\ u = SeedRow[u.id] /\ u \in User
    BY <1>1, ServiceAssumption
  <1>3. UserType
    <2>1. [word |-> "none", user |-> Nil] \in Answers  BY DEF Answers, Words
    <2>2. audit \in Seq(Entry)  BY <1>1
    <2> QED  BY <1>1, <1>2, <2>1, <2>2, NoTxFields DEF UserType, TypeOK
  <1>4. \A r \in Requests : Progress(r) /\ Locked(r) /\ Given(r) /\ Answered(r)
    BY <1>1, NoTxFields DEF Progress, Locked, Given, Answered, InTx
  <1>5. \A r, s \in Requests : Exclusive(r, s)  BY <1>1, NoTxFields DEF Exclusive, HoldsRow
  <1>6. Rows
    <2>1. \A u, v \in users : u.email = v.email => u.id = v.id  BY <1>2, ServiceAssumption
    <2> QED  BY <1>2, <2>1 DEF Rows
  <1>7. (\A i \in DOMAIN audit : Logged(i)) /\ OneEntry  BY <1>1 DEF OneEntry
  <1>8. \A u \in users : Kept(u)  BY <1>1, <1>2 DEF Kept, Came
  <1> QED  BY <1>3, <1>4, <1>5, <1>6, <1>7, <1>8 DEF UInv

LEMMA StepHolds == UInv /\ [Next]_vars => UInv'
  <1> SUFFICES ASSUME UInv, [Next]_vars PROVE UInv'
    OBVIOUS
  <1>1. ASSUME NEW r \in Requests, Receive(r) PROVE UInv'  BY <1>1, ReceiveStep
  <1>2. ASSUME NEW r \in Requests, Advance(r) PROVE UInv'
    <2>1. CASE AbortDeadlock(r)
      <3>1. pc[r] # "done" /\ Finish(r, "deadlock") /\ UNCHANGED db
        BY <2>1 DEF AbortDeadlock, InTx
      <3> QED  BY <3>1, FinishStep DEF Words
    <2>2. CASE InsertUser(r) \/ LockRow(r) \/ IndexEmail(r) \/ DeleteRow(r)
      BY <2>2, StatementStep
    <2>3. CASE AuditCreate(r)  BY <2>3, AuditStep
    <2>4. CASE Commit(r)  BY <2>4, CommitStep
    <2> QED  BY <1>2, <2>1, <2>2, <2>3, <2>4 DEF Advance
  <1>3. ASSUME NEW r \in Requests, Fail(r) PROVE UInv'
    <2>1. pc[r] # "done" /\ Finish(r, "error") /\ UNCHANGED db  BY <1>3 DEF Fail
    <2> QED  BY <2>1, FinishStep DEF Words
  <1>4. CASE UNCHANGED vars
    <2>1. /\ users' = users /\ audit' = audit /\ pc' = pc /\ input' = input
          /\ seen' = seen /\ tx' = tx /\ resp' = resp
      BY <1>4 DEF vars, db
    <2>2. UserType'  BY <2>1 DEF UInv, UserType, TypeOK
    <2>3. \A r \in Requests : Progress(r)' /\ Locked(r)' /\ Answered(r)'
      BY <2>1 DEF UInv, Progress, Locked, Answered, Target, Row, UsersWith
    <2>4. ASSUME NEW r \in Requests PROVE Given(r)'
      <3>1. Given(r)  BY DEF UInv
      <3> QED  BY <2>1, <3>1 DEF Given, Gives, Came, Target
    <2>5. \A r, s \in Requests : Exclusive(r, s)'
      BY <2>1 DEF UInv, Exclusive, HoldsRow, Target
    <2>6. Rows' /\ (\A i \in DOMAIN audit' : Logged(i)') /\ OneEntry'
      BY <2>1 DEF UInv, Rows, Logged, OneEntry, Row
    <2>7. ASSUME NEW u \in users' PROVE Kept(u)'
      <3>1. Kept(u)  BY <2>1 DEF UInv
      <3> QED  BY <2>1, <3>1 DEF Kept, Gives, Came
    <2> QED  BY <2>2, <2>3, <2>4, <2>5, <2>6, <2>7 DEF UInv
  <1> QED  BY <1>1, <1>2, <1>3, <1>4 DEF Next, AllDone

\* In every reachable state the invariant holds: what an open transaction has written fits the
\* statement it is at, the row locks and the email index keep two transactions apart, and every
\* stored field has its source.
THEOREM Invariance == Spec => []UInv
  BY InitHolds, StepHolds, PTL DEF Spec

-----------------------------------------------------------------------------
\* No two users ever share an email, whatever requests run side by side: the UNIQUE index, and
\* not the check that createUser makes before it inserts, keeps them apart.
THEOREM UsersConsistent == Spec => []Consistent
  <1>1. UInv => Consistent  BY DEF UInv, UserType, Rows, Consistent
  <1> QED  BY <1>1, Invariance, PTL

\* A request told "ok" has exactly one entry in the log, one with an entry was told "ok" or
\* "error" and had an actor id, and any other answer means that there is no entry.
THEOREM AnswersMatchAudit == Spec => []AnswerMatchesAudit
  <1>1. ASSUME UInv, NEW r \in Requests
        PROVE  LET own == {i \in DOMAIN audit : audit[i].actor = r}
               IN  /\ Cardinality(own) <= 1
                   /\ resp[r].word = "ok" => own # {}
                   /\ own # {} => resp[r].word \in {"ok", "error"} /\ r \notin Anonymous
    <2> DEFINE own == {i \in DOMAIN audit : audit[i].actor = r}
    <2>1. \A i, j \in own : i = j  BY <1>1 DEF UInv, OneEntry
    <2>2. Cardinality(own) <= 1
      <3>1. CASE own = {}  BY <3>1, FS_EmptySet
      <3>2. ASSUME NEW i \in own PROVE Cardinality(own) <= 1
        <4>1. own = {i}  BY <2>1, <3>2
        <4> HIDE DEF own
        <4> QED  BY <4>1, FS_Singleton
      <3> QED  BY <3>1, <3>2
    <2>3. resp[r].word = "ok" => own # {}  BY <1>1 DEF UInv, Answered
    <2>4. own # {} => resp[r].word \in {"ok", "error"} /\ r \notin Anonymous
      BY <1>1 DEF UInv, Logged
    <2> QED  BY <2>2, <2>3, <2>4
  <1>2. UInv => AnswerMatchesAudit  BY <1>1 DEF AnswerMatchesAudit
  <1> QED  BY <1>2, Invariance, PTL

\* Whatever is written back from a stale read, every field of every user was given to that very
\* user by some change or by the seed, and what the last change gave is in effect.
THEOREM FieldsGiven == Spec => []FieldsWereGiven
  <1>1. ASSUME UInv, NEW u \in users, NEW field \in Fields
        PROVE  LET changes == {i \in DOMAIN audit : audit[i].id = u.id}
                   Asks(i) == Gives(audit[i].actor, field)
                   Value(i) == input[audit[i].actor][field]
               IN  /\ \A i \in changes :
                        (\A j \in changes : j <= i) /\ Asks(i) => u[field] = Value(i)
                   /\ \/ \E i \in changes : Asks(i) /\ u[field] = Value(i)
                      \/ u.id \in Seeded /\ u[field] = SeedRow[u.id][field]
    <2>1. Kept(u)  BY <1>1 DEF UInv
    <2>2. Came(u.id, field, u[field])  BY <2>1 DEF Kept
    <2>3. \A i \in DOMAIN audit :
            /\ audit[i].id = u.id /\ Gives(audit[i].actor, field)
            /\ \A j \in DOMAIN audit : audit[j].id = u.id => j <= i
            => u[field] = input[audit[i].actor][field]
      BY <2>1 DEF Kept
    <2> QED  BY <2>2, <2>3 DEF Came
  <1>2. UInv => FieldsWereGiven  BY <1>1 DEF FieldsWereGiven, Fields
  <1> QED  BY <1>2, Invariance, PTL

-----------------------------------------------------------------------------
\* Whom r waits for, directly or through others.
Awaited(r) ==
  {t \in Requests : \A S \in SUBSET Requests :
     (WaitsFor(r) \subseteq S /\ \A s \in S : WaitsFor(s) \subseteq S) => t \in S}

LEMMA AwaitedClosed ==
  ASSUME NEW r \in Requests
  PROVE  /\ WaitsFor(r) \subseteq Awaited(r)
         /\ \A s \in Awaited(r) : WaitsFor(s) \subseteq Awaited(r)
  <1>1. \A s \in Requests : WaitsFor(s) \subseteq Requests  BY DEF WaitsFor
  <1>2. WaitsFor(r) \subseteq Awaited(r)  BY <1>1 DEF Awaited
  <1>3. ASSUME NEW s \in Awaited(r), NEW t \in WaitsFor(s) PROVE t \in Awaited(r)
    <2>1. s \in Requests /\ t \in Requests  BY <1>1 DEF Awaited
    <2>2. ASSUME NEW S \in SUBSET Requests, WaitsFor(r) \subseteq S,
                 \A q \in S : WaitsFor(q) \subseteq S
          PROVE  t \in S
      <3>1. s \in S  BY <2>2 DEF Awaited
      <3> QED  BY <2>2, <3>1
    <2> QED  BY <2>1, <2>2 DEF Awaited
  <1> QED  BY <1>2, <1>3

\* In a cycle, r waits for one that waits in a cycle too, and someone waits for r.
LEMMA CycleNeighbours ==
  ASSUME NEW r \in Requests, InWaitCycle(r)
  PROVE  /\ \E s \in WaitsFor(r) : InWaitCycle(s)
         /\ \E t \in Requests : r \in WaitsFor(t)
  <1>1. \A s \in Requests : WaitsFor(s) \subseteq Requests \ {s}  BY DEF WaitsFor
  <1>2. \E s \in WaitsFor(r) : r \in Awaited(s)
    <2> SUFFICES ASSUME \A s \in WaitsFor(r) : r \notin Awaited(s) PROVE FALSE
      OBVIOUS
    <2> DEFINE S == {t \in Requests : \E s \in WaitsFor(r) : t = s \/ t \in Awaited(s)}
    <2>1. WaitsFor(r) \subseteq S  BY <1>1
    <2>2. \A t \in S : WaitsFor(t) \subseteq S
      <3> SUFFICES ASSUME NEW t \in S, NEW q \in WaitsFor(t) PROVE q \in S
        OBVIOUS
      <3>1. PICK s \in WaitsFor(r) : t = s \/ t \in Awaited(s)  OBVIOUS
      <3>2. s \in Requests /\ q \in Requests  BY <1>1, <3>1
      <3>3. q \in Awaited(s)  BY <3>1, <3>2, AwaitedClosed
      <3> QED  BY <3>1, <3>2, <3>3
    <2>3. r \notin S  BY <1>1
    <2>4. S \in SUBSET Requests  OBVIOUS
    <2> HIDE DEF S
    <2> QED  BY <2>1, <2>2, <2>3, <2>4 DEF InWaitCycle
  <1>3. PICK s \in WaitsFor(r) : r \in Awaited(s)  BY <1>2
  <1>4. InWaitCycle(s)
    <2> SUFFICES ASSUME NEW S \in SUBSET Requests, WaitsFor(s) \subseteq S,
                        \A q \in S : WaitsFor(q) \subseteq S
                 PROVE  s \in S
      BY DEF InWaitCycle
    <2>1. r \in S  BY <1>3 DEF Awaited
    <2> QED  BY <1>3, <2>1
  <1>5. \E t \in Requests : r \in WaitsFor(t)
    <2> SUFFICES ASSUME \A t \in Requests : r \notin WaitsFor(t) PROVE FALSE
      OBVIOUS
    <2> DEFINE S == Requests \ {r}
    <2>1. S \in SUBSET Requests /\ r \notin S  OBVIOUS
    <2>2. WaitsFor(r) \subseteq S /\ \A t \in S : WaitsFor(t) \subseteq S  BY <1>1
    <2> HIDE DEF S
    <2> QED  BY <2>1, <2>2 DEF InWaitCycle
  <1> QED  BY <1>3, <1>4, <1>5

\* Who waits in a cycle has locked the row it updates, and nothing else.
LEMMA CycleLocked ==
  ASSUME UInv, NEW r \in Requests, InWaitCycle(r)
  PROVE  pc[r] = "indexEmail" /\ tx[r].wrote = "locked"
  <1>1. PICK t \in Requests : r \in WaitsFor(t)  BY CycleNeighbours
  <1>2. tx[r].wrote # "none"
    <2>1. Blocks(r, t)  BY <1>1 DEF WaitsFor
    <2> QED  BY <2>1 DEF Blocks, HoldsEmail, HoldsRow
  <1>3. PICK s \in WaitsFor(r) : TRUE  BY CycleNeighbours
  <1>4. pc[r] \in {"insertUser", "indexEmail", "lockRow", "deleteUser"}
    BY <1>3 DEF WaitsFor, Blocks
  <1>5. Progress(r)  BY DEF UInv
  <1> QED  BY <1>2, <1>4, <1>5 DEF Progress

\* However many requests wait for one another in a circle, each updates a user to the email that
\* the next one's user still has: no creation and no deletion is ever part of a deadlock.
THEOREM DeadlocksSwapEmails == Spec => []DeadlockNeedsEmailSwap
  <1>1. ASSUME UInv, NEW r \in Requests, InWaitCycle(r)
        PROVE  /\ pc[r] = "indexEmail" /\ NewEmail(r)
               /\ \E s \in WaitsFor(r) :
                    InWaitCycle(s) /\ \E u \in UsersWith(seen[r].email) : HoldsRow(s, u.id)
    <2>1. pc[r] = "indexEmail"  BY <1>1, CycleLocked
    <2>2. PICK s \in WaitsFor(r) : InWaitCycle(s)  BY <1>1, CycleNeighbours
    <2>3. s \in Requests /\ Blocks(s, r)  BY <2>2 DEF WaitsFor
    <2>4. NewEmail(r) /\ HoldsEmail(s, seen[r].email)  BY <2>1, <2>3 DEF Blocks
    <2>5. tx[s].wrote = "locked"  BY <1>1, <2>2, <2>3, CycleLocked
    <2>6. \E u \in UsersWith(seen[r].email) : HoldsRow(s, u.id)
      BY <2>4, <2>5 DEF HoldsEmail
    <2> QED  BY <2>1, <2>2, <2>4, <2>6
  <1>2. UInv => DeadlockNeedsEmailSwap  BY <1>1 DEF DeadlockNeedsEmailSwap
  <1> QED  BY <1>2, Invariance, PTL

-----------------------------------------------------------------------------
\* Every step but a COMMIT leaves the database alone.
LEMMA OnlyCommits ==
  ASSUME [Next]_vars, \A r \in Requests : ~Commit(r)
  PROVE  UNCHANGED db
  <1>1. ASSUME NEW r \in Requests, Receive(r) PROVE UNCHANGED db
    BY <1>1 DEF Receive, MissingActor, CreateUser, UpdateUser, DeleteUser, Login
  <1>2. ASSUME NEW r \in Requests, Advance(r) PROVE UNCHANGED db
    BY <1>2 DEF Advance, InsertUser, LockRow, IndexEmail, DeleteRow, AuditCreate, AbortDeadlock
  <1>3. ASSUME NEW r \in Requests, Fail(r) PROVE UNCHANGED db  BY <1>3 DEF Fail
  <1>4. CASE UNCHANGED vars  BY <1>4 DEF vars, db
  <1> QED  BY <1>1, <1>2, <1>3, <1>4 DEF Next, AllDone

\* A COMMIT is one audited change of one user.
LEMMA CommitIsAudited ==
  ASSUME UInv, NEW r \in Requests, Commit(r)
  PROVE  Audited!Next
  <1>1. audit' = Append(audit, [action |-> input[r].op, id |-> Target(r), actor |-> r])
    BY CommitEffect DEF NewEntry
  <1>2. CASE input[r].op = "create"
    <2>1. /\ seen[r].id = r /\ Target(r) = r /\ seen[r] \in users' \ users
          /\ \A u \in users : u.id # r /\ u.email # seen[r].email
          /\ users' = users \cup {seen[r]}
      BY <1>2, CommitEffect
    <2>2. \A i \in DOMAIN audit : audit[i].id # r
      BY CommitEffect, ServiceAssumption DEF UInv, Logged
    <2>3. Audited!Change("create", r, users, {seen[r]})
      BY <1>1, <1>2, <2>1 DEF Audited!Change
    <2>4. Audited!Create(seen[r])  BY <2>1, <2>2, <2>3 DEF Audited!Create
    <2> QED  BY <2>1, <2>4 DEF Audited!Next
  <1>3. CASE input[r].op = "update"
    <2>1. PICK u \in users : u.id = Target(r) /\ users' = (users \ {u}) \cup {seen[r]}
      BY <1>3, CommitEffect
    <2>2. seen[r].id = Target(r) /\ \A v \in users : v.email = seen[r].email => v.id = Target(r)
      BY <1>3, CommitEffect
    <2>3. \A v \in users \ {u} : v.email # seen[r].email  BY <2>1, <2>2 DEF UInv, Rows
    <2>4. Audited!Change("update", u.id, users \ {u}, {seen[r]})
      BY <1>1, <1>3, <2>1, <2>3 DEF Audited!Change
    <2>5. Audited!Update(u, seen[r])  BY <2>1, <2>2, <2>4 DEF Audited!Update
    <2> QED  BY <2>1, <2>5 DEF Audited!Next
  <1>4. CASE input[r].op = "delete"
    <2>1. PICK u \in users : u.id = Target(r) /\ users' = users \ {u}
      BY <1>4, CommitEffect
    <2>2. Audited!Change("delete", u.id, users \ {u}, {})
      BY <1>1, <1>4, <2>1 DEF Audited!Change
    <2>3. Audited!Delete(u)  BY <2>2 DEF Audited!Delete
    <2> QED  BY <2>3 DEF Audited!Next
  <1> QED  BY <1>2, <1>3, <1>4, CommitEffect

\* The service implements what it promises of the database: an id is never used again, no two
\* users share an email, and each change of a user is committed with the one entry that tells it.
THEOREM UsersRefinement == Spec => ImplementsAuditedUsers
  <1>1. Init => Audited!Init  BY DEF Init, Audited!Init
  <1>2. UInv /\ [Next]_vars => [Audited!Next]_(Audited!vars)
    <2> SUFFICES ASSUME UInv, [Next]_vars PROVE [Audited!Next]_(Audited!vars)
      OBVIOUS
    <2>1. CASE \E r \in Requests : Commit(r)  BY <2>1, CommitIsAudited
    <2>2. CASE \A r \in Requests : ~Commit(r)  BY <2>2, OnlyCommits DEF db, Audited!vars
    <2> QED  BY <2>1, <2>2
  <1> QED  BY <1>1, <1>2, Invariance, PTL DEF Spec, ImplementsAuditedUsers, Audited!Spec

-----------------------------------------------------------------------------
\* Unless it was overtaken, an update still holds what the row has in the fields it does not give.
InStep(r) ==
  pc[r] \in InTx /\ input[r].op = "update" /\ r \notin overtaken =>
    \A u \in Row(Target(r)), field \in Fields : ~Gives(r, field) => seen[r][field] = u[field]

HInv == UInv /\ \A r \in Requests : InStep(r)

\* What a step does to one handler: it leaves it what it holds, ends it, or begins it.
LEMMA HandlerStep ==
  ASSUME UInv, [Next]_vars, NEW s \in Requests
  PROVE  \/ input'[s] = input[s] /\ seen'[s] = seen[s] /\ (pc'[s] \in InTx => pc[s] \in InTx)
         \/ pc'[s] = "done"
         \/ input'[s].op # "update"
         \/ UpdateUser(s)
  <1> DEFINE Same(t) == input'[t] = input[t] /\ seen'[t] = seen[t] /\ pc'[t] = pc[t]
  <1>0. /\ pc \in [Requests -> InTx \cup {"idle", "done"}]
        /\ input \in [Requests -> Calls \cup {Nil}] /\ seen \in [Requests -> User \cup {Nil}]
    BY DEF UInv, UserType, TypeOK
  <1>1. ASSUME NEW r \in Requests, NEW in, NEW word, NEW user, FinishWith(r, in, word, user)
        PROVE  pc'[r] = "done" /\ \A t \in Requests \ {r} : Same(t)
    BY <1>0, <1>1 DEF FinishWith, Goto
  <1>2. ASSUME NEW r \in Requests, NEW in, NEW user, NEW st, Continue(r, in, user, st)
        PROVE  input'[r] = in /\ \A t \in Requests \ {r} : Same(t)
    BY <1>0, <1>2 DEF Continue, Goto
  <1>3. ASSUME NEW r \in Requests, NEW word, Finish(r, word)
        PROVE  pc'[r] = "done" /\ \A t \in Requests \ {r} : Same(t)
    BY <1>1, <1>3 DEF Finish
  <1>4. ASSUME NEW r \in Requests, NEW what, NEW st, Wrote(r, what, st)
        PROVE  input' = input /\ seen' = seen /\ \A t \in Requests \ {r} : pc'[t] = pc[t]
    BY <1>0, <1>4 DEF Wrote, Goto
  <1>5. ASSUME NEW r \in Requests, Receive(r)
        PROVE  /\ \A t \in Requests \ {r} : Same(t)
               /\ pc'[r] = "done" \/ input'[r].op # "update" \/ UpdateUser(r)
    <2>1. CASE MissingActor(r)  BY <1>1, <2>1 DEF MissingActor
    <2>2. CASE CreateUser(r)
      <3>1. PICK in \in Asked("create") :
              \/ FinishWith(r, in, "duplicate", Nil)
              \/ Continue(r, in, [id |-> r, email |-> in.email, role |-> in.role,
                                  password |-> in.password], "insertUser")
        BY <2>2 DEF CreateUser
      <3> QED  BY <1>1, <1>2, <3>1 DEF Asked
    <2>3. CASE UpdateUser(r)
      <3>1. PICK in \in Asked("update") :
              \/ FinishWith(r, in, "notFound", Nil)
              \/ \E u \in Row(in.id) : Continue(r, in, ApplyUpdateFields(u, in), "lockRow")
        BY <2>3 DEF UpdateUser
      <3> QED  BY <1>1, <1>2, <2>3, <3>1
    <2>4. CASE DeleteUser(r)
      <3>1. PICK in \in Asked("delete") : Continue(r, in, Nil, "deleteUser")
        BY <2>4 DEF DeleteUser
      <3> QED  BY <1>2, <3>1 DEF Asked
    <2>5. CASE Login(r)
      <3>1. \E in, word, user : FinishWith(r, in, word, user)  BY <2>5 DEF Login
      <3> QED  BY <1>1, <3>1
    <2> QED  BY <1>5, <2>1, <2>2, <2>3, <2>4, <2>5 DEF Receive
  <1>6. ASSUME NEW r \in Requests, Advance(r) \/ Fail(r)
        PROVE  /\ \A t \in Requests \ {r} : Same(t)
               /\ pc'[r] = "done" \/ (input' = input /\ seen' = seen /\ pc[r] \in InTx)
    <2>1. CASE InsertUser(r) \/ LockRow(r) \/ IndexEmail(r) \/ DeleteRow(r)
      <3>1. \/ \E word : Finish(r, word)
            \/ \E what, st : Wrote(r, what, st)
        BY <2>1 DEF InsertUser, LockRow, IndexEmail, DeleteRow
      <3>2. pc[r] \in InTx  BY <2>1 DEF InsertUser, LockRow, IndexEmail, DeleteRow, Execute, InTx
      <3> QED  BY <1>3, <1>4, <3>1, <3>2
    <2>2. CASE AuditCreate(r)
      BY <1>0, <2>2 DEF AuditCreate, Goto, Execute, InTx
    <2>3. CASE Commit(r) \/ AbortDeadlock(r) \/ Fail(r)
      <3>1. \E word : Finish(r, word)  BY <2>3 DEF Commit, AbortDeadlock, Fail
      <3> QED  BY <1>3, <3>1
    <2> QED  BY <1>6, <2>1, <2>2, <2>3 DEF Advance
  <1>7. CASE UNCHANGED vars  BY <1>7 DEF vars
  <1>8. ASSUME NEW r \in Requests, Receive(r) \/ Advance(r) \/ Fail(r), r # s PROVE Same(s)
    BY <1>5, <1>6, <1>8
  <1>9. CASE Receive(s) \/ Advance(s) \/ Fail(s)  BY <1>5, <1>6, <1>9
  <1> QED  BY <1>7, <1>8, <1>9 DEF Next, AllDone

LEMMA HistoryStep == HInv /\ [HNext]_hvars => HInv'
  <1> SUFFICES ASSUME HInv, [HNext]_hvars PROVE HInv'
    OBVIOUS
  <1>1. UInv /\ [Next]_vars  BY DEF HInv, HNext, hvars
  <1>2. UInv'  BY <1>1, StepHolds
  <1>3. overtaken \subseteq overtaken'  BY DEF HNext, hvars
  <1>4. ASSUME NEW s \in Requests PROVE InStep(s)'
    <2> SUFFICES ASSUME pc'[s] \in InTx, input'[s].op = "update", s \notin overtaken',
                        NEW u \in Row(Target(s))', NEW field \in Fields, ~Gives(s, field)'
                 PROVE  seen'[s][field] = u[field]
      BY DEF InStep
    <2>1. pc'[s] # "done" /\ s \notin overtaken /\ u \in users' /\ u.id = Target(s)'
      BY <1>3 DEF InTx, Row
    <2>2. CASE input'[s] = input[s] /\ seen'[s] = seen[s] /\ pc[s] \in InTx
      <3>1. Target(s)' = Target(s) /\ ~Gives(s, field)  BY <2>2 DEF Target, Gives
      <3>2. u \in users
        <4>1. ASSUME NEW r \in Requests, Commit(r) PROVE u \in users
          <5>1. pc[r] = "commit" /\ pc'[r] = "done" /\ audit' = Append(audit, NewEntry(r))
            BY <1>1, <4>1, CommitEffect
          <5>2. audit' # audit /\ audit \in Seq(Entry) /\ r # s
            <6>1. Len(audit) + 1 \in DOMAIN audit' /\ Len(audit) + 1 \notin DOMAIN audit
              BY <1>1, <4>1, LogAfter
            <6> QED  BY <2>1, <5>1, <6>1 DEF HInv, UInv, UserType, TypeOK
          <5>3. HNext  BY <5>2 DEF hvars, vars, db
          <5>4. Target(r) # Target(s)  BY <2>1, <2>2, <5>1, <5>2, <5>3 DEF HNext, Commits
          <5>5. u \in users \/ (u = seen[r] /\ u.id = Target(r))
            BY <1>1, <2>1, <4>1, CommitEffect
          <5> QED  BY <2>1, <3>1, <5>4, <5>5
        <4>2. (\A r \in Requests : ~Commit(r)) => u \in users
          BY <1>1, <2>1, OnlyCommits DEF db
        <4> QED  BY <4>1, <4>2
      <3>3. InStep(s) /\ u \in Row(Target(s))  BY <2>1, <3>1, <3>2 DEF HInv, Row
      <3> QED  BY <2>1, <2>2, <3>1, <3>3 DEF InStep
    <2>3. CASE UpdateUser(s)
      <3>1. PICK in \in Asked("update") :
              \/ FinishWith(s, in, "notFound", Nil)
              \/ \E v \in Row(in.id) : Continue(s, in, ApplyUpdateFields(v, in), "lockRow")
        BY <2>3 DEF UpdateUser
      <3>2. /\ pc \in [Requests -> InTx \cup {"idle", "done"}] /\ users' = users
            /\ input \in [Requests -> Calls \cup {Nil}] /\ seen \in [Requests -> User \cup {Nil}]
        BY <1>1, <2>3 DEF UInv, UserType, TypeOK, UpdateUser, db
      <3>3. ~FinishWith(s, in, "notFound", Nil)  BY <2>1, <3>2 DEF FinishWith, Goto
      <3>4. PICK v \in Row(in.id) : Continue(s, in, ApplyUpdateFields(v, in), "lockRow")
        BY <3>1, <3>3
      <3>5. input'[s] = in /\ seen'[s] = ApplyUpdateFields(v, in)
        BY <3>2, <3>4 DEF Continue
      <3>6. in \in UpdateInput /\ in.op = "update"  BY CallFields DEF Asked
      <3>7. in[field] = Nil /\ Target(s)' = in.id  BY <3>5, <3>6 DEF Gives, Target
      <3>8. v \in User /\ v \in users /\ v.id = in.id /\ u = v
        BY <1>1, <2>1, <3>2, <3>7 DEF Row, UInv, UserType, TypeOK, Rows
      <3>9. ApplyUpdateFields(v, in)[field] = v[field]  BY <3>6, <3>7, <3>8, ApplyFields
      <3> QED  BY <3>5, <3>8, <3>9
    <2> QED  BY <1>1, <2>1, <2>2, <2>3, HandlerStep
  <1> QED  BY <1>2, <1>4 DEF HInv

\* updateUserWithStore writes every column from a row it read without a lock: a field its caller
\* did not give is kept unless another update of that user committed between read and write.
THEOREM OmittedFieldsKept == HSpec => OmittedKeptUnlessOvertaken
  <1>1. HInit => HInv
    <2>1. Init => \A r \in Requests : pc[r] \notin InTx  BY DEF Init, InTx
    <2> QED  BY <2>1, InitHolds DEF HInit, HInv, InStep
  <1>2. ASSUME HInv, [HNext]_hvars, NEW r \in Requests \ overtaken, NEW field \in Fields
        PROVE  KeepsOmitted(r, field)
    <2> SUFFICES ASSUME Commits(r), input[r].op = "update", ~Gives(r, field),
                        NEW u \in users, NEW v \in users', u.id = Target(r), v.id = u.id
                 PROVE  v[field] = u[field]
      BY DEF KeepsOmitted
    <2>1. UInv /\ [Next]_vars /\ InStep(r) /\ pc[r] = "commit" /\ pc'[r] = "done" /\ pc[r] \in InTx
      BY <1>2 DEF HInv, HNext, hvars, Commits, InTx
    <2>2. Commit(r)
      <3>1. PICK s \in Requests : Commit(s)
        BY <2>1, OnlyCommits DEF Commits, db
      <3>2. \A t \in Requests \ {s} : pc'[t] = pc[t]  BY <2>1, <3>1, CommitEffect
      <3> QED  BY <2>1, <3>1, <3>2
    <2>3. v = seen[r]  BY <2>1, <2>2, CommitEffect DEF UInv, Rows
    <2>4. seen[r][field] = u[field]  BY <2>1 DEF InStep, Row
    <2> QED  BY <2>3, <2>4
  <1>3. HInv /\ [HNext]_hvars =>
          [\A r \in Requests \ overtaken, field \in {"email", "role", "password"} :
             KeepsOmitted(r, field)]_hvars
    BY <1>2 DEF Fields
  <1> QED  BY <1>1, <1>3, HistoryStep, PTL DEF HSpec, OmittedKeptUnlessOvertaken

=============================================================================

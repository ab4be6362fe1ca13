---------------------------- MODULE GatewayProofs ----------------------------
(***************************************************************************)
(* Proofs about Gateway, for any requests, operations, users and flags:    *)
(* what an answer says of the changes, who can make one, and that what is  *)
(* written is what was sent.                                               *)
(***************************************************************************)
EXTENDS GatewayInvariant, TLAPS

\* What a client can be told of an error.
Codes == {"UNAUTHORIZED", "FORBIDDEN", "INVALID_CREDENTIALS", "INTERNAL", "ERROR"}

\* The mutations but login.
Changing ==
  {"createFlag", "updateFlag", "deleteFlag", "createExperiment", "createUser", "updateUser", "deleteUser"}

\* A field is answered with an error or a value of nothing.
Refuses(r, i) ==
  /\ \E word \in Codes \cup {"false", "null"} : Answer(r, i, word)
  /\ UNCHANGED <<tables, frame>>

\* A field of a query is answered with a value.
Reads(r, i) ==
  /\ Field(r, i).name \in DOMAIN Query
  /\ Answer(r, i, "value") /\ UNCHANGED <<tables, frame>>

\* A mutation commits its change; three of them are of users and their roles.
Changes(r, i) ==
  /\ \E name \in Changing : Called(r, i, name)
  /\ Commits(r, i)
  /\ \/ UNCHANGED <<users, held>>
     \/ \E id \in UserIds : \E u : Put(id, u)

\* Login's read.
ReadsRow(r, i) ==
  /\ row[r] = Nil
  /\ \E id \in UserIds :
       /\ IsRow(users[id])
       /\ row' = [row EXCEPT ![r] = [sub |-> id, role |-> users[id].role]]
  /\ UNCHANGED <<tables, context, tokens, answers>>

\* PresentError always answers one of the codes, never a value.
LEMMA Presented ==
  ASSUME NEW err
  PROVE  PresentError(err) \in Codes
  BY DEF PresentError, Codes

\* The two ways in which a resolver answers without a change, and the one in which it reads.
LEMMA FailsRefuses ==
  ASSUME NEW r, NEW i, NEW err, Fails(r, i, err)
  PROVE  Refuses(r, i)
  BY Presented DEF Fails, Refuses

\* A value of something that is not there.
LEMMA GivesRefuses ==
  ASSUME NEW r, NEW i, NEW word \in {"false", "null", "ERROR"}, Gives(r, i, word)
  PROVE  Refuses(r, i)
  BY DEF Gives, Refuses, Codes

\* A value that a query has read.
LEMMA GivesReads ==
  ASSUME NEW r, NEW i, NEW name \in DOMAIN Query, Called(r, i, name), Gives(r, i, "value")
  PROVE  Reads(r, i)
  BY DEF Gives, Reads, Called, AtField

\* A resolver runs for a field that has its turn.
LEMMA CalledDue ==
  ASSUME NEW r, NEW i, NEW name, AtField(r, i, name)
  PROVE  pc[r] = "fields" /\ i \in Due(r) /\ Field(r, i).name = name
  BY DEF AtField

\* The shapes of the resolvers of flags: each refuses, reads, or commits one change.
LEMMA FlagShapes ==
  ASSUME NEW r, NEW i
  PROVE  /\ CreateFlag(r, i) => Refuses(r, i) \/ Changes(r, i)
         /\ UpdateFlag(r, i) => Refuses(r, i) \/ Changes(r, i)
         /\ DeleteFlag(r, i) => Refuses(r, i) \/ Changes(r, i)
         /\ EvaluateFlag(r, i) => Refuses(r, i) \/ Reads(r, i)
  <1>1. ASSUME CreateFlag(r, i)
        PROVE  Refuses(r, i) \/ Changes(r, i)
    <2>1. Called(r, i, "createFlag")
          /\ ((\E err : Fails(r, i, err)) \/ (Commits(r, i) /\ UNCHANGED <<users, held, experiments>>))
      BY <1>1, Zenon DEF CreateFlag
    <2> QED BY <2>1, FailsRefuses DEF Changes, Changing
  <1>2. ASSUME UpdateFlag(r, i)
        PROVE  Refuses(r, i) \/ Changes(r, i)
    <2>1. Called(r, i, "updateFlag")
          /\ ((\E err : Fails(r, i, err)) \/ (Commits(r, i) /\ UNCHANGED <<users, held, experiments>>))
      BY <1>2, Zenon DEF UpdateFlag
    <2> QED BY <2>1, FailsRefuses DEF Changes, Changing
  <1>3. ASSUME DeleteFlag(r, i)
        PROVE  Refuses(r, i) \/ Changes(r, i)
    <2>1. Called(r, i, "deleteFlag")
          /\ ((\E err : Fails(r, i, err)) \/ (Commits(r, i) /\ UNCHANGED <<users, held, experiments>>))
      BY <1>3, Zenon DEF DeleteFlag
    <2> QED BY <2>1, FailsRefuses DEF Changes, Changing
  <1>4. ASSUME EvaluateFlag(r, i)
        PROVE  Refuses(r, i) \/ Reads(r, i)
    <2>1. Called(r, i, "evaluateFlag")
          /\ ((\E err : Fails(r, i, err)) \/ Gives(r, i, "false") \/ Gives(r, i, "value"))
      BY <1>4, Zenon DEF EvaluateFlag
    <2>2. "evaluateFlag" \in DOMAIN Query
      BY DEF Query
    <2> QED BY <2>1, <2>2, FailsRefuses, GivesRefuses, GivesReads
  <1> QED BY <1>1, <1>2, <1>3, <1>4

\* The same of experiments and the audit log.
LEMMA ExperimentShapes ==
  ASSUME NEW r, NEW i
  PROVE  /\ CreateExperiment(r, i) => Refuses(r, i) \/ Changes(r, i)
         /\ Experiment_(r, i) => Refuses(r, i) \/ Reads(r, i)
         /\ GetAssignment(r, i) => Refuses(r, i) \/ Reads(r, i)
         /\ AuditLog_(r, i) => Refuses(r, i) \/ Reads(r, i)
  <1>1. ASSUME CreateExperiment(r, i)
        PROVE  Refuses(r, i) \/ Changes(r, i)
    <2>1. Called(r, i, "createExperiment")
          /\ ((\E err : Fails(r, i, err)) \/ (Commits(r, i) /\ UNCHANGED <<users, held, flags>>))
      BY <1>1, Zenon DEF CreateExperiment
    <2> QED BY <2>1, FailsRefuses DEF Changes, Changing
  <1>2. ASSUME Experiment_(r, i)
        PROVE  Refuses(r, i) \/ Reads(r, i)
    <2>1. Called(r, i, "experiment") /\ \E word \in {"value", "null"} : Gives(r, i, word)
      BY <1>2 DEF Experiment_
    <2>2. "experiment" \in DOMAIN Query
      BY DEF Query
    <2> QED BY <2>1, <2>2, GivesRefuses, GivesReads
  <1>3. ASSUME GetAssignment(r, i)
        PROVE  Refuses(r, i) \/ Reads(r, i)
    <2>1. Called(r, i, "getAssignment") /\ ((\E err : Fails(r, i, err)) \/ Gives(r, i, "value"))
      BY <1>3, Zenon DEF GetAssignment
    <2>2. "getAssignment" \in DOMAIN Query
      BY DEF Query
    <2> QED BY <2>1, <2>2, FailsRefuses, GivesReads
  <1>4. ASSUME AuditLog_(r, i)
        PROVE  Refuses(r, i) \/ Reads(r, i)
    <2>1. \/ Called(r, i, "auditLog") /\ \E word \in {"value", "null"} : Gives(r, i, word)
          \/ Called(r, i, "auditLogs") /\ ((\E err : Fails(r, i, err)) \/ Gives(r, i, "value"))
      BY <1>4, Zenon DEF AuditLog_
    <2>2. {"auditLog", "auditLogs"} \subseteq DOMAIN Query
      BY DEF Query
    <2> QED BY <2>1, <2>2, FailsRefuses, GivesRefuses, GivesReads
  <1> QED BY <1>1, <1>2, <1>3, <1>4

\* The same of users; Login refuses, or has read its row.
LEMMA UserShapes ==
  ASSUME NEW r, NEW i
  PROVE  /\ CreateUser(r, i) => Refuses(r, i) \/ Changes(r, i)
         /\ UpdateUser(r, i) => Refuses(r, i) \/ Changes(r, i)
         /\ DeleteUser(r, i) => Refuses(r, i) \/ Changes(r, i)
         /\ GetUser(r, i) => Refuses(r, i) \/ Reads(r, i)
         /\ Login(r, i) => Refuses(r, i) \/ ReadsRow(r, i)
  <1>1. ASSUME CreateUser(r, i)
        PROVE  Refuses(r, i) \/ Changes(r, i)
    <2>1. Called(r, i, "createUser")
          /\ ((\E err : Fails(r, i, err)) \/ (Commits(r, i) /\ \E id \in UserIds : \E u : Put(id, u)))
      BY <1>1, Zenon DEF CreateUser
    <2> QED BY <2>1, FailsRefuses DEF Changes, Changing
  <1>2. ASSUME UpdateUser(r, i)
        PROVE  Refuses(r, i) \/ Changes(r, i)
    <2>1. Called(r, i, "updateUser")
          /\ ((\E err : Fails(r, i, err)) \/ (Commits(r, i) /\ \E id \in UserIds : \E u : Put(id, u)))
      BY <1>2, Zenon DEF UpdateUser
    <2> QED BY <2>1, FailsRefuses DEF Changes, Changing
  <1>3. ASSUME DeleteUser(r, i)
        PROVE  Refuses(r, i) \/ Changes(r, i)
    <2>1. Called(r, i, "deleteUser")
          /\ (Gives(r, i, "false") \/ (Commits(r, i) /\ \E id \in UserIds : \E u : Put(id, u)))
      BY <1>3, Zenon DEF DeleteUser
    <2> QED BY <2>1, GivesRefuses DEF Changes, Changing
  <1>4. ASSUME GetUser(r, i)
        PROVE  Refuses(r, i) \/ Reads(r, i)
    <2>1. /\ Called(r, i, "user") \/ Called(r, i, "userByEmail")
          /\ \E word \in {"value", "null"} : Gives(r, i, word)
      BY <1>4 DEF GetUser
    <2>2. {"user", "userByEmail"} \subseteq DOMAIN Query
      BY DEF Query
    <2> QED BY <2>1, <2>2, GivesRefuses, GivesReads
  <1>5. ASSUME Login(r, i)
        PROVE  Refuses(r, i) \/ ReadsRow(r, i)
    BY <1>5, FailsRefuses, Zenon DEF Login, ReadsRow, UsersWith
  <1> QED BY <1>1, <1>2, <1>3, <1>4, <1>5

\* However a field is resolved, it has its turn, and the step has one of five shapes.
LEMMA Shapes ==
  ASSUME NEW r, NEW i, Resolve(r, i)
  PROVE  /\ pc[r] = "fields" /\ i \in Due(r)
         /\ Refuses(r, i) \/ Reads(r, i) \/ Changes(r, i) \/ ReadsRow(r, i) \/ IssueToken(r, i)
  <1>1. pc[r] = "fields" /\ i \in Due(r)
    <2>1. CASE ArgsError(r, i) \/ Denied(r, i)
      BY <2>1 DEF ArgsError, Denied
    <2>2. CASE \E name : AtField(r, i, name)
      BY <2>2, CalledDue
    <2>3. (\E name : Called(r, i, name)) => \E name : AtField(r, i, name)
      BY DEF Called
    <2> QED
      BY <2>1, <2>2, <2>3, Zenon
      DEF Resolve, CreateFlag, UpdateFlag, DeleteFlag, EvaluateFlag, CreateExperiment,
          Experiment_, GetAssignment, AuditLog_, CreateUser, UpdateUser, DeleteUser, GetUser, Login,
          IssueToken
  <1>2. ArgsError(r, i) => Refuses(r, i)
    BY GivesRefuses DEF ArgsError
  <1>3. Denied(r, i) => Refuses(r, i)
    BY FailsRefuses DEF Denied
  <1> QED BY <1>1, <1>2, <1>3, FlagShapes, ExperimentShapes, UserShapes DEF Resolve

\* What goes wrong at a field is a refusal when it has its turn.
LEMMA FaultShapes ==
  ASSUME NEW r, NEW i, FieldFault(r, i)
  PROVE  pc[r] = "fields" /\ i \in Due(r) /\ Refuses(r, i)
  <1>1. CASE StoreFails(r, i)
    <2>1. \E name : AtField(r, i, name)
      BY <1>1, Zenon DEF StoreFails, Called
    <2>2. Refuses(r, i)
      BY <1>1, FailsRefuses DEF StoreFails
    <2> QED BY <2>1, <2>2, CalledDue
  <1>2. CASE Panics(r, i)
    BY <1>2, FailsRefuses DEF Panics
  <1> QED BY <1>1, <1>2 DEF FieldFault

-----------------------------------------------------------------------------
\* What each step does to the history of roles: nothing, or it is brought up to date.
LEMMA HeldLater ==
  ASSUME GType, held' = HeldNow(users', clock'), clock' \in Nat, clock <= clock',
         users' = [id \in UserIds |-> users'[id]]
  PROVE  /\ held' \in [UserIds -> [Role -> Nat \cup {Nil}]]
         /\ \A id \in UserIds, role \in Role :
              /\ held'[id][role] # Nil => held'[id][role] <= clock'
              /\ held[id][role] # Nil => held'[id][role] # Nil /\ held[id][role] <= held'[id][role]
         /\ RolesHeld'
  <1>1. ASSUME NEW id \in UserIds, NEW role \in Role
        PROVE  held'[id][role] = IF IsRow(users'[id]) /\ users'[id].role = role THEN clock'
                                 ELSE held[id][role]
    BY DEF HeldNow
  <1>2. held' \in [UserIds -> [Role -> Nat \cup {Nil}]]
    <2>1. \A id \in UserIds, role \in Role : held[id][role] \in Nat \cup {Nil}
      BY DEF GType
    <2>2. \A id \in UserIds, role \in Role :
            (IF IsRow(users'[id]) /\ users'[id].role = role THEN clock' ELSE held[id][role])
              \in Nat \cup {Nil}
      BY <2>1
    <2> QED BY <2>2 DEF HeldNow
  <1>3. ASSUME NEW id \in UserIds, NEW role \in Role
        PROVE  /\ held'[id][role] # Nil => held'[id][role] <= clock'
               /\ held[id][role] # Nil => held'[id][role] # Nil /\ held[id][role] <= held'[id][role]
    <2>1. held[id][role] \in Nat \cup {Nil} /\ (held[id][role] # Nil => held[id][role] <= clock)
      BY DEF GType
    <2>2. clock \in Nat /\ clock' # Nil
      BY GatewayAssumption DEF GType
    <2> QED BY <1>1, <2>1, <2>2
  <1>4. RolesHeld'
    BY <1>1 DEF RolesHeld, IsRow
  <1> QED BY <1>2, <1>3, <1>4

\* What was backed stays so while the history of roles goes on.
LEMMA StaysBacked ==
  ASSUME GType, GType', NEW id, NEW role, NEW t \in Int, Backed(id, role, t),
         \A i \in UserIds, ro \in Role :
           held[i][ro] # Nil => held'[i][ro] # Nil /\ held[i][ro] <= held'[i][ro]
  PROVE  Backed(id, role, t)'
  <1>1. id \in UserIds
    BY DEF Backed
  <1>2. ASSUME role \in Role
        PROVE  held'[id][role] # Nil /\ t <= held'[id][role] + Expiry + RequestTicks
    <2>1. held[id][role] # Nil /\ t <= held[id][role] + Expiry + RequestTicks
      BY <1>2 DEF Backed
    <2>2. held[id][role] \in Nat /\ held'[id][role] \in Nat /\ held[id][role] <= held'[id][role]
          /\ held'[id][role] # Nil
      BY <1>1, <1>2, <2>1 DEF GType
    <2> QED BY <2>1, <2>2, GatewayAssumption
  <1> QED BY <1>1, <1>2 DEF Backed

\* Tokens, logins and claims stay backed in a step that hands out none.
LEMMA KeepsAuthority ==
  ASSUME GInv, GType', RolesHeld', clock' = clock \/ clock' = clock + 1,
         UNCHANGED <<tokens, row, claims, began>>,
         \A id \in UserIds, role \in Role :
           held[id][role] # Nil => held'[id][role] # Nil /\ held[id][role] <= held'[id][role],
         \A r \in Requests :
           /\ pc'[r] = "idle" => pc[r] = "idle"
           /\ pc'[r] = "fields" => pc[r] = "fields" /\ clock' <= began[r] + RequestTicks
  PROVE  Authority'
  <1>1. GType
    BY DEF GInv
  <1>2. TokensBacked'
    <2> SUFFICES ASSUME NEW t \in tokens
                 PROVE  t.exp \in Nat /\ Backed(t.sub, t.role, t.exp)'
      BY DEF TokensBacked
    <2>1. t.exp \in Nat /\ Backed(t.sub, t.role, t.exp)
      BY DEF GInv, Authority, TokensBacked
    <2> DEFINE id == t.sub  role == t.role  exp == t.exp
    <2>2. Backed(id, role, exp) /\ exp \in Int
      BY <2>1
    <2> HIDE DEF id, role, exp
    <2>3. Backed(id, role, exp)'
      BY <1>1, <2>2, StaysBacked
    <2> QED BY <2>1, <2>3 DEF id, role, exp
  <1>3. ASSUME NEW r \in Requests
        PROVE  LoginBacked(r)'
    <2>1. pc'[r] = "fields" => clock' <= began'[r] + RequestTicks
      OBVIOUS
    <2>2. ASSUME row'[r] # Nil
          PROVE  /\ pc'[r] # "idle" /\ row'[r].sub \in UserIds
                 /\ row'[r].role \in Role =>
                      /\ held'[row'[r].sub][row'[r].role] # Nil
                      /\ began'[r] <= held'[row'[r].sub][row'[r].role]
      <3> DEFINE id == row[r].sub  role == row[r].role
      <3>1. /\ pc[r] # "idle" /\ id \in UserIds
            /\ role \in Role => held[id][role] # Nil /\ began[r] <= held[id][role]
        BY <2>2 DEF GInv, Authority, LoginBacked
      <3> HIDE DEF id, role
      <3>2. ASSUME role \in Role
            PROVE  held'[id][role] # Nil /\ began[r] <= held'[id][role]
        <4>1. held[id][role] \in Nat /\ held'[id][role] \in Nat /\ began[r] \in Nat
          BY <3>1, <3>2 DEF GInv, GType
        <4> QED BY <3>1, <3>2, <4>1
      <3>3. row'[r].sub = id /\ row'[r].role = role /\ began'[r] = began[r] /\ pc'[r] # "idle"
        BY <3>1 DEF id, role
      <3> QED BY <3>1, <3>2, <3>3
    <2> QED BY <2>1, <2>2 DEF LoginBacked
  <1>4. ASSUME NEW r \in Requests
        PROVE  ClaimsBacked(r)'
    <2> SUFFICES ASSUME claims[r] # Nil
                 PROVE  pc'[r] # "idle" /\ Backed(claims[r].sub, claims[r].role, began[r] + 1)'
      BY DEF ClaimsBacked
    <2>1. PICK id, role, t : id = claims[r].sub /\ role = claims[r].role /\ t = began[r] + 1
      OBVIOUS
    <2>2. pc[r] # "idle" /\ Backed(id, role, t) /\ t \in Int
      BY <2>1 DEF GInv, GType, Authority, ClaimsBacked
    <2>3. Backed(id, role, t)'
      BY <1>1, <2>2, StaysBacked
    <2> QED BY <2>1, <2>2, <2>3 DEF Backed
  <1> QED BY <1>2, <1>3, <1>4 DEF Authority

-----------------------------------------------------------------------------
\* Every name of a change is one of a mutation, and no name of a read is.
LEMMA Names ==
  /\ Changing \cap DOMAIN Query = {}
  /\ DOMAIN Mutation \cap DOMAIN Query = {}
  /\ DOMAIN Mutation = Changing \cup {"login"}
  /\ \A name \in DOMAIN Mutation : Mutation[name].nonNull
  <1>1. DOMAIN Mutation = Changing \cup {"login"}
    BY DEF Mutation, Changing
  <1>2. DOMAIN Query = {"evaluateFlag", "auditLog", "auditLogs", "experiment", "getAssignment",
                        "user", "userByEmail"}
    BY DEF Query
  <1>3. \A name \in DOMAIN Mutation : Mutation[name].nonNull
    BY DEF Mutation, NonNull, Mutation_createFlag, Mutation_updateFlag, Mutation_deleteFlag,
           Mutation_login, Mutation_createExperiment, Mutation_createUser, Mutation_updateUser,
           Mutation_deleteUser
  <1> QED BY <1>1, <1>2, <1>3 DEF Changing

\* A field that is answered is one of the operation that was let through.
LEMMA FieldKnown ==
  ASSUME GInv, NEW r \in Requests, NEW i \in DOMAIN answers[r]
  PROVE  /\ i \in Int
         /\ Query_(r).operation \in {"mutation", "query"}
         /\ Field(r, i).name \in DOMAIN RootType(Query_(r).operation)
  <1>1. Valid(Query_(r)) /\ DOMAIN answers[r] = DOMAIN Query_(r).fields /\ call[r] # Nil
    BY DEF GInv, Bookkeeping, Admitted
  <1>2. i \in Int
    BY <1>1, GatewayAssumption DEF GInv, GType, Query_
  <1>3. Query_(r).operation \in {"mutation", "query"}
        /\ Field(r, i).name \in DOMAIN RootType(Query_(r).operation)
    BY <1>1 DEF Valid, Field, Query_
  <1> QED BY <1>2, <1>3

\* One field is answered, and what was committed for it is recorded.
LEMMA FieldAnswered ==
  ASSUME GInv, NEW r \in Requests, NEW i \in Due(r), NEW word, word # "none", pc[r] = "fields",
         Answer(r, i, word), UNCHANGED context,
         \/ log' = log
         \/ /\ word \in {"value", "ERROR"} /\ Query_(r).operation = "mutation"
            /\ \E e : log' = log \cup {e} /\ e.by = r /\ e.field = i,
         (word = "value" /\ Query_(r).operation = "mutation") =>
            Field(r, i).name = "login" \/ Changed(r, i)'
  PROVE  Bookkeeping'
  <1>1. /\ pc' = pc /\ resp' = resp /\ call' = call
        /\ i \in DOMAIN answers[r] /\ answers[r][i] = "none"
        /\ answers = [s \in Requests |-> answers[s]]
        /\ \A s \in Requests : answers[s] = [j \in DOMAIN answers[s] |-> answers[s][j]]
    BY DEF context, Due, GInv, GType
  <1>2. \A s \in Requests : DOMAIN answers'[s] = DOMAIN answers[s]
    BY <1>1 DEF Answer
  <1>3. \A s \in Requests : \A j \in DOMAIN answers[s] :
          answers'[s][j] = IF s = r /\ j = i THEN word ELSE answers[s][j]
    BY <1>1 DEF Answer
  <1>4. log \subseteq log'
    OBVIOUS
  <1>5. \A s \in Requests : \A j : Changed(s, j) => Changed(s, j)'
    BY <1>4 DEF Changed
  <1>6. \A s \in Requests : Admitted(s)'
    <2>1. \A s \in Requests : Admitted(s)
      BY DEF GInv, Bookkeeping
    <2>2. \A s \in Requests : Query_(s)' = Query_(s)
      BY <1>1 DEF Query_
    <2>3. (answers[r] = <<>>)' => FALSE
      BY <1>1, <1>2
    <2>4. ASSUME NEW s \in Requests
          PROVE  Admitted(s)'
      <3>1. pc'[s] = "idle" => answers'[s] = <<>> /\ call'[s] # Nil
        BY <1>1, <2>1 DEF Admitted, Answer
      <3> QED BY <1>1, <1>2, <2>1, <2>2, <3>1 DEF Admitted
    <2> QED BY <2>4
  <1>7. ASSUME NEW s \in Requests
        PROVE  Honest(s)'
    <2>1. Honest(s)
      BY DEF GInv, Bookkeeping
    <2>2. /\ Query_(s)' = Query_(s) /\ \A j : Field(s, j)' = Field(s, j)
          /\ pc'[s] = pc[s] /\ resp'[s] = resp[s]
      BY <1>1 DEF Query_, Field
    <2>3. s = r => resp[s] # "data"
      BY <2>1 DEF Honest
    <2>4. ASSUME NEW j \in DOMAIN answers'[s], answers'[s][j] = "value", Query_(s).operation = "mutation"
          PROVE  Field(s, j).name = "login" \/ Changed(s, j)'
      BY <1>2, <1>3, <1>5, <2>1, <2>4 DEF Honest
    <2>5. ASSUME NEW j \in DOMAIN answers'[s], resp[s] = "data"
          PROVE  \/ answers'[s][j] \in {"value", "false"}
                 \/ ~RootType(Query_(s).operation)[Field(s, j).name].nonNull
      BY <1>2, <1>3, <2>1, <2>3, <2>5 DEF Honest
    <2> QED BY <2>1, <2>2, <2>4, <2>5 DEF Honest
  <1>8. ASSUME NEW e \in log
        PROVE  Recorded(e)'
    <2>1. Recorded(e)
      BY DEF GInv, Bookkeeping
    <2>2. /\ e.field \in DOMAIN answers'[e.by] /\ answers'[e.by][e.field] \in {"value", "ERROR"}
      BY <1>1, <1>2, <1>3, <2>1 DEF Recorded
    <2>3. ASSUME NEW j \in 1..e.field
          PROVE  answers'[e.by][j] # "none"
      <3>1. e.by \in Requests /\ answers[e.by][j] # "none"
        BY <2>1 DEF Recorded
      <3>2. CASE j \in DOMAIN answers[e.by]
        BY <1>3, <3>1, <3>2
      <3>3. CASE j \notin DOMAIN answers[e.by]
        <4> QED BY <1>1, <1>2, <3>1, <3>3 DEF Answer
      <3> QED BY <3>2, <3>3
    <2> QED BY <1>1, <2>1, <2>2, <2>3 DEF Recorded
  <1>9. ASSUME NEW e, log' = log \cup {e}, e.by = r, e.field = i, word \in {"value", "ERROR"},
               Query_(r).operation = "mutation"
        PROVE  Recorded(e)'
    <2>1. i \in Int
      BY <1>1, FieldKnown
    <2>2. resp[r] \notin {"unauthorized", "tooLarge", "refused"}
      BY DEF GInv, Bookkeeping, Honest
    <2>3. ASSUME NEW j \in 1..i
          PROVE  answers'[r][j] # "none"
      <3>1. CASE j = i
        BY <1>1, <1>3, <1>9, <3>1
      <3>2. CASE j # i
        <4>1. j \in 1..(i - 1)
          BY <2>1, <3>2
        <4>2. answers[r][j] # "none"
          BY <1>9, <4>1 DEF Due
        <4> QED BY <1>1, <3>2, <4>2 DEF Answer
      <3> QED BY <3>1, <3>2
    <2>4. i \in DOMAIN answers'[r] /\ answers'[r][i] \in {"value", "ERROR"}
      BY <1>1, <1>2, <1>3, <1>9
    <2> QED BY <1>1, <1>9, <2>2, <2>3, <2>4 DEF Recorded
  <1>10. \A e \in log' : Recorded(e)'
    BY <1>8, <1>9
  <1> QED BY <1>6, <1>7, <1>10 DEF Bookkeeping

\* A step that answers no field: those that are answered stay so.
LEMMA NoFieldAnswered ==
  ASSUME GInv, UNCHANGED <<answers, log, call>>,
         \A s \in Requests :
           \/ pc'[s] = pc[s] /\ resp'[s] = resp[s]
           \/ pc[s] \in {"idle", "fields"} /\ pc'[s] = "done" /\ resp'[s] \in {"panic", "null"}
           \/ /\ pc[s] = "fields" /\ pc'[s] = "done" /\ resp'[s] = "data"
              /\ \A i \in DOMAIN answers[s] :
                   \/ answers[s][i] \in {"value", "false"}
                   \/ ~RootType(Query_(s).operation)[Field(s, i).name].nonNull
  PROVE  Bookkeeping'
  <1>1. \A s \in Requests : Query_(s)' = Query_(s) /\ \A j : Field(s, j)' = Field(s, j)
    BY DEF Query_, Field
  <1>2. \A s \in Requests : \A j : Changed(s, j)' <=> Changed(s, j)
    BY DEF Changed
  <1>3. ASSUME NEW s \in Requests
        PROVE  Admitted(s)'
    BY <1>1 DEF GInv, Bookkeeping, Admitted
  <1>4. ASSUME NEW s \in Requests
        PROVE  Honest(s)'
    <2>1. Honest(s)
      BY DEF GInv, Bookkeeping
    <2>2. \A j \in DOMAIN answers[s] :
            (answers[s][j] = "value" /\ Query_(s).operation = "mutation") =>
              Field(s, j).name = "login" \/ Changed(s, j)
      BY <2>1 DEF Honest
    <2>3. \A j \in DOMAIN answers[s] : resp'[s] = "data" =>
              \/ answers[s][j] \in {"value", "false"}
              \/ ~RootType(Query_(s).operation)[Field(s, j).name].nonNull
      BY <2>1 DEF Honest
    <2>4. resp'[s] \in {"data", "unauthorized", "tooLarge", "refused"} => pc'[s] = "done"
      BY <2>1 DEF Honest
    <2> QED BY <1>1, <1>2, <2>2, <2>3, <2>4 DEF Honest
  <1>5. ASSUME NEW e \in log'
        PROVE  Recorded(e)'
    <2>1. Recorded(e)
      BY DEF GInv, Bookkeeping
    <2> QED BY <2>1 DEF Recorded
  <1> QED BY <1>3, <1>4, <1>5 DEF Bookkeeping

-----------------------------------------------------------------------------
\* Steps that leave the tables, the clock and the tokens alone.
LEMMA KeepsStill ==
  ASSUME GInv, UNCHANGED <<clock, users, held, tokens, row, claims, began, call>>,
         resp' = [r \in Requests |-> resp'[r]], answers' = [r \in Requests |-> answers'[r]],
         \A r \in Requests : answers'[r] = [i \in DOMAIN answers'[r] |-> answers'[r][i]],
         pc' \in [Requests -> {"idle", "fields", "done"}],
         \A r \in Requests : pc'[r] = pc[r] \/ (pc[r] \in {"idle", "fields"} /\ pc'[r] = "done")
  PROVE  GType' /\ Authority'
  <1>1. GType'
    BY DEF GInv, GType
  <1>2. RolesHeld'
    BY DEF GInv, Authority, RolesHeld
  <1>3. ASSUME NEW id \in UserIds, NEW role \in Role, held[id][role] # Nil
        PROVE  held'[id][role] # Nil /\ held[id][role] <= held'[id][role]
    <2>1. held[id][role] \in Nat
      BY <1>3 DEF GInv, GType
    <2> QED BY <1>3, <2>1
  <1>4. ASSUME NEW r \in Requests
        PROVE  /\ pc'[r] = "idle" => pc[r] = "idle"
               /\ pc'[r] = "fields" => pc[r] = "fields" /\ clock' <= began[r] + RequestTicks
    BY DEF GInv, Authority, LoginBacked
  <1> QED BY <1>1, <1>2, <1>3, <1>4, KeepsAuthority

\* The answers stay functions when one of them is given.
LEMMA AnswerTypes ==
  ASSUME GType, NEW r \in Requests, NEW i, NEW word, Answer(r, i, word)
  PROVE  /\ answers' = [s \in Requests |-> answers'[s]]
         /\ \A s \in Requests : answers'[s] = [j \in DOMAIN answers'[s] |-> answers'[s][j]]
  <1>1. /\ answers = [s \in Requests |-> answers[s]]
        /\ \A s \in Requests : answers[s] = [j \in DOMAIN answers[s] |-> answers[s][j]]
    BY DEF GType
  <1>2. answers' = [s \in Requests |-> answers'[s]]
    BY <1>1 DEF Answer
  <1>3. \A s \in Requests : answers'[s] = IF s = r THEN [answers[r] EXCEPT ![i] = word] ELSE answers[s]
    BY <1>1 DEF Answer
  <1> QED BY <1>1, <1>2, <1>3

\* Each shape of a resolver keeps the invariant: an answer without a change.
LEMMA KeepsRefuses ==
  ASSUME GInv, NEW r \in Requests, NEW i \in Due(r), pc[r] = "fields", Refuses(r, i)
  PROVE  GInv'
  <1>1. PICK word \in Codes \cup {"false", "null"} : Answer(r, i, word)
    BY DEF Refuses
  <1>2. UNCHANGED <<users, held, log, clock, pc, call, claims, resp, began, tokens, row>>
    BY DEF Refuses, tables, frame, context
  <1>3. word # "none" /\ word # "value"
    BY DEF Codes
  <1>4. Bookkeeping'
    BY <1>1, <1>2, <1>3, FieldAnswered DEF context
  <1>5. GType' /\ Authority'
    BY <1>1, <1>2, AnswerTypes, KeepsStill DEF GInv, GType
  <1> QED BY <1>4, <1>5 DEF GInv

\* The value of a query, which is no mutation's.
LEMMA KeepsReads ==
  ASSUME GInv, NEW r \in Requests, NEW i \in Due(r), pc[r] = "fields", Reads(r, i)
  PROVE  GInv'
  <1>1. Answer(r, i, "value") /\ Field(r, i).name \in DOMAIN Query
    BY DEF Reads
  <1>2. UNCHANGED <<users, held, log, clock, pc, call, claims, resp, began, tokens, row>>
    BY DEF Reads, tables, frame, context
  <1>3. Query_(r).operation # "mutation"
    BY <1>1, FieldKnown, Names DEF RootType, Due
  <1>4. Bookkeeping'
    BY <1>1, <1>2, <1>3, FieldAnswered DEF context
  <1>5. GType' /\ Authority'
    BY <1>1, <1>2, AnswerTypes, KeepsStill DEF GInv, GType
  <1> QED BY <1>4, <1>5 DEF GInv

\* What a client is told when the acknowledgement of a commit is lost.
LEMMA DriverErrorShown == PresentError(DriverError) = "ERROR"
  BY DEF PresentError, DriverError, NewError, isUnauthorizedError, isForbiddenError,
         isInvalidCredentialsError, isInternalConfigError

\* A commit: it is recorded together with its answer, and roles are kept up to date.
LEMMA KeepsChanges ==
  ASSUME GInv, NEW r \in Requests, NEW i \in Due(r), pc[r] = "fields", Changes(r, i)
  PROVE  GInv'
  <1>1. PICK word \in {"value", "ERROR"} : Answer(r, i, word)
    BY DriverErrorShown DEF Changes, Commits
  <1>2. \E e : log' = log \cup {e} /\ e.by = r /\ e.field = i
    <2> DEFINE e == [by |-> r, field |-> i, name |-> Field(r, i).name, actor |-> claims[r].sub]
    <2>1. log' = log \cup {e}
      BY DEF Changes, Commits
    <2>2. e.by = r /\ e.field = i
      OBVIOUS
    <2> HIDE DEF e
    <2> QED BY <2>1, <2>2
  <1>3. UNCHANGED <<clock, pc, call, claims, resp, began, tokens, row>> /\ UNCHANGED context
    BY DEF Changes, Commits, frame, context
  <1>4. Field(r, i).name \in Changing
    BY DEF Changes, Called, AtField
  <1>5. Query_(r).operation = "mutation"
    BY <1>4, FieldKnown, Names DEF RootType, Due
  <1>6. Changed(r, i)'
    BY <1>2 DEF Changed
  <1>7. Bookkeeping'
    BY <1>1, <1>2, <1>3, <1>5, <1>6, FieldAnswered
  <1>8. /\ answers' = [s \in Requests |-> answers'[s]]
        /\ \A s \in Requests : answers'[s] = [j \in DOMAIN answers'[s] |-> answers'[s][j]]
    BY <1>1, AnswerTypes DEF GInv
  <1>9. GType' /\ Authority'
    <2>1. CASE UNCHANGED <<users, held>>
      BY <1>3, <1>8, <2>1, KeepsStill DEF GInv, GType
    <2>2. CASE \E id \in UserIds : \E u : Put(id, u)
      <3>1. users' = [id \in UserIds |-> users'[id]] /\ held' = HeldNow(users', clock')
        BY <1>3, <2>2 DEF Put, GInv, GType
      <3>2. clock' \in Nat /\ clock <= clock' /\ clock' = clock
        BY <1>3 DEF GInv, GType
      <3>3. /\ held' \in [UserIds -> [Role -> Nat \cup {Nil}]]
            /\ \A id \in UserIds, role \in Role :
                 /\ held'[id][role] # Nil => held'[id][role] <= clock'
                 /\ held[id][role] # Nil => held'[id][role] # Nil /\ held[id][role] <= held'[id][role]
            /\ RolesHeld'
        BY <3>1, <3>2, HeldLater DEF GInv
      <3>4. GType'
        BY <1>3, <1>8, <3>1, <3>2, <3>3 DEF GInv, GType
      <3>5. \A s \in Requests :
              /\ pc'[s] = "idle" => pc[s] = "idle"
              /\ pc'[s] = "fields" => pc[s] = "fields" /\ clock' <= began[s] + RequestTicks
        BY <1>3 DEF GInv, Authority, LoginBacked
      <3> QED BY <1>3, <3>2, <3>3, <3>4, <3>5, KeepsAuthority
    <2> QED BY <2>1, <2>2 DEF Changes
  <1> QED BY <1>7, <1>9 DEF GInv

\* The row that Login has read says what its user is now.
LEMMA KeepsReadsRow ==
  ASSUME GInv, NEW r \in Requests, NEW i, pc[r] = "fields", ReadsRow(r, i)
  PROVE  GInv'
  <1>1. UNCHANGED <<users, held, log, clock, pc, call, claims, resp, began, tokens, answers>>
    BY DEF ReadsRow, tables, context
  <1>2. PICK id \in UserIds :
          IsRow(users[id]) /\ row' = [row EXCEPT ![r] = [sub |-> id, role |-> users[id].role]]
    BY DEF ReadsRow
  <1>3. Bookkeeping'
    BY <1>1, NoFieldAnswered
  <1>4. GType'
    BY <1>1, <1>2 DEF GInv, GType
  <1>5. RolesHeld' /\ TokensBacked' /\ \A s \in Requests : ClaimsBacked(s)'
    BY <1>1 DEF GInv, Authority, RolesHeld, TokensBacked, ClaimsBacked, Backed
  <1>6. \A s \in Requests \ {r} : row'[s] = row[s]
    BY <1>2 DEF GInv, GType
  <1>7. \A s \in Requests \ {r} : LoginBacked(s)'
    BY <1>1, <1>6 DEF GInv, Authority, LoginBacked
  <1>8. LoginBacked(r)'
    <2>1. row'[r] = [sub |-> id, role |-> users[id].role]
      BY <1>2 DEF GInv, GType
    <2>2. pc'[r] = "fields" => clock' <= began'[r] + RequestTicks
      BY <1>1 DEF GInv, Authority, LoginBacked
    <2>3. ASSUME users[id].role \in Role
          PROVE  held[id][users[id].role] # Nil /\ began[r] <= held[id][users[id].role]
      <3>1. held[id][users[id].role] = clock
        BY <1>2, <2>3 DEF GInv, Authority, RolesHeld
      <3> QED BY <3>1, GatewayAssumption DEF GInv, GType
    <2> QED BY <1>1, <2>1, <2>2, <2>3 DEF LoginBacked
  <1> QED BY <1>3, <1>4, <1>5, <1>7, <1>8 DEF GInv, Authority

\* A login that took no longer than a request may: its token ends in time.
LEMMA KeepsIssueToken ==
  ASSUME GInv, NEW r \in Requests, NEW i \in Due(r), pc[r] = "fields", IssueToken(r, i)
  PROVE  GInv'
  <1>1. /\ UNCHANGED <<users, held, log, clock, pc, call, claims, resp, began>> /\ UNCHANGED context
        /\ Answer(r, i, "value") /\ row' = [row EXCEPT ![r] = Nil] /\ row[r] # Nil
        /\ Field(r, i).name = "login"
    BY DEF IssueToken, AtField, tables, context
  <1>2. PICK id, role, exp : id = row[r].sub /\ role = row[r].role /\ exp = clock + Expiry
    OBVIOUS
  <1>3. tokens' = tokens \cup {[sub |-> id, role |-> role, exp |-> exp]}
    BY <1>2 DEF IssueToken
  <1>4. Bookkeeping'
    BY <1>1, FieldAnswered
  <1>5. GType'
    BY <1>1, AnswerTypes DEF GInv, GType
  <1>6. RolesHeld' /\ \A s \in Requests : ClaimsBacked(s)'
    BY <1>1 DEF GInv, Authority, RolesHeld, ClaimsBacked, Backed
  <1>7. \A s \in Requests : row'[s] = IF s = r THEN Nil ELSE row[s]
    BY <1>1 DEF GInv, GType
  <1>8. \A s \in Requests : LoginBacked(s)'
    BY <1>1, <1>7 DEF GInv, Authority, LoginBacked
  <1>9. exp \in Nat /\ Backed(id, role, exp)
    <2>1. /\ clock <= began[r] + RequestTicks /\ id \in UserIds
          /\ role \in Role => held[id][role] # Nil /\ began[r] <= held[id][role]
      BY <1>1, <1>2 DEF GInv, Authority, LoginBacked
    <2>2. exp \in Nat
      BY <1>2, GatewayAssumption DEF GInv, GType
    <2>3. ASSUME role \in Role
          PROVE  exp <= held[id][role] + Expiry + RequestTicks
      <3>1. clock \in Nat /\ began[r] \in Nat /\ held[id][role] \in Nat
        BY <2>1, <2>3 DEF GInv, GType
      <3> QED BY <1>2, <2>1, <2>3, <3>1, GatewayAssumption
    <2> QED BY <2>1, <2>2, <2>3 DEF Backed
  <1>10. TokensBacked'
    <2>1. ASSUME NEW t \in tokens
          PROVE  t.exp \in Nat /\ Backed(t.sub, t.role, t.exp)'
      BY <1>1 DEF GInv, Authority, TokensBacked, Backed
    <2>2. Backed(id, role, exp)'
      BY <1>1, <1>9 DEF Backed
    <2>3. \A t \in tokens' : t \in tokens \/ t = [sub |-> id, role |-> role, exp |-> exp]
      BY <1>3
    <2> HIDE DEF Backed
    <2> QED BY <1>9, <2>1, <2>2, <2>3 DEF TokensBacked
  <1> QED BY <1>4, <1>5, <1>6, <1>8, <1>10 DEF GInv, Authority

\* Together: a field is resolved, or a fault is its answer.
LEMMA KeepsResolve ==
  ASSUME GInv, NEW r \in Requests, NEW i, Resolve(r, i) \/ FieldFault(r, i)
  PROVE  GInv'
  BY Shapes, FaultShapes, KeepsRefuses, KeepsReads, KeepsChanges, KeepsReadsRow, KeepsIssueToken

-----------------------------------------------------------------------------
\* The answer is written: data only if every field has what it must have.
LEMMA KeepsRespond ==
  ASSUME GInv, NEW r \in Requests, Respond(r)
  PROVE  GInv'
  <1> DEFINE invalids == {i \in DOMAIN answers[r] : answers[r][i] \notin {"value", "false"}
                            /\ RootType(Query_(r).operation)[Field(r, i).name].nonNull}
  <1>1. /\ pc[r] = "fields" /\ pc' = [pc EXCEPT ![r] = "done"]
        /\ resp' = [resp EXCEPT ![r] = IF invalids = {} THEN "data" ELSE "null"]
        /\ UNCHANGED <<users, held, log, clock, call, claims, began, tokens, row, answers>>
    BY DEF Respond, Finish, tables
  <1>2. \A s \in Requests : s # r => pc'[s] = pc[s] /\ resp'[s] = resp[s]
    BY <1>1 DEF GInv, GType
  <1>3. pc'[r] = "done" /\ resp'[r] = IF invalids = {} THEN "data" ELSE "null"
    BY <1>1 DEF GInv, GType
  <1>4. Bookkeeping'
    <2>1. CASE invalids = {}
      BY <1>1, <1>2, <1>3, <2>1, NoFieldAnswered
    <2>2. CASE invalids # {}
      BY <1>1, <1>2, <1>3, <2>2, NoFieldAnswered
    <2> QED BY <2>1, <2>2
  <1>5. GType' /\ Authority'
    <2>1. resp' = [s \in Requests |-> resp'[s]] /\ pc' \in [Requests -> {"idle", "fields", "done"}]
      BY <1>1 DEF GInv, GType
    <2> QED BY <1>1, <1>2, <1>3, <2>1, KeepsStill DEF GInv, GType
  <1> QED BY <1>4, <1>5 DEF GInv

\* A panic outside of the fields answers none of them.
LEMMA KeepsRecovery ==
  ASSUME GInv, NEW r \in Requests, Recovery(r)
  PROVE  GInv'
  <1>1. /\ pc[r] \in {"idle", "fields"}
        /\ pc' = [pc EXCEPT ![r] = "done"] /\ resp' = [resp EXCEPT ![r] = "panic"]
        /\ UNCHANGED <<users, held, log, clock, call, claims, began, tokens, row, answers>>
    BY DEF Recovery, Finish, tables
  <1>2. \A s \in Requests : s # r => pc'[s] = pc[s] /\ resp'[s] = resp[s]
    BY <1>1 DEF GInv, GType
  <1>3. pc'[r] = "done" /\ resp'[r] = "panic"
    BY <1>1 DEF GInv, GType
  <1>4. Bookkeeping'
    BY <1>1, <1>2, <1>3, NoFieldAnswered
  <1>5. GType' /\ Authority'
    <2>1. resp' = [s \in Requests |-> resp'[s]] /\ pc' \in [Requests -> {"idle", "fields", "done"}]
      BY <1>1 DEF GInv, GType
    <2> QED BY <1>1, <1>2, <1>3, <2>1, KeepsStill DEF GInv, GType
  <1> QED BY <1>4, <1>5 DEF GInv

\* The clock goes on, but not past the time of a request at work; roles are held until now.
LEMMA KeepsTick ==
  ASSUME GInv, Tick
  PROVE  GInv'
  <1>1. /\ clock' = clock + 1 /\ held' = HeldNow(users', clock')
        /\ UNCHANGED <<users, flags, experiments, log, tokens, pc, call, claims, resp, began, row, answers>>
    BY DEF Tick, HeldNow
  <1>2. clock \in Nat /\ clock' \in Nat /\ clock <= clock' /\ users' = [id \in UserIds |-> users'[id]]
    BY <1>1 DEF GInv, GType
  <1>3. /\ held' \in [UserIds -> [Role -> Nat \cup {Nil}]]
        /\ \A id \in UserIds, role \in Role :
             /\ held'[id][role] # Nil => held'[id][role] <= clock'
             /\ held[id][role] # Nil => held'[id][role] # Nil /\ held[id][role] <= held'[id][role]
        /\ RolesHeld'
    BY <1>1, <1>2, HeldLater DEF GInv
  <1>4. \A s \in Requests : began'[s] \in Nat /\ began'[s] <= clock'
    BY <1>1, <1>2 DEF GInv, GType
  <1>5. GType'
    BY <1>1, <1>2, <1>3, <1>4 DEF GInv, GType
  <1>6. ASSUME NEW s \in Requests
        PROVE  /\ pc'[s] = "idle" => pc[s] = "idle"
               /\ pc'[s] = "fields" => pc[s] = "fields" /\ clock' <= began[s] + RequestTicks
    <2>1. began[s] \in Nat /\ RequestTicks \in Nat
      BY GatewayAssumption DEF GInv, GType
    <2>2. pc[s] = "fields" => clock < began[s] + RequestTicks
      BY DEF Tick, AtWork
    <2> QED BY <1>1, <1>2, <2>1, <2>2
  <1>7. Authority'
    BY <1>1, <1>3, <1>5, <1>6, KeepsAuthority
  <1>8. Bookkeeping'
    BY <1>1, NoFieldAnswered
  <1> QED BY <1>5, <1>7, <1>8 DEF GInv

-----------------------------------------------------------------------------
\* A request comes: refused, it leaves nothing behind; let in, its claims are those of a token
\* that has not expired.
LEMMA KeepsServeHTTP ==
  ASSUME GInv, NEW r \in Requests, ServeHTTP(r)
  PROVE  GInv'
  <1>1. /\ pc[r] = "idle" /\ began' = [began EXCEPT ![r] = clock]
        /\ UNCHANGED <<users, held, log, clock, call, tokens, row>>
    BY DEF ServeHTTP, tables
  <1>2. PICK token \in tokens :
          \/ /\ \E word : Finish(r, word)
             /\ UNCHANGED <<claims, answers>>
          \/ /\ pc' = [pc EXCEPT ![r] = "fields"] /\ Valid(call[r].query)
             /\ claims' = [claims EXCEPT ![r] = IF call[r].header = "token"
                                                THEN ParseAndValidate(token) ELSE Nil]
             /\ answers' = [answers EXCEPT ![r] = [i \in DOMAIN call[r].query.fields |-> "none"]]
             /\ UNCHANGED resp
    <2>1. \A token : Chain(call[r], token) = "none" => Valid(call[r].query)
      BY DEF Chain, CreateOperationContext
    <2> QED BY <2>1, Zenon DEF ServeHTTP
  <1>3. /\ answers[r] = <<>> /\ call[r] # Nil /\ row[r] = Nil /\ claims[r] = Nil
        /\ \A e \in log : e.by # r
        /\ resp[r] \notin {"data", "unauthorized", "tooLarge", "refused"}
    BY <1>1 DEF GInv, Authority, LoginBacked, ClaimsBacked, Bookkeeping, Admitted, Recorded, Honest
  <1>4. /\ pc'[r] \in {"fields", "done"} /\ began'[r] = clock
        /\ pc'[r] = "fields" => resp'[r] = resp[r] /\ Valid(call[r].query)
                                /\ answers'[r] = [i \in DOMAIN call[r].query.fields |-> "none"]
        /\ pc'[r] = "done" => answers'[r] = <<>>
        /\ claims'[r] # Nil => claims'[r] = ParseAndValidate(token)
    BY <1>1, <1>2, <1>3 DEF Finish, GInv, GType
  <1>5. \A s \in Requests : s # r =>
          /\ pc'[s] = pc[s] /\ began'[s] = began[s] /\ resp'[s] = resp[s]
          /\ answers'[s] = answers[s] /\ claims'[s] = claims[s]
    BY <1>1, <1>2, <1>3 DEF Finish, GInv, GType
  <1>6. GType'
    <2>1. /\ pc' \in [Requests -> {"idle", "fields", "done"}]
          /\ began' \in [Requests -> Nat]
          /\ claims' = [s \in Requests |-> claims'[s]] /\ answers' = [s \in Requests |-> answers'[s]]
          /\ resp' = [s \in Requests |-> resp'[s]]
      BY <1>1, <1>2 DEF Finish, GInv, GType
    <2>2. \A s \in Requests : answers'[s] = [i \in DOMAIN answers'[s] |-> answers'[s][i]]
      <3>1. \A s \in Requests \ {r} : answers'[s] = [i \in DOMAIN answers'[s] |-> answers'[s][i]]
        BY <1>5 DEF GInv, GType
      <3>2. CASE pc'[r] = "fields"
        <4>1. answers'[r] = [i \in DOMAIN answers'[r] |-> answers'[r][i]]
          BY <1>4, <3>2
        <4> QED BY <3>1, <4>1
      <3>3. CASE pc'[r] = "done"
        <4>1. answers'[r] = answers[r]
          BY <1>3, <1>4, <3>3
        <4> QED BY <3>1, <4>1 DEF GInv, GType
      <3> QED BY <1>4, <3>2, <3>3
    <2>3. \A s \in Requests : began'[s] <= clock'
      BY <1>1, <1>4, <1>5 DEF GInv, GType
    <2> QED BY <1>1, <2>1, <2>2, <2>3 DEF GInv, GType
  <1>7. RolesHeld' /\ TokensBacked'
    BY <1>1 DEF GInv, Authority, RolesHeld, TokensBacked, Backed
  <1>8. ASSUME NEW s \in Requests
        PROVE  LoginBacked(s)' /\ ClaimsBacked(s)'
    <2>1. CASE s # r
      BY <1>1, <1>5, <2>1 DEF GInv, Authority, LoginBacked, ClaimsBacked, Backed
    <2>2. CASE s = r
      <3>1. LoginBacked(r)'
        <4>1. clock <= clock + RequestTicks
          BY GatewayAssumption DEF GInv, GType
        <4> QED BY <1>1, <1>3, <1>4, <4>1 DEF LoginBacked
      <3>2. ASSUME claims'[r] # Nil
            PROVE  /\ claims'[r].sub \in UserIds
                   /\ claims'[r].role \in Role =>
                        /\ held'[claims'[r].sub][claims'[r].role] # Nil
                        /\ began'[r] + 1 <= held'[claims'[r].sub][claims'[r].role] + Expiry + RequestTicks
        <4>1. claims'[r] = [sub |-> token.sub, role |-> token.role] /\ clock < token.exp
          BY <1>4, <3>2 DEF ParseAndValidate
        <4>2. PICK id, role, exp : id = token.sub /\ role = token.role /\ exp = token.exp
          OBVIOUS
        <4>3. exp \in Nat /\ Backed(id, role, exp)
          BY <4>2 DEF GInv, Authority, TokensBacked
        <4>4. ASSUME role \in Role
              PROVE  held[id][role] # Nil /\ clock + 1 <= held[id][role] + Expiry + RequestTicks
          <5>1. /\ held[id][role] # Nil /\ exp <= held[id][role] + Expiry + RequestTicks
                /\ id \in UserIds
            BY <4>3, <4>4 DEF Backed
          <5>2. held[id][role] \in Nat /\ clock \in Nat
            BY <4>4, <5>1 DEF GInv, GType
          <5> QED BY <4>1, <4>2, <4>3, <5>1, <5>2, GatewayAssumption
        <4>5. claims'[r].sub = id /\ claims'[r].role = role
          BY <4>1, <4>2
        <4>6. id \in UserIds
          BY <4>3 DEF Backed
        <4> QED BY <1>1, <1>4, <4>4, <4>5, <4>6
      <3>3. ClaimsBacked(r)'
        BY <1>4, <3>2 DEF ClaimsBacked, Backed
      <3> QED BY <2>2, <3>1, <3>3
    <2> QED BY <2>1, <2>2
  <1>9. \A s \in Requests : Query_(s)' = Query_(s) /\ \A j : Field(s, j)' = Field(s, j)
    BY <1>1 DEF Query_, Field
  <1>10. ASSUME NEW s \in Requests
         PROVE  Admitted(s)' /\ Honest(s)'
    <2>1. CASE s # r
      <3>1. \A j : Changed(s, j)' <=> Changed(s, j)
        BY <1>1 DEF Changed
      <3>2. Admitted(s) /\ Honest(s)
        BY DEF GInv, Bookkeeping
      <3>3. Admitted(s)'
        BY <1>1, <1>5, <1>9, <2>1, <3>2 DEF Admitted
      <3>4. Honest(s)'
        BY <1>1, <1>5, <1>9, <2>1, <3>1, <3>2 DEF Honest
      <3> QED BY <3>3, <3>4
    <2>2. CASE s = r
      <3>1. Admitted(r)'
        BY <1>1, <1>3, <1>4, <1>9 DEF Admitted, Query_
      <3>2. \A i \in DOMAIN answers'[r] : pc'[r] = "fields" /\ answers'[r][i] = "none"
        BY <1>4
      <3>3. Honest(r)'
        BY <1>3, <1>4, <3>2 DEF Honest
      <3> QED BY <2>2, <3>1, <3>3
    <2> QED BY <2>1, <2>2
  <1>11. ASSUME NEW e \in log'
         PROVE  Recorded(e)'
    BY <1>1, <1>3, <1>5 DEF GInv, Bookkeeping, Recorded
  <1> QED BY <1>6, <1>7, <1>8, <1>10, <1>11 DEF GInv, Authority, Bookkeeping

\* To begin with, only tokens say anything, of the roles that users have then.
LEMMA InitInv == Init => GInv
  <1> SUFFICES ASSUME Init
               PROVE  GInv
    OBVIOUS
  <1>1. GType
    BY GatewayAssumption DEF Init, GType
  <1>2. ASSUME NEW id \in UserIds, NEW role \in Role, IsRow(SeedUsers[id]), SeedUsers[id].role = role
        PROVE  held[id][role] = 0
    BY <1>2 DEF Init
  <1>3. RolesHeld
    BY <1>2 DEF Init, RolesHeld
  <1>4. TokensBacked
    <2> SUFFICES ASSUME NEW id \in UserIds, IsRow(SeedUsers[id])
                 PROVE  Expiry \in Nat /\ Backed(id, SeedUsers[id].role, Expiry)
      BY DEF Init, TokensBacked
    <2>1. SeedUsers[id].role \in Role => held[id][SeedUsers[id].role] = 0
      BY <1>2
    <2>2. Expiry \in Nat /\ Expiry <= 0 + Expiry + RequestTicks /\ 0 # Nil
      BY GatewayAssumption
    <2> QED BY <2>1, <2>2 DEF Backed
  <1>5. Authority
    BY <1>3, <1>4 DEF Init, Authority, LoginBacked, ClaimsBacked
  <1>6. Bookkeeping
    BY GatewayAssumption DEF Init, Bookkeeping, Admitted, Honest
  <1> QED BY <1>1, <1>5, <1>6 DEF GInv

\* Every step keeps the invariant.
LEMMA NextKeeps == GInv /\ [Next]_vars => GInv'
  <1> SUFFICES ASSUME GInv, [Next]_vars
               PROVE  GInv'
    OBVIOUS
  <1>1. CASE Tick
    BY <1>1, KeepsTick
  <1>2. CASE UNCHANGED vars
    <2>1. UNCHANGED <<clock, users, held, log, tokens, pc, call, claims, resp, began, row, answers>>
      BY <1>2 DEF vars, tables, context
    <2>2. Bookkeeping'
      BY <2>1, NoFieldAnswered
    <2> QED BY <2>1, <2>2, KeepsStill DEF GInv, GType
  <1>3. ASSUME NEW r \in Requests, ServeHTTP(r)
        PROVE  GInv'
    BY <1>3, KeepsServeHTTP
  <1>4. ASSUME NEW r \in Requests, Advance(r) \/ Fault(r)
        PROVE  GInv'
    BY <1>4, KeepsRecovery, KeepsRespond, KeepsResolve DEF Advance, Fault
  <1> QED BY <1>1, <1>2, <1>3, <1>4 DEF Next, AllDone

\* The inductive invariant holds for any requests, users, tokens and times.
THEOREM Invariance == Spec => []GInv
BY InitInv, NextKeeps, PTL DEF Spec

\* (AnswerTellsChanges) What is recorded of a change, and what an answer is honest about, is
\* what a client can conclude from an answer; every field of a mutation must have a value.
THEOREM AnswersTellChanges == Spec => []AnswerTellsChanges
  <1>1. GInv => AnswerTellsChanges
    <2> SUFFICES ASSUME GInv, NEW r \in Requests
                 PROVE  /\ resp[r] \in {"unauthorized", "tooLarge", "refused"} => \A e \in log : e.by # r
                        /\ \A i \in DOMAIN answers[r] :
                             /\ answers[r][i] \notin {"value", "ERROR"} => ~Changed(r, i)
                             /\ Changed(r, i) => \A j \in 1..i : answers[r][j] # "none"
                        /\ (resp[r] = "data" /\ Query_(r).operation = "mutation") =>
                             \A i \in DOMAIN answers[r] :
                               \/ answers[r][i] = "false"
                               \/ answers[r][i] = "value"
                                  /\ (Field(r, i).name = "login" \/ Changed(r, i))
      BY DEF AnswerTellsChanges
    <2>1. \A e \in log : Recorded(e)
      BY DEF GInv, Bookkeeping
    <2>2. resp[r] \in {"unauthorized", "tooLarge", "refused"} => \A e \in log : e.by # r
      BY <2>1 DEF Recorded
    <2>3. ASSUME NEW i \in DOMAIN answers[r], Changed(r, i)
          PROVE  answers[r][i] \in {"value", "ERROR"} /\ \A j \in 1..i : answers[r][j] # "none"
      BY <2>1, <2>3 DEF Changed, Recorded
    <2>4. ASSUME NEW i \in DOMAIN answers[r], resp[r] = "data", Query_(r).operation = "mutation"
          PROVE  \/ answers[r][i] = "false"
                 \/ answers[r][i] = "value" /\ (Field(r, i).name = "login" \/ Changed(r, i))
      <3>1. Field(r, i).name \in DOMAIN Mutation
        BY <2>4, FieldKnown DEF RootType
      <3>2. RootType(Query_(r).operation)[Field(r, i).name].nonNull
        BY <2>4, <3>1, Names DEF RootType
      <3> QED BY <2>4, <3>2 DEF GInv, Bookkeeping, Honest
    <2> QED BY <2>2, <2>3, <2>4
  <1> QED BY <1>1, Invariance, PTL

-----------------------------------------------------------------------------
\* The log and the flags are written by a field that is resolved, and by nothing else: not by
\* what comes before and after the fields, nor by a fault.
LEMMA WhoWrites ==
  ASSUME [Next]_vars, log' # log \/ flags' # flags
  PROVE  \E r, i : r \in Requests /\ Resolve(r, i)
  <1>1. ~UNCHANGED vars /\ ~Tick
    BY DEF vars, tables, Tick
  <1>2. \A r \in Requests : ~ServeHTTP(r) /\ ~Recovery(r) /\ ~Respond(r)
    BY DEF ServeHTTP, Recovery, Respond, tables
  <1>3. \A r, i : ~FieldFault(r, i)
    BY FaultShapes DEF Refuses, tables
  <1> QED BY <1>1, <1>2, <1>3 DEF Next, AllDone, Advance, Fault

\* A change is committed by a field of a request that is at work.
LEMMA WhoCommits ==
  ASSUME [Next]_vars, NEW e \in log' \ log
  PROVE  \E r, i : r \in Requests /\ Resolve(r, i) /\ Changes(r, i)
  <1>1. log' # log
    OBVIOUS
  <1>2. PICK r, i : r \in Requests /\ Resolve(r, i)
    BY <1>1, WhoWrites
  <1>3. ~Refuses(r, i) /\ ~Reads(r, i) /\ ~ReadsRow(r, i) /\ ~IssueToken(r, i)
    BY <1>1 DEF Refuses, Reads, ReadsRow, IssueToken, tables
  <1> QED BY <1>2, <1>3, Shapes

\* The one record that a commit adds.
LEMMA WhatCommits ==
  ASSUME NEW r, NEW i, Commits(r, i), NEW e \in log' \ log
  PROVE  e = [by |-> r, field |-> i, name |-> Field(r, i).name, actor |-> claims[r].sub]
  BY DEF Commits

\* (Entitled) Who may change something has the claims of a token that was valid when the
\* request came, and its user had that role when the token was signed, or had just lost it.
THEOREM EntitledHolds == Spec => Entitled
  <1>1. ASSUME GInv, [Next]_vars, NEW e \in log' \ log
        PROVE  ByRight(e)
    <2>1. PICK r, i : r \in Requests /\ Resolve(r, i) /\ Changes(r, i)
      BY <1>1, WhoCommits
    <2>2. PICK name \in Changing : Called(r, i, name)
      BY <2>1 DEF Changes
    <2>3. Field(r, i).name = name /\ claims[r] # Nil /\ claims[r].role \in AllowedRoles(name)
      BY <2>2 DEF Called, AtField, RequireRole
    <2>4. e = [by |-> r, field |-> i, name |-> name, actor |-> claims[r].sub]
      BY <2>1, <2>3, WhatCommits DEF Changes
    <2>5. AllowedRoles(name) \subseteq DocumentedRoles(name) /\ AllowedRoles(name) \subseteq Role
      BY <2>2 DEF Changing, AllowedRoles, DocumentedRoles, FlagsRoles, ExperimentsRoles, UsersRoles, Role
    <2>6. PICK id, role : id = claims[r].sub /\ role = claims[r].role
      OBVIOUS
    <2>7. /\ role \in Role /\ id \in UserIds
          /\ held[id][role] # Nil /\ began[r] + 1 <= held[id][role] + Expiry + RequestTicks
      BY <1>1, <2>1, <2>3, <2>5, <2>6 DEF GInv, Authority, ClaimsBacked, Backed
    <2>8. held[id][role] \in Nat /\ began[r] \in Nat
      BY <1>1, <2>1, <2>7 DEF GInv, GType
    <2>9. began[r] < held[id][role] + Expiry + RequestTicks
      BY <2>7, <2>8, GatewayAssumption
    <2> QED BY <2>3, <2>4, <2>5, <2>6, <2>7, <2>9 DEF ByRight
  <1>2. GInv /\ [Next]_vars => \A e \in log' \ log : ByRight(e)
    BY <1>1
  <1> QED BY <1>2, Invariance, PTL DEF Spec, Entitled

-----------------------------------------------------------------------------
\* A leaf that was taken is what was sent, and nil for null.
LEMMA LeafAsSent ==
  ASSUME NEW field, NEW v, ~field.list, UnmarshalField(field, v) # Error
  PROVE  UnmarshalField(field, v) = IF v = Null THEN Nil ELSE v
  BY DEF UnmarshalField, UnmarshalLeaf, UnmarshalScalar

\* A list of rules that passed the validator is taken as it was sent.
LEMMA RulesAsSent ==
  ASSUME NEW v, v # Null, v = [j \in DOMAIN v |-> v[j]],
         \A j \in DOMAIN v : v[j] = [k \in DOMAIN v[j] |-> v[j][k]],
         SoundField(OptionalList("RuleInput"), v),
         UnmarshalField(OptionalList("RuleInput"), v) # Error
  PROVE  UnmarshalField(OptionalList("RuleInput"), v) = v
  <1> DEFINE got == [j \in DOMAIN v |-> UnmarshalElement("RuleInput", v[j])]
  <1>1. UnmarshalField(OptionalList("RuleInput"), v) = UnmarshalList("RuleInput", v)
    BY DEF UnmarshalField, OptionalList
  <1>2. UnmarshalList("RuleInput", v) = got /\ \A j \in DOMAIN v : got[j] # Error
    BY <1>1 DEF UnmarshalList
  <1>3. ASSUME NEW j \in DOMAIN v
        PROVE  got[j] = v[j]
    <2>1. ElementInputs["RuleInput"] = RuleInput /\ DOMAIN RuleInput = {"type", "value"}
          /\ \A k \in {"type", "value"} : RuleInput[k].required /\ ~RuleInput[k].list
      BY DEF ElementInputs, RuleInput, Required
    <2>2. WellFormed(RuleInput, v[j])
      BY <2>1 DEF SoundField, OptionalList, SoundElement
    <2>3. DOMAIN v[j] = {"type", "value"} /\ v[j].type # Null /\ v[j].value # Null
      BY <2>1, <2>2 DEF WellFormed
    <2> DEFINE leaves == [k \in DOMAIN v[j] |-> UnmarshalLeaf(RuleInput[k], v[j][k])]
    <2>4. got[j] = UnmarshalFields(RuleInput, leaves) /\ got[j] # Error
      BY <1>2, <2>1 DEF UnmarshalElement
    <2>5. /\ \A k \in {"type", "value"} : leaves[k] # Error
          /\ got[j] = [k \in {"type", "value"} |-> leaves[k]]
      BY <2>1, <2>3, <2>4 DEF UnmarshalFields
    <2>6. ASSUME NEW k \in {"type", "value"}
          PROVE  leaves[k] = v[j][k]
      BY <2>3, <2>5 DEF UnmarshalLeaf, UnmarshalScalar
    <2>7. v[j] = [k \in {"type", "value"} |-> v[j][k]]
      BY <2>3
    <2> HIDE DEF leaves, got
    <2> QED BY <2>5, <2>6, <2>7
  <1> QED BY <1>1, <1>2, <1>3

\* An input that was taken has, for each of its fields, nil or what was sent for it.
LEMMA InputAsSent ==
  ASSUME NEW type \in DOMAIN ArgumentInputs, NEW raw,
         SoundArgs([input |-> Required(type)], raw),
         NEW args, args # Error,
         args = UnmarshalFields([input |-> Required(type)],
                  [k \in DOMAIN raw |-> UnmarshalArg([input |-> Required(type)][k], raw[k])])
  PROVE  /\ "input" \in DOMAIN raw /\ SoundInput(ArgumentInputs[type], raw.input)
         /\ \A k \in DOMAIN raw.input :
              UnmarshalField(ArgumentInputs[type][k], raw.input[k]) # Error
         /\ args.input = [k \in DOMAIN ArgumentInputs[type] |->
                            IF k \in DOMAIN raw.input
                            THEN UnmarshalField(ArgumentInputs[type][k], raw.input[k]) ELSE Nil]
  <1> DEFINE fields == [input |-> Required(type)]
             got == [k \in DOMAIN raw |-> UnmarshalArg(fields[k], raw[k])]
             in == UnmarshalInput(type, raw.input)
             taken == [k \in DOMAIN raw.input |-> UnmarshalField(ArgumentInputs[type][k], raw.input[k])]
  <1>1. DOMAIN fields = {"input"} /\ fields.input.required /\ fields.input.of = type
    BY DEF Required
  <1>2. "input" \in DOMAIN raw /\ raw.input # Null
    BY <1>1 DEF SoundArgs, WellFormed
  <1>3. SoundInput(ArgumentInputs[type], raw.input)
    BY <1>1, <1>2 DEF SoundArgs, Present, SoundArg
  <1>4. got.input = in
    BY <1>1, <1>2 DEF UnmarshalArg
  <1>5. args.input = in /\ in # Error
    <2>1. args = UnmarshalFields(fields, got)
      OBVIOUS
    <2> HIDE DEF fields, got, in
    <2>2. got["input"] = in /\ "input" \in DOMAIN got
      BY <1>2, <1>4 DEF got
    <2> QED BY <1>1, <2>1, <2>2 DEF UnmarshalFields
  <1>6. in = UnmarshalFields(ArgumentInputs[type], taken)
    BY DEF UnmarshalInput
  <1>7. \A k \in DOMAIN raw.input :
          taken[k] # Error /\ taken[k] = UnmarshalField(ArgumentInputs[type][k], raw.input[k])
    BY <1>5, <1>6 DEF UnmarshalFields
  <1>8. in = [k \in DOMAIN ArgumentInputs[type] |-> IF k \in DOMAIN raw.input THEN taken[k] ELSE Nil]
    BY <1>5, <1>6 DEF UnmarshalFields
  <1> HIDE DEF taken, in, got, fields
  <1> QED BY <1>2, <1>3, <1>5, <1>7, <1>8

\* A field of a mutation that has its turn has passed the validator.
LEMMA FieldAsked ==
  ASSUME GInv, NEW r \in Requests, NEW i \in Due(r), NEW name \in DOMAIN Mutation,
         Field(r, i).name = name, name \in Changing
  PROVE  /\ SoundArgs(Mutation[name].args, Field(r, i).args)
         /\ ArgsOf(r, i) = UnmarshalFields(Mutation[name].args,
              [k \in DOMAIN Field(r, i).args |-> UnmarshalArg(Mutation[name].args[k], Field(r, i).args[k])])
         /\ SentValues(Field(r, i).args)
  <1>1. i \in DOMAIN answers[r]
    BY DEF Due
  <1>2. Valid(Query_(r)) /\ i \in DOMAIN Query_(r).fields /\ call[r] # Nil /\ call \in Calls
    BY <1>1 DEF GInv, GType, Bookkeeping, Admitted
  <1>3. RootType(Query_(r).operation) = Mutation
    BY <1>1, FieldKnown, Names DEF RootType
  <1>4. SoundArgs(Mutation[name].args, Field(r, i).args)
    BY <1>2, <1>3 DEF Valid, Field, Query_
  <1>5. ArgsOf(r, i) = UnmarshalFields(Mutation[name].args,
           [k \in DOMAIN Field(r, i).args |-> UnmarshalArg(Mutation[name].args[k], Field(r, i).args[k])])
    BY <1>3 DEF ArgsOf, Args
  <1>6. Field(r, i) = call[r].query.fields[i] /\ Query_(r) = call[r].query
    BY DEF Field, Query_
  <1>7. SentValues(Field(r, i).args)
    <2>1. PICK c, q : c = call /\ q = call[r].query
      OBVIOUS
    <2>2. c \in Calls /\ c[r] # Nil /\ q = c[r].query /\ Valid(q) /\ i \in DOMAIN q.fields
      BY <1>2, <1>6, <2>1
    <2>3. Field(r, i).args = q.fields[i].args
      BY <1>6, <2>1
    <2> QED BY <2>2, <2>3, CallsAssumption
  <1> QED BY <1>4, <1>5, <1>7

\* Each field of an input, lists of variants aside, is what was sent for it, and nil if it was
\* left out or null was sent.
LEMMA InputAsked ==
  ASSUME GInv, NEW r \in Requests, NEW i \in Due(r), NEW name \in DOMAIN Mutation,
         Field(r, i).name = name, name \in Changing, ArgsOf(r, i) # Error,
         NEW type \in DOMAIN ArgumentInputs, Mutation[name].args = [input |-> Required(type)],
         NEW k \in DOMAIN ArgumentInputs[type],
         \/ ~ArgumentInputs[type][k].list
         \/ k = "rules" /\ ArgumentInputs[type][k] = OptionalList("RuleInput")
  PROVE  /\ ArgsOf(r, i).input[k] = SentOr(Field(r, i).args.input, k, Nil)
         /\ Sent(Field(r, i).args.input, k) => Field(r, i).args.input[k] # Nil
         /\ ArgumentInputs[type][k].required => Sent(Field(r, i).args.input, k)
  <1>1. PICK sent, args, fields :
          sent = Field(r, i).args /\ args = ArgsOf(r, i) /\ fields = ArgumentInputs[type]
    OBVIOUS
  <1>2. /\ SoundArgs(Mutation[name].args, Field(r, i).args)
        /\ ArgsOf(r, i) = UnmarshalFields(Mutation[name].args,
             [a \in DOMAIN Field(r, i).args |-> UnmarshalArg(Mutation[name].args[a], Field(r, i).args[a])])
        /\ SentValues(Field(r, i).args)
    BY FieldAsked
  <1>3. /\ SoundArgs([input |-> Required(type)], sent)
        /\ args = UnmarshalFields([input |-> Required(type)],
                    [a \in DOMAIN sent |-> UnmarshalArg([input |-> Required(type)][a], sent[a])])
    BY <1>1, <1>2
  <1>4. SentValues(sent)
    BY <1>1, <1>2
  <1>5. /\ "input" \in DOMAIN sent /\ SoundInput(fields, sent.input)
        /\ \A a \in DOMAIN sent.input : UnmarshalField(fields[a], sent.input[a]) # Error
        /\ args.input = [a \in DOMAIN fields |-> IF a \in DOMAIN sent.input
                                                THEN UnmarshalField(fields[a], sent.input[a]) ELSE Nil]
    BY <1>1, <1>3, InputAsSent
  <1>6. PICK raw : raw = sent.input
    OBVIOUS
  <1>7. k \in DOMAIN raw => raw[k] # Nil
    BY <1>4, <1>5, <1>6 DEF SentValues
  <1>8. fields[k].required => k \in DOMAIN raw /\ raw[k] # Null
    BY <1>1, <1>5, <1>6 DEF SoundInput, WellFormed
  <1>9. args.input[k] = SentOr(raw, k, Nil)
    <2>1. CASE k \notin DOMAIN raw
      BY <1>1, <1>5, <1>6, <2>1 DEF SentOr, Sent
    <2>2. CASE k \in DOMAIN raw /\ raw[k] = Null
      BY <1>1, <1>5, <1>6, <2>2 DEF SentOr, Sent, UnmarshalField, UnmarshalLeaf
    <2>3. CASE k \in DOMAIN raw /\ raw[k] # Null /\ ~fields[k].list
      <3>1. UnmarshalField(fields[k], raw[k]) = raw[k]
        BY <1>5, <1>6, <2>3, LeafAsSent
      <3> QED BY <1>1, <1>5, <1>6, <2>3, <3>1 DEF SentOr, Sent
    <2>4. CASE k = "rules" /\ k \in DOMAIN raw /\ raw[k] # Null /\ fields[k] = OptionalList("RuleInput")
      <3>1. PICK v : v = raw[k]
        OBVIOUS
      <3>2. v = [j \in DOMAIN v |-> v[j]] /\ \A j \in DOMAIN v : v[j] = [a \in DOMAIN v[j] |-> v[j][a]]
        BY <1>4, <1>5, <1>6, <2>4, <3>1 DEF SentValues
      <3>3. SoundField(OptionalList("RuleInput"), v)
        BY <1>5, <1>6, <2>4, <3>1 DEF SoundInput, Present
      <3>4. UnmarshalField(OptionalList("RuleInput"), v) # Error
        BY <1>5, <1>6, <2>4, <3>1
      <3>5. UnmarshalField(OptionalList("RuleInput"), v) = v
        BY <2>4, <3>1, <3>2, <3>3, <3>4, RulesAsSent
      <3> QED BY <1>1, <1>5, <1>6, <2>4, <3>1, <3>5 DEF SentOr, Sent
    <2> QED BY <1>1, <2>1, <2>2, <2>3, <2>4
  <1> QED BY <1>1, <1>6, <1>7, <1>8, <1>9 DEF Sent

\* What the resolvers of the four fields that ChangedIsWhatWasSent is about are handed.
LEMMA CreateFlagAsked ==
  ASSUME GInv, NEW r \in Requests, NEW i \in Due(r), Field(r, i).name = "createFlag", ArgsOf(r, i) # Error
  PROVE  LET in == ArgsOf(r, i).input
             raw == Field(r, i).args.input
         IN  /\ in.key = raw.key /\ in.environment = raw.environment
             /\ (IF in.rules = Nil THEN <<>> ELSE in.rules) = SentOr(raw, "rules", <<>>)
  <1>1. /\ "createFlag" \in DOMAIN Mutation /\ "createFlag" \in Changing
        /\ Mutation["createFlag"].args = [input |-> Required("CreateFlagInput")]
    BY DEF Mutation, Changing, Mutation_createFlag, NonNull, field_Mutation_createFlag_args
  <1>2. "CreateFlagInput" \in DOMAIN ArgumentInputs /\ ArgumentInputs["CreateFlagInput"] = CreateFlagInput
    BY DEF ArgumentInputs
  <1>3. /\ {"key", "environment", "rules"} \subseteq DOMAIN CreateFlagInput
        /\ \A k \in {"key", "environment"} : CreateFlagInput[k].required /\ ~CreateFlagInput[k].list
        /\ CreateFlagInput["rules"] = OptionalList("RuleInput")
    BY DEF CreateFlagInput, Required
  <1>4. ASSUME NEW k \in {"key", "environment"}
        PROVE  ArgsOf(r, i).input[k] = Field(r, i).args.input[k]
    BY <1>1, <1>2, <1>3, InputAsked DEF SentOr
  <1>5. LET in == ArgsOf(r, i).input
            raw == Field(r, i).args.input
        IN  in.rules = SentOr(raw, "rules", Nil) /\ (Sent(raw, "rules") => raw.rules # Nil)
    BY <1>1, <1>2, <1>3, InputAsked
  <1> QED BY <1>4, <1>5 DEF SentOr

\* Its stage may be left out, as its rules.
LEMMA UpdateFlagAsked ==
  ASSUME GInv, NEW r \in Requests, NEW i \in Due(r), Field(r, i).name = "updateFlag", ArgsOf(r, i) # Error
  PROVE  LET in == ArgsOf(r, i).input
             raw == Field(r, i).args.input
         IN  /\ in.key = raw.key /\ in.enabled = raw.enabled
             /\ StageOf(in.environment) = IF SentOr(raw, "environment", "") = "" THEN "dev"
                                          ELSE raw.environment
             /\ in.rules = SentOr(raw, "rules", Nil) /\ (Sent(raw, "rules") => raw.rules # Nil)
  <1>1. /\ "updateFlag" \in DOMAIN Mutation /\ "updateFlag" \in Changing
        /\ Mutation["updateFlag"].args = [input |-> Required("UpdateFlagInput")]
    BY DEF Mutation, Changing, Mutation_updateFlag, NonNull, field_Mutation_updateFlag_args
  <1>2. "UpdateFlagInput" \in DOMAIN ArgumentInputs /\ ArgumentInputs["UpdateFlagInput"] = UpdateFlagInput
    BY DEF ArgumentInputs
  <1>3. /\ {"key", "environment", "enabled", "rules"} \subseteq DOMAIN UpdateFlagInput
        /\ \A k \in {"key", "enabled"} : UpdateFlagInput[k].required /\ ~UpdateFlagInput[k].list
        /\ ~UpdateFlagInput["environment"].list
        /\ UpdateFlagInput["rules"] = OptionalList("RuleInput")
    BY DEF UpdateFlagInput, Required, Optional
  <1>4. ASSUME NEW k \in {"key", "enabled"}
        PROVE  ArgsOf(r, i).input[k] = Field(r, i).args.input[k]
    BY <1>1, <1>2, <1>3, InputAsked DEF SentOr
  <1>5. ASSUME NEW k \in {"environment", "rules"}
        PROVE  LET in == ArgsOf(r, i).input
                   raw == Field(r, i).args.input
               IN  in[k] = SentOr(raw, k, Nil) /\ (Sent(raw, k) => raw[k] # Nil)
    BY <1>1, <1>2, <1>3, InputAsked
  <1> QED BY <1>4, <1>5 DEF SentOr, StageOf

\* Its two arguments are scalars.
LEMMA DeleteFlagAsked ==
  ASSUME GInv, NEW r \in Requests, NEW i \in Due(r), Field(r, i).name = "deleteFlag", ArgsOf(r, i) # Error
  PROVE  /\ ArgsOf(r, i).key = Field(r, i).args.key
         /\ ArgsOf(r, i).environment = Field(r, i).args.environment
  <1> DEFINE fields == field_Mutation_deleteFlag_args
             raw == Field(r, i).args
             got == [k \in DOMAIN raw |-> UnmarshalArg(fields[k], raw[k])]
  <1>1. "deleteFlag" \in DOMAIN Mutation /\ "deleteFlag" \in Changing /\ Mutation["deleteFlag"].args = fields
    BY DEF Mutation, Changing, Mutation_deleteFlag, NonNull
  <1>2. SoundArgs(fields, raw) /\ ArgsOf(r, i) = UnmarshalFields(fields, got)
    BY <1>1, FieldAsked
  <1>3. /\ DOMAIN fields = {"key", "environment"}
        /\ \A k \in {"key", "environment"} : fields[k] = Required("String")
    BY DEF field_Mutation_deleteFlag_args
  <1>4. ASSUME NEW k \in {"key", "environment"}
        PROVE  k \in DOMAIN raw /\ got[k] = raw[k]
    <2>1. k \in DOMAIN raw /\ raw[k] # Null
      BY <1>2, <1>3 DEF SoundArgs, WellFormed, Required
    <2>2. "String" \notin DOMAIN ArgumentInputs /\ "String" \notin DOMAIN Enums
      BY DEF ArgumentInputs, Enums
    <2> QED BY <1>3, <2>1, <2>2 DEF UnmarshalArg, UnmarshalLeaf, UnmarshalScalar, Required
  <1>5. ArgsOf(r, i) = [k \in DOMAIN fields |-> IF k \in DOMAIN got THEN got[k] ELSE Nil]
    BY <1>2 DEF UnmarshalFields
  <1>6. DOMAIN got = DOMAIN raw
    OBVIOUS
  <1> HIDE DEF got, fields
  <1> QED BY <1>3, <1>4, <1>5, <1>6

\* All but the id may be left out.
LEMMA UpdateUserAsked ==
  ASSUME GInv, NEW r \in Requests, NEW i \in Due(r), Field(r, i).name = "updateUser", ArgsOf(r, i) # Error
  PROVE  LET in == ArgsOf(r, i).input
             raw == Field(r, i).args.input
         IN  /\ in.id = raw.id
             /\ \A k \in {"email", "role", "password"} :
                  in[k] = SentOr(raw, k, Nil) /\ (Sent(raw, k) => raw[k] # Nil)
  <1>1. /\ "updateUser" \in DOMAIN Mutation /\ "updateUser" \in Changing
        /\ Mutation["updateUser"].args = [input |-> Required("UpdateUserInput")]
    BY DEF Mutation, Changing, Mutation_updateUser, NonNull, field_Mutation_updateUser_args
  <1>2. "UpdateUserInput" \in DOMAIN ArgumentInputs /\ ArgumentInputs["UpdateUserInput"] = UpdateUserInput
    BY DEF ArgumentInputs
  <1>3. /\ DOMAIN UpdateUserInput = {"id", "email", "role", "password"}
        /\ \A k \in DOMAIN UpdateUserInput : ~UpdateUserInput[k].list
        /\ UpdateUserInput["id"].required
    BY DEF UpdateUserInput, Required, Optional
  <1>4. ASSUME NEW k \in DOMAIN UpdateUserInput
        PROVE  LET in == ArgsOf(r, i).input
                   raw == Field(r, i).args.input
               IN  in[k] = SentOr(raw, k, Nil) /\ (Sent(raw, k) => raw[k] # Nil)
    BY <1>1, <1>2, <1>3, InputAsked
  <1>5. Sent(Field(r, i).args.input, "id")
    BY <1>1, <1>2, <1>3, InputAsked
  <1> QED BY <1>3, <1>4, <1>5 DEF SentOr

-----------------------------------------------------------------------------
\* What the four of them do if they change anything.
LEMMA FlagWrites ==
  ASSUME NEW r, NEW i, flags' # flags \/ log' # log
  PROVE  /\ CreateFlag(r, i) =>
              LET in == ArgsOf(r, i).input
                  rules == IF in.rules = Nil THEN <<>> ELSE in.rules
              IN  \E strategy :
                    flags' = flags \cup {[key |-> in.key, environment |-> in.environment,
                                          enabled |-> FALSE, strategy |-> strategy, rules |-> rules]}
         /\ UpdateFlag(r, i) =>
              LET in == ArgsOf(r, i).input
              IN  \E f, strategy :
                    /\ f \in FlagAt(in.key, StageOf(in.environment))
                    /\ flags' = (flags \ {f})
                                  \cup {[f EXCEPT !.enabled = in.enabled, !.strategy = strategy,
                                                  !.rules = IF in.rules = Nil THEN f.rules ELSE in.rules]}
         /\ DeleteFlag(r, i) =>
              flags' = flags \ FlagAt(ArgsOf(r, i).key, ArgsOf(r, i).environment)
  <1>1. \A err : ~Fails(r, i, err)
    BY DEF Fails, tables
  <1> QED BY <1>1, Zenon DEF CreateFlag, UpdateFlag, DeleteFlag

\* The same of updateUser.
LEMMA UserWrites ==
  ASSUME NEW r, NEW i, log' # log, UpdateUser(r, i)
  PROVE  LET in == ArgsOf(r, i).input
             old == users[in.id]
         IN  /\ in.id \in UserIds
             /\ users' = [users EXCEPT ![in.id] =
                            [email |-> IF in.email = Nil THEN old.email ELSE in.email,
                             role |-> IF in.role = Nil THEN old.role ELSE in.role,
                             password |-> PasswordOf(in.password, old.password)]]
  <1>1. \A err : ~Fails(r, i, err)
    BY DEF Fails, tables
  <1> QED BY <1>1, Zenon DEF UpdateUser, Put

\* Only the three mutations of flags write flags, and each keeps the columns.
LEMMA FlagRowsKept == FlagRows /\ [Next]_vars => FlagRows'
  <1> SUFFICES ASSUME FlagRows, [Next]_vars, flags' # flags
               PROVE  FlagRows'
    BY DEF FlagRows
  <1>1. PICK r, i : r \in Requests /\ Resolve(r, i)
    BY WhoWrites
  <1>2. CreateFlag(r, i) \/ UpdateFlag(r, i) \/ DeleteFlag(r, i)
    <2>1. ~Refuses(r, i) /\ ~Reads(r, i) /\ ~ReadsRow(r, i) /\ ~IssueToken(r, i)
      BY DEF Refuses, Reads, ReadsRow, IssueToken, tables
    <2>2. \A err, word : ~Fails(r, i, err) /\ ~Gives(r, i, word)
      BY DEF Fails, Gives, tables
    <2>3. ~ArgsError(r, i) /\ ~Denied(r, i)
      BY <2>2, Zenon DEF ArgsError, Denied
    <2>4. ~CreateExperiment(r, i)
      BY <2>2, Zenon DEF CreateExperiment
    <2>5. \A id, u : ~Put(id, u)
      BY DEF Put
    <2>6. ~CreateUser(r, i) /\ ~UpdateUser(r, i) /\ ~DeleteUser(r, i)
      BY <2>2, <2>5, Zenon DEF CreateUser, UpdateUser, DeleteUser
    <2> QED BY <1>1, <2>1, <2>3, <2>4, <2>6, FlagShapes, ExperimentShapes, UserShapes DEF Resolve
  <1>3. CASE CreateFlag(r, i)
    <2>1. \E key, environment, strategy, rules :
            flags' = flags \cup {[key |-> key, environment |-> environment, enabled |-> FALSE,
                                  strategy |-> strategy, rules |-> rules]}
      <3> DEFINE in == ArgsOf(r, i).input
                 taken == IF in.rules = Nil THEN <<>> ELSE in.rules
      <3>1. PICK strategy :
              flags' = flags \cup {[key |-> in.key, environment |-> in.environment, enabled |-> FALSE,
                                    strategy |-> strategy, rules |-> taken]}
        BY <1>3, FlagWrites
      <3> QED BY <3>1
    <2> QED BY <2>1 DEF FlagRows
  <1>4. CASE UpdateFlag(r, i)
    <2>1. \E f \in flags : \E enabled, strategy, rules :
            flags' = (flags \ {f})
                       \cup {[f EXCEPT !.enabled = enabled, !.strategy = strategy, !.rules = rules]}
      <3> DEFINE in == ArgsOf(r, i).input
      <3>1. PICK f, strategy :
              /\ f \in FlagAt(in.key, StageOf(in.environment))
              /\ flags' = (flags \ {f})
                            \cup {[f EXCEPT !.enabled = in.enabled, !.strategy = strategy,
                                            !.rules = IF in.rules = Nil THEN f.rules ELSE in.rules]}
        BY <1>4, FlagWrites
      <3>2. f \in flags
        BY <3>1 DEF FlagAt
      <3> QED BY <3>1, <3>2
    <2> QED BY <2>1 DEF FlagRows
  <1>5. CASE DeleteFlag(r, i)
    <2>1. flags' = flags \ FlagAt(ArgsOf(r, i).key, ArgsOf(r, i).environment)
      BY <1>5, FlagWrites, Zenon
    <2>2. flags' \subseteq flags
      BY <2>1
    <2> QED BY <2>2 DEF FlagRows
  <1> QED BY <1>2, <1>3, <1>4, <1>5

\* So the rows of flags have their columns in every state.
LEMMA FlagRowsHold == Spec => []FlagRows
  <1>1. Init => FlagRows
    BY GatewayAssumption DEF Init, FlagRows
  <1> QED BY <1>1, FlagRowsKept, PTL DEF Spec

\* A step that commits a change named so is that action.
LEMMA NamedSo ==
  ASSUME NEW r, NEW i, Resolve(r, i), log' # log
  PROVE  /\ Field(r, i).name = "createFlag" => CreateFlag(r, i)
         /\ Field(r, i).name = "updateFlag" => UpdateFlag(r, i)
         /\ Field(r, i).name = "deleteFlag" => DeleteFlag(r, i)
         /\ Field(r, i).name = "updateUser" => UpdateUser(r, i)
  <1>1. ~Refuses(r, i) /\ ~Reads(r, i) /\ ~ReadsRow(r, i) /\ ~IssueToken(r, i)
    BY DEF Refuses, Reads, ReadsRow, IssueToken, tables
  <1>2. \A err, word : ~Fails(r, i, err) /\ ~Gives(r, i, word)
    BY DEF Fails, Gives, tables
  <1>3. ~ArgsError(r, i) /\ ~Denied(r, i)
    BY <1>2, Zenon DEF ArgsError, Denied
  <1>4. \/ CreateFlag(r, i) \/ UpdateFlag(r, i) \/ DeleteFlag(r, i) \/ CreateExperiment(r, i)
        \/ CreateUser(r, i) \/ UpdateUser(r, i) \/ DeleteUser(r, i)
    BY <1>1, <1>3, FlagShapes, ExperimentShapes, UserShapes DEF Resolve
  <1>5. /\ CreateFlag(r, i) => Field(r, i).name = "createFlag"
        /\ UpdateFlag(r, i) => Field(r, i).name = "updateFlag"
        /\ DeleteFlag(r, i) => Field(r, i).name = "deleteFlag"
        /\ CreateExperiment(r, i) => Field(r, i).name = "createExperiment"
        /\ CreateUser(r, i) => Field(r, i).name = "createUser"
        /\ UpdateUser(r, i) => Field(r, i).name = "updateUser"
        /\ DeleteUser(r, i) => Field(r, i).name = "deleteUser"
    BY Zenon DEF CreateFlag, UpdateFlag, DeleteFlag, CreateExperiment, CreateUser, UpdateUser, DeleteUser,
                 Called, AtField
  <1> QED BY <1>4, <1>5

\* (ChangedIsWhatWasSent) What is written to a row is what its field was sent, through the
\* unmarshalling of the generated code, the resolver and the service; what was left out stays.
THEOREM WrittenAsSent == Spec => ChangedIsWhatWasSent
  <1>1. ASSUME GInv, FlagRows, [Next]_vars, NEW e \in log' \ log
        PROVE  AsSent(e)
    <2>1. PICK r, i : r \in Requests /\ Resolve(r, i) /\ Changes(r, i)
      BY <1>1, WhoCommits
    <2>2. PICK name \in Changing : Called(r, i, name)
      BY <2>1 DEF Changes
    <2>3. i \in Due(r) /\ Field(r, i).name = name /\ ArgsOf(r, i) # Error
      BY <2>2 DEF Called, AtField
    <2>4. e = [by |-> r, field |-> i, name |-> name, actor |-> claims[r].sub]
      BY <2>1, <2>3, WhatCommits DEF Changes
    <2>5. log' # log
      BY <1>1
    <2> DEFINE sent == Field(r, i).args
    <2>6. e.by = r /\ e.field = i /\ e.name = name /\ Field(e.by, e.field).args = sent
      BY <2>4
    <2>7. ASSUME name = "createFlag"
          PROVE  /\ ChangedFlagsAre(sent.input.key, sent.input.environment)
                 /\ \A f \in flags' \ flags : f.rules = SentOr(sent.input, "rules", <<>>) /\ ~f.enabled
      <3> DEFINE in == ArgsOf(r, i).input
                 rules == IF in.rules = Nil THEN <<>> ELSE in.rules
      <3>1. CreateFlag(r, i)
        BY <2>1, <2>3, <2>5, <2>7, NamedSo
      <3>2. PICK strategy :
              flags' = flags \cup {[key |-> in.key, environment |-> in.environment, enabled |-> FALSE,
                                    strategy |-> strategy, rules |-> rules]}
        BY <2>5, <3>1, FlagWrites
      <3>3. /\ in.key = sent.input.key /\ in.environment = sent.input.environment
            /\ rules = SentOr(sent.input, "rules", <<>>)
        BY <1>1, <2>1, <2>3, <2>7, CreateFlagAsked
      <3> HIDE DEF in, rules, sent
      <3> QED BY <3>2, <3>3 DEF ChangedFlagsAre
    <2>8. ASSUME name = "updateFlag"
          PROVE  /\ ChangedFlagsAre(sent.input.key, IF SentOr(sent.input, "environment", "") = "" THEN "dev"
                                           ELSE sent.input.environment)
                 /\ \A f \in flags' \ flags, g \in flags \ flags' :
                      f.rules = SentOr(sent.input, "rules", g.rules) /\ f.enabled = sent.input.enabled
      <3> DEFINE in == ArgsOf(r, i).input
      <3>1. UpdateFlag(r, i)
        BY <2>1, <2>3, <2>5, <2>8, NamedSo
      <3>2. PICK old, strategy :
              /\ old \in FlagAt(in.key, StageOf(in.environment))
              /\ flags' = (flags \ {old})
                            \cup {[old EXCEPT !.enabled = in.enabled, !.strategy = strategy,
                                              !.rules = IF in.rules = Nil THEN old.rules ELSE in.rules]}
        BY <2>5, <3>1, FlagWrites
      <3>3. /\ in.key = sent.input.key /\ in.enabled = sent.input.enabled
            /\ StageOf(in.environment) = IF SentOr(sent.input, "environment", "") = "" THEN "dev"
                                         ELSE sent.input.environment
            /\ in.rules = SentOr(sent.input, "rules", Nil)
            /\ Sent(sent.input, "rules") => sent.input.rules # Nil
        BY <1>1, <2>1, <2>3, <2>8, UpdateFlagAsked
      <3>4. (IF in.rules = Nil THEN old.rules ELSE in.rules) = SentOr(sent.input, "rules", old.rules)
        BY <3>3 DEF SentOr
      <3>5. /\ old \in flags /\ old.key = in.key /\ old.environment = StageOf(in.environment)
            /\ DOMAIN old = {"key", "environment", "enabled", "strategy", "rules"}
        BY <1>1, <3>2 DEF FlagAt, FlagRows
      <3>6. PICK new : new = [old EXCEPT !.enabled = in.enabled, !.strategy = strategy,
                                !.rules = IF in.rules = Nil THEN old.rules ELSE in.rules]
        OBVIOUS
      <3>7. /\ new.key = old.key /\ new.environment = old.environment /\ new.enabled = in.enabled
            /\ new.rules = IF in.rules = Nil THEN old.rules ELSE in.rules
        BY <3>5, <3>6
      <3>8. flags' \ flags \subseteq {new} /\ flags \ flags' \subseteq {old}
        BY <3>2, <3>6
      <3> HIDE DEF in, sent
      <3> QED BY <3>3, <3>4, <3>5, <3>7, <3>8 DEF ChangedFlagsAre
    <2>9. ASSUME name = "deleteFlag"
          PROVE  ChangedFlagsAre(sent.key, sent.environment) /\ flags' \subseteq flags
      <3>1. DeleteFlag(r, i)
        BY <2>1, <2>3, <2>5, <2>9, NamedSo
      <3>2. flags' = flags \ FlagAt(ArgsOf(r, i).key, ArgsOf(r, i).environment)
        BY <2>5, <3>1, FlagWrites
      <3>3. ArgsOf(r, i).key = sent.key /\ ArgsOf(r, i).environment = sent.environment
        BY <1>1, <2>1, <2>3, <2>9, DeleteFlagAsked
      <3> HIDE DEF sent
      <3> QED BY <3>2, <3>3 DEF FlagAt, ChangedFlagsAre
    <2>10. ASSUME name = "updateUser"
           PROVE  LET in == sent.input
                  IN  /\ users'[in.id].email = SentOr(in, "email", users[in.id].email)
                      /\ users'[in.id].role = SentOr(in, "role", users[in.id].role)
                      /\ users'[in.id].password =
                           IF SentOr(in, "password", "") = "" THEN users[in.id].password ELSE in.password
                      /\ \A id \in UserIds \ {in.id} : users'[id] = users[id]
      <3> DEFINE in == ArgsOf(r, i).input
                 raw == sent.input
      <3>1. UpdateUser(r, i)
        BY <2>1, <2>3, <2>5, <2>10, NamedSo
      <3>2. /\ in.id \in UserIds
            /\ users' = [users EXCEPT ![in.id] =
                           [email |-> IF in.email = Nil THEN users[in.id].email ELSE in.email,
                            role |-> IF in.role = Nil THEN users[in.id].role ELSE in.role,
                            password |-> PasswordOf(in.password, users[in.id].password)]]
        BY <2>5, <3>1, UserWrites
      <3>3. /\ in.id = raw.id
            /\ \A k \in {"email", "role", "password"} :
                 in[k] = SentOr(raw, k, Nil) /\ (Sent(raw, k) => raw[k] # Nil)
        BY <1>1, <2>1, <2>3, <2>10, UpdateUserAsked
      <3>4. users = [id \in UserIds |-> users[id]]
        BY <1>1 DEF GInv, GType
      <3> HIDE DEF in, sent, raw
      <3>5. \A id \in UserIds \ {raw.id} : users'[id] = users[id]
        BY <3>2, <3>3, <3>4
      <3>6. users'[raw.id] = [email |-> IF in.email = Nil THEN users[raw.id].email ELSE in.email,
                              role |-> IF in.role = Nil THEN users[raw.id].role ELSE in.role,
                              password |-> PasswordOf(in.password, users[raw.id].password)]
        BY <3>2, <3>3, <3>4
      <3>7. ASSUME NEW k \in {"email", "role", "password"}, NEW old
            PROVE  (IF in[k] = Nil THEN old ELSE in[k]) = SentOr(raw, k, old)
        BY <3>3 DEF SentOr
      <3>8. \A old : PasswordOf(in.password, old) =
                      IF SentOr(raw, "password", "") = "" THEN old ELSE raw.password
        BY <3>3 DEF PasswordOf, SentOr
      <3>9. users'[raw.id].email = SentOr(raw, "email", users[raw.id].email)
        BY <3>6, <3>7
      <3>10. users'[raw.id].role = SentOr(raw, "role", users[raw.id].role)
        BY <3>6, <3>7
      <3>11. users'[raw.id].password = IF SentOr(raw, "password", "") = "" THEN users[raw.id].password
                                       ELSE raw.password
        <4>1. PICK old : old = users[raw.id].password
          OBVIOUS
        <4>2. users'[raw.id].password = PasswordOf(in.password, old)
          BY <3>6, <4>1
        <4> QED BY <3>8, <4>1, <4>2
      <3> QED BY <3>5, <3>9, <3>10, <3>11 DEF raw
    <2> HIDE DEF sent
    <2> QED BY <2>6, <2>7, <2>8, <2>9, <2>10 DEF AsSent
  <1>2. GInv /\ FlagRows /\ [Next]_vars => \A e \in log' \ log : AsSent(e)
    BY <1>1
  <1> QED BY <1>2, Invariance, FlagRowsHold, PTL DEF Spec, ChangedIsWhatWasSent

=============================================================================

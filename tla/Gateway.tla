------------------------------- MODULE Gateway -------------------------------
(***************************************************************************)
(* From an HTTP request to its answer: the middleware chain of             *)
(* internal/app/app.go, the execution of a GraphQL operation by the        *)
(* generated code, the resolvers of transport/graphql with their role      *)
(* checks, tokens, and the answer.                                         *)
(*                                                                         *)
(* A service is what its own module says of it in several steps, here in   *)
(* one: it refuses, or fails without a trace, or its transaction commits   *)
(* and the acknowledgement of the commit arrives or is lost.  Modules      *)
(* FlagService, UserService and ExperimentService have the steps.          *)
(***************************************************************************)
EXTENDS GraphQLSchema, ErrorShaping, FlagRules, Integers

CONSTANTS
  Requests,
  UserIds,         \* the ids that users may come to have
  SeedUsers,       \* the rows of users to begin with; Nil for an id that is free
  SeedFlags,       \* the rows of feature_flags to begin with
  Calls,           \* what clients may ask: for each request [header, body, query], or Nil
  Expiry,          \* the life of a token, in ticks of the clock: 24 hours in the code
  ComplexityLimit, \* 200 in the code
  RequestTicks,    \* bound: the clock ticks so often while a request is at work
  MaxClock,        \* bound on the clock
  Gone             \* the row of a user that was deleted

ASSUME GatewayAssumption ==
  /\ Expiry \in Nat \ {0} /\ RequestTicks \in Nat /\ MaxClock \in Nat /\ ComplexityLimit \in Nat
  /\ SeedUsers = [id \in UserIds |-> SeedUsers[id]]
  /\ \A id \in UserIds : SeedUsers[id] = Nil \/ SeedUsers[id].role \in Role
  /\ \A c \in Calls, r \in Requests : c[r] # Nil => DOMAIN c[r].query.fields \subseteq Int
  /\ \A f \in SeedFlags : DOMAIN f = {"key", "environment", "enabled", "strategy", "rules"}
  /\ Nil \notin Nat /\ Nil \notin {"data", "unauthorized", "tooLarge", "refused"}

\* Go's nil is nothing that a client can send; lists and their elements are functions.
SentValues(args) ==
  "input" \in DOMAIN args =>
    /\ \A k \in DOMAIN args.input : args.input[k] # Nil
    /\ ("rules" \in DOMAIN args.input /\ args.input.rules # Null) =>
         LET rules == args.input.rules
         IN  /\ rules = [j \in DOMAIN rules |-> rules[j]]
             /\ \A j \in DOMAIN rules : rules[j] = [k \in DOMAIN rules[j] |-> rules[j][k]]

ASSUME CallsAssumption ==
  \A c \in Calls, r \in Requests : (c[r] # Nil /\ Valid(c[r].query)) =>
    \A i \in DOMAIN c[r].query.fields : SentValues(c[r].query.fields[i].args)

VARIABLES
  clock,
  users, flags, experiments,  \* the tables, as far as the answers depend on them
  tokens,   \* the tokens that were handed out: [sub, role, exp]
  call,     \* what each request asks for
  pc,       \* where it is
  claims,   \* the claims in its context
  row,      \* the id and role that Login has read and not yet signed
  answers,  \* for each of its root fields "none", "value", "false", "null" or an error
  resp,     \* its answer
  began,    \* history: the clock when its token was looked at
  held,     \* history: the clock when each user last had each role
  log       \* history: the changes [by, field, name, actor] that were committed

tables == <<users, held, flags, experiments, log>>
context == <<clock, pc, call, claims, resp, began>>
vars == <<tables, context, tokens, row, answers>>

IsRow(u) == u \notin {Nil, Gone}

\* Every role that a user has at this time.
HeldNow(rows, now) ==
  [id \in UserIds |-> [role \in Role |->
     IF IsRow(rows[id]) /\ rows[id].role = role THEN now ELSE held[id][role]]]

Init ==
  /\ clock = 0
  /\ users = SeedUsers /\ flags = SeedFlags /\ experiments = {}
  /\ held = [id \in UserIds |-> [role \in Role |->
               IF IsRow(SeedUsers[id]) /\ SeedUsers[id].role = role THEN 0 ELSE Nil]]
  /\ tokens = {[sub |-> id, role |-> SeedUsers[id].role, exp |-> Expiry] :
                 id \in {u \in UserIds : IsRow(SeedUsers[u])}}
  /\ call \in Calls /\ pc = [r \in Requests |-> IF call[r] = Nil THEN "done" ELSE "idle"]
  /\ claims = [r \in Requests |-> Nil] /\ row = [r \in Requests |-> Nil]
  /\ answers = [r \in Requests |-> <<>>] /\ resp = [r \in Requests |-> Nil]
  /\ began = [r \in Requests |-> 0] /\ log = {}

-----------------------------------------------------------------------------
\* The middleware chain.
Finish(r, word) ==
  /\ pc' = [pc EXCEPT ![r] = "done"] /\ resp' = [resp EXCEPT ![r] = word]

\* Mutant of ParseAndValidate: the expiry is not validated.
ParseOnly(token) == [sub |-> token.sub, role |-> token.role]

\* A token of IssueToken is valid until it expires.
ParseAndValidate(token) ==
  IF clock < token.exp THEN [sub |-> token.sub, role |-> token.role] ELSE Nil

\* The middleware and the library before an operation is executed: the answer they give, or
\* "none".  Auth: a header that is not "Bearer " and a valid token is answered with 401.
Auth(c, token) ==
  IF c.header = "other" \/ (c.header = "token" /\ ParseAndValidate(token) = Nil)
  THEN "unauthorized" ELSE "none"

\* BodyLimit: a declared length above the limit is answered with 413.
BodyLimit(c) == IF c.body = "large" THEN "tooLarge" ELSE "none"

\* The library reads the body, of a request that declared no length up to the limit, and
\* validates what it holds; then comes FixedComplexityLimit.
CreateOperationContext(c) ==
  IF c.body = "stream" \/ ~Valid(c.query) \/ Complexity(c.query) > ComplexityLimit
  THEN "refused" ELSE "none"

\* The first of the chain that answers.
Chain(c, token) ==
  IF Auth(c, token) # "none" THEN Auth(c, token)
  ELSE IF BodyLimit(c) # "none" THEN BodyLimit(c) ELSE CreateOperationContext(c)

\* A request comes, with no header, some token that was handed out, or something else.
ServeHTTP(r) ==
  /\ pc[r] = "idle"
  /\ began' = [began EXCEPT ![r] = clock]
  /\ \E token \in tokens :
       LET c == call[r]
           word == Chain(c, token)
       IN  IF word # "none"
           THEN Finish(r, word) /\ UNCHANGED <<claims, answers>>
           ELSE /\ pc' = [pc EXCEPT ![r] = "fields"]
                /\ claims' = [claims EXCEPT ![r] = IF c.header = "token" THEN ParseAndValidate(token) ELSE Nil]
                /\ answers' = [answers EXCEPT ![r] = [i \in DOMAIN c.query.fields |-> "none"]]
                /\ UNCHANGED resp
  /\ UNCHANGED <<tables, clock, call, tokens, row>>

\* A panic outside of the fields - in the middleware below, or when the answer is written - is
\* an answer as well: 500 of Recovery, or the error that the library makes of it.
Recovery(r) ==
  /\ pc[r] \in {"idle", "fields"} /\ \A i \in DOMAIN answers[r] : answers[r][i] # "none"
  /\ Finish(r, "panic")
  /\ UNCHANGED <<tables, clock, call, claims, began, tokens, row, answers>>

-----------------------------------------------------------------------------
\* The execution of an operation (_Mutation, _Query).
Query_(r) == call[r].query
Field(r, i) == call[r].query.fields[i]
ArgsOf(r, i) == Args(Query_(r).operation, Field(r, i))

\* Mutant of Due: the fields after one that has failed are left out, and their places not filled.
DueUntilFailure(r) ==
  {i \in DOMAIN answers[r] :
     /\ answers[r][i] = "none"
     /\ Query_(r).operation = "mutation" => \A j \in 1..(i - 1) : answers[r][j] \in {"value", "false"}}

\* The fields of a mutation are resolved one after the other, also when one has failed,
\* and those of a query in any order.
Due(r) ==
  {i \in DOMAIN answers[r] :
     /\ answers[r][i] = "none"
     /\ Query_(r).operation = "mutation" => \A j \in 1..(i - 1) : answers[r][j] # "none"}

Answer(r, i, word) == answers' = [answers EXCEPT ![r][i] = word]

RequireRole(c, roles) == c # Nil /\ c.role \in roles

\* What the resolvers ask for.
FlagsRoles(name) == IF name = "evaluateFlag" THEN Role ELSE {"admin", "developer"}
ExperimentsRoles(name) == IF name = "createExperiment" THEN {"admin", "developer"} ELSE Role
UsersRoles(name) == IF name \in {"user", "userByEmail"} THEN Role ELSE {"admin"}
AuditReadRoles == {"admin"}

AllowedRoles(name) ==
  CASE name \in {"createFlag", "updateFlag", "deleteFlag", "evaluateFlag"} -> FlagsRoles(name)
    [] name \in {"createExperiment", "experiment", "getAssignment"}        -> ExperimentsRoles(name)
    [] name \in {"auditLog", "auditLogs"}                                  -> AuditReadRoles
    [] OTHER                                                               -> UsersRoles(name)

AtField(r, i, name) == pc[r] = "fields" /\ Field(r, i).name = name /\ i \in Due(r) /\ ArgsOf(r, i) # Error

\* The resolver has called RequireRole and WithActorID, and calls the service.
Called(r, i, name) == AtField(r, i, name) /\ RequireRole(claims[r], AllowedRoles(name))

frame == <<context, tokens, row>>

\* An error: nothing was changed.
Fails(r, i, err) == Answer(r, i, PresentError(err)) /\ UNCHANGED <<tables, frame>>

\* A value of something that is not there, or of a read.
Gives(r, i, word) == Answer(r, i, word) /\ UNCHANGED <<tables, frame>>

\* The transaction has committed; if the client of the database does not hear of it, Commit
\* returns an error all the same.
Commits(r, i) ==
  /\ \E word \in {"value", PresentError(DriverError)} : Answer(r, i, word)
  /\ log' = log \cup {[by |-> r, field |-> i, name |-> Field(r, i).name, actor |-> claims[r].sub]}
  /\ UNCHANGED frame

\* field_..._args returns an error.
ArgsError(r, i) ==
  /\ pc[r] = "fields" /\ i \in Due(r) /\ ArgsOf(r, i) = Error
  /\ Gives(r, i, "ERROR")

Denied(r, i) ==
  /\ pc[r] = "fields" /\ i \in Due(r) /\ ArgsOf(r, i) # Error /\ Field(r, i).name # "login"
  /\ ~RequireRole(claims[r], AllowedRoles(Field(r, i).name))
  /\ Fails(r, i, IF claims[r] = Nil THEN UnauthorizedError ELSE ForbiddenError(claims[r].role))

\* The key that the error of a service quotes.
KeyOf(args) ==
  IF "key" \in DOMAIN args THEN {args.key}
  ELSE IF "input" \in DOMAIN args /\ "key" \in DOMAIN args.input THEN {args.input.key} ELSE {}

\* The OperationError of the package that the service of a field is in.
OperationError(name, quoted, cause) ==
  CASE name \in {"createFlag", "updateFlag", "deleteFlag", "evaluateFlag"} -> FlagOperationError(quoted, cause)
    [] name \in {"createExperiment", "experiment", "getAssignment"} -> ExperimentOperationError(quoted, cause)
    [] name \in {"auditLog", "auditLogs"} -> AuditOperationError(quoted, cause)
    [] OTHER -> UserOperationError(quoted, cause)

\* A statement fails, and the transaction is rolled back: the error of the store in that of the
\* service, both with the key.
StoreFails(r, i) ==
  /\ \E name \in DOMAIN Mutation \cup DOMAIN Query :
       IF name = "login" THEN AtField(r, i, name) /\ row[r] = Nil ELSE Called(r, i, name)
  /\ LET name == Field(r, i).name
         quoted == KeyOf(ArgsOf(r, i))
     IN  Fails(r, i, OperationError(name, quoted, OperationError(name, quoted, DriverError)))

\* A resolver panics: ResolveField makes it the error of this field, and the next one is
\* resolved.  (If its transaction has committed before, it is the error in Commits.)
Panics(r, i) ==
  /\ pc[r] = "fields" /\ i \in Due(r) /\ row[r] = Nil
  /\ Fails(r, i, InternalSystemError)

\* Mutant of Respond: a null field leaves the data as it is.
RespondWithNulls(r) ==
  /\ pc[r] = "fields" /\ \A i \in DOMAIN answers[r] : answers[r][i] # "none"
  /\ Finish(r, "data")
  /\ UNCHANGED <<tables, clock, call, claims, began, tokens, row, answers>>

\* All fields are resolved: the data is null if one of them is that must not be.
Respond(r) ==
  /\ pc[r] = "fields" /\ \A i \in DOMAIN answers[r] : answers[r][i] # "none"
  /\ LET invalids == {i \in DOMAIN answers[r] : answers[r][i] \notin {"value", "false"}
                        /\ RootType(Query_(r).operation)[Field(r, i).name].nonNull}
     IN  Finish(r, IF invalids = {} THEN "data" ELSE "null")
  /\ UNCHANGED <<tables, clock, call, claims, began, tokens, row, answers>>

-----------------------------------------------------------------------------
\* The flags service.
FlagAt(key, env) == {f \in flags : f.key = key /\ f.environment = env}

ruleInputToRuleType(rule) == IF rule.type = "PERCENTAGE" THEN "percentage" ELSE "attribute"
RuleSet(rules) == {[type |-> ruleInputToRuleType(rules[i])] : i \in DOMAIN rules}

rolloutStrategyFromModel(strategy) ==
  CASE strategy = "PERCENTAGE" -> "percentage" [] strategy = "ATTRIBUTE" -> "attribute" [] OTHER -> "none"

\* The stage of updateFlag and evaluateFlag.
StageOf(env) == IF env \in {Nil, ""} THEN "dev" ELSE env

CreateFlag(r, i) ==
  /\ Called(r, i, "createFlag")
  /\ LET in == ArgsOf(r, i).input
         rules == IF in.rules = Nil THEN <<>> ELSE in.rules
         strategy == ResolveStrategyForCreate(rolloutStrategyFromModel(in.rolloutStrategy), RuleSet(rules))
     IN  \/ /\ FlagAt(in.key, in.environment) # {}
            /\ Fails(r, i, DuplicateKeyError(in.key, in.environment))
         \/ /\ FlagAt(in.key, in.environment) = {} /\ strategy = Mismatch
            /\ Fails(r, i, RulesStrategyMismatchError)
         \/ /\ FlagAt(in.key, in.environment) = {} /\ strategy # Mismatch
            /\ flags' = flags \cup {[key |-> in.key, environment |-> in.environment, enabled |-> FALSE,
                                     strategy |-> strategy, rules |-> rules]}
            /\ Commits(r, i) /\ UNCHANGED <<users, held, experiments>>

UpdateFlag(r, i) ==
  /\ Called(r, i, "updateFlag")
  /\ LET in == ArgsOf(r, i).input
         env == StageOf(in.environment)
     IN  \/ /\ FlagAt(in.key, env) = {}
            /\ Fails(r, i, FlagNotFoundError(in.key, env))
         \/ \E f \in FlagAt(in.key, env) :
              LET rules == IF in.rules = Nil THEN f.rules ELSE in.rules
                  strategy == IF in.rules = Nil THEN f.strategy
                              ELSE ResolveStrategyForUpdate(f.strategy, RuleSet(rules))
              IN  \/ strategy = Mismatch /\ Fails(r, i, RulesStrategyMismatchError)
                  \/ /\ strategy # Mismatch
                     /\ flags' = (flags \ {f})
                                   \cup {[f EXCEPT !.enabled = in.enabled, !.strategy = strategy, !.rules = rules]}
                     /\ Commits(r, i) /\ UNCHANGED <<users, held, experiments>>

DeleteFlag(r, i) ==
  /\ Called(r, i, "deleteFlag")
  /\ LET args == ArgsOf(r, i)
         found == FlagAt(args.key, args.environment)
     IN  \/ found = {} /\ Fails(r, i, FlagNotFoundError(args.key, args.environment))
         \/ found # {} /\ flags' = flags \ found /\ Commits(r, i) /\ UNCHANGED <<users, held, experiments>>

\* The value of a rule may be one that cannot be evaluated.
EvaluateFlag(r, i) ==
  /\ Called(r, i, "evaluateFlag")
  /\ LET args == ArgsOf(r, i)
         on == {f \in FlagAt(args.key, StageOf(args.environment)) : f.enabled}
     IN  \/ args.evaluationContext.userId = "" /\ Fails(r, i, FlagUserIDError(""))
         \/ args.evaluationContext.userId # "" /\ (\A f \in on : f.rules # <<>>) /\ Gives(r, i, "false")
         \/ args.evaluationContext.userId # "" /\ on # {} /\ Gives(r, i, "value")
         \/ /\ args.evaluationContext.userId # ""
            /\ \E f \in on : \E k \in DOMAIN f.rules : Fails(r, i, InvalidRuleError(f.rules[k].value))

-----------------------------------------------------------------------------
\* The experiments service; an experiment is its key and environment.
CreateExperiment(r, i) ==
  /\ Called(r, i, "createExperiment")
  /\ LET in == ArgsOf(r, i).input
         exp == [key |-> in.key, environment |-> in.environment]
         sum == MapThenSumSet(LAMBDA k : in.variants[k].weight, DOMAIN in.variants)
         sound == sum = 100 /\ \A k \in DOMAIN in.variants : in.variants[k].weight >= 0
     IN  \/ ~sound /\ Fails(r, i, InvalidWeightsError)
         \/ sound /\ exp \in experiments /\ Fails(r, i, DuplicateExperimentError(in.key, in.environment))
         \/ /\ sound /\ exp \notin experiments
            /\ experiments' = experiments \cup {exp}
            /\ Commits(r, i) /\ UNCHANGED <<users, held, flags>>

\* An experiment that is not found is null, without an error.
Experiment_(r, i) ==
  /\ Called(r, i, "experiment")
  /\ Gives(r, i, IF [key |-> ArgsOf(r, i).key, environment |-> ArgsOf(r, i).environment] \in experiments
                 THEN "value" ELSE "null")

GetAssignment(r, i) ==
  /\ Called(r, i, "getAssignment")
  /\ LET args == ArgsOf(r, i)
         exp == [key |-> args.experimentKey, environment |-> args.environment]
     IN  \/ args.userId = "" /\ Fails(r, i, ExperimentUserIDError(""))
         \/ args.userId # "" /\ exp \notin experiments
            /\ Fails(r, i, ExperimentNotFoundError(exp.key, exp.environment))
         \/ args.userId # "" /\ exp \in experiments /\ Gives(r, i, "value")

AuditLog_(r, i) ==
  \/ Called(r, i, "auditLog") /\ \E word \in {"value", "null"} : Gives(r, i, word)
  \/ Called(r, i, "auditLogs")
     /\ LET offset == ArgsOf(r, i).offset
        IN  IF offset # Nil /\ offset < 0 THEN Fails(r, i, ErrNegativeOffset)
            ELSE Gives(r, i, "value")

-----------------------------------------------------------------------------
\* The users service.
UsersWith(email) == {id \in UserIds : IsRow(users[id]) /\ users[id].email = email}

\* setPasswordIfProvided.
PasswordOf(password, old) == IF password \in {Nil, ""} THEN old ELSE password

\* A change of users, and of the roles they have.
Put(id, u) ==
  /\ users' = [users EXCEPT ![id] = u]
  /\ held' = HeldNow(users', clock)
  /\ UNCHANGED <<flags, experiments>>

CreateUser(r, i) ==
  /\ Called(r, i, "createUser")
  /\ LET in == ArgsOf(r, i).input
     IN  \/ UsersWith(in.email) # {} /\ Fails(r, i, DuplicateEmailError(in.email))
         \/ /\ UsersWith(in.email) = {}
            /\ \E id \in UserIds :
                 /\ users[id] = Nil
                 /\ Put(id, [email |-> in.email, role |-> in.role, password |-> PasswordOf(in.password, Nil)])
            /\ Commits(r, i)

\* The fields that were sent replace those of the row; a taken email is the error of the store.
UpdateUser(r, i) ==
  /\ Called(r, i, "updateUser")
  /\ LET in == ArgsOf(r, i).input
     IN  \/ in.id \notin UserIds /\ Fails(r, i, UserNotFoundError(in.id))
         \/ in.id \in UserIds /\ ~IsRow(users[in.id]) /\ Fails(r, i, UserNotFoundError(in.id))
         \/ /\ in.id \in UserIds /\ IsRow(users[in.id])
            /\ LET old == users[in.id]
                   email == IF in.email = Nil THEN old.email ELSE in.email
                   role == IF in.role = Nil THEN old.role ELSE in.role
               IN  \/ /\ UsersWith(email) \ {in.id} # {}
                      /\ Fails(r, i, UserOperationError({email}, UserOperationError({email}, DriverError)))
                   \/ /\ UsersWith(email) \ {in.id} = {}
                      /\ Put(in.id, [email |-> email, role |-> role,
                                     password |-> PasswordOf(in.password, old.password)])
                      /\ Commits(r, i)

\* A user that is not there is false, without an error.
DeleteUser(r, i) ==
  /\ Called(r, i, "deleteUser")
  /\ LET id == ArgsOf(r, i).id
     IN  \/ id \notin UserIds /\ Gives(r, i, "false")
         \/ id \in UserIds /\ ~IsRow(users[id]) /\ Gives(r, i, "false")
         \/ id \in UserIds /\ IsRow(users[id]) /\ Put(id, Gone) /\ Commits(r, i)

GetUser(r, i) ==
  \/ /\ Called(r, i, "user")
     /\ LET id == ArgsOf(r, i).id
        IN  Gives(r, i, IF id \in UserIds /\ users[id] \notin {Nil, Gone} THEN "value" ELSE "null")
  \/ /\ Called(r, i, "userByEmail")
     /\ Gives(r, i, IF UsersWith(ArgsOf(r, i).email) # {} THEN "value" ELSE "null")

\* Login: the row is read, and the password compared.
Login(r, i) ==
  /\ AtField(r, i, "login") /\ row[r] = Nil
  /\ LET in == ArgsOf(r, i).input
         found == {id \in UsersWith(in.email) : users[id].password = in.password}
     IN  \/ found = {} /\ Fails(r, i, InvalidCredentialsError)
         \/ \E id \in found :
              /\ row' = [row EXCEPT ![r] = [sub |-> id, role |-> users[id].role]]
              /\ UNCHANGED <<tables, context, tokens, answers>>

\* A token for what was read, from now on.
IssueToken(r, i) ==
  /\ AtField(r, i, "login") /\ row[r] # Nil
  /\ tokens' = tokens \cup {[sub |-> row[r].sub, role |-> row[r].role, exp |-> clock + Expiry]}
  /\ row' = [row EXCEPT ![r] = Nil]
  /\ Answer(r, i, "value")
  /\ UNCHANGED <<tables, context>>

-----------------------------------------------------------------------------
AtWork(r) == pc[r] \notin {"idle", "done"}

Tick ==
  /\ clock < MaxClock
  /\ \A r \in Requests : AtWork(r) => clock < began[r] + RequestTicks
  /\ clock' = clock + 1
  /\ held' = HeldNow(users, clock + 1)
  /\ UNCHANGED <<users, flags, experiments, log, tokens, pc, call, claims, resp, began, row, answers>>

Resolve(r, i) ==
  \/ ArgsError(r, i) \/ Denied(r, i)
  \/ CreateFlag(r, i) \/ UpdateFlag(r, i) \/ DeleteFlag(r, i) \/ EvaluateFlag(r, i)
  \/ CreateExperiment(r, i) \/ Experiment_(r, i) \/ GetAssignment(r, i) \/ AuditLog_(r, i)
  \/ CreateUser(r, i) \/ UpdateUser(r, i) \/ DeleteUser(r, i) \/ GetUser(r, i)
  \/ Login(r, i) \/ IssueToken(r, i)

Advance(r) == Respond(r) \/ \E i \in DOMAIN answers[r] : Resolve(r, i)

\* What may go wrong on the way, and need not.
FieldFault(r, i) == StoreFails(r, i) \/ Panics(r, i)
Fault(r) == Recovery(r) \/ \E i \in DOMAIN answers[r] : FieldFault(r, i)

AllDone == (\A r \in Requests : pc[r] = "done") /\ UNCHANGED vars

Next == Tick \/ AllDone \/ \E r \in Requests : ServeHTTP(r) \/ Advance(r) \/ Fault(r)

Spec == Init /\ [][Next]_vars

\* net/http goes on with a request it has accepted, and a resolver that has been called returns
\* (the services: their own EveryRequestAnswered).  No fault is owed to anybody.
FairSpec == Spec /\ \A r \in Requests : WF_vars(Advance(r))

-----------------------------------------------------------------------------
\* Who may change what, by README.md:87-90: developers manage flags and experiments, users
\* are managed by admins.
DocumentedRoles(name) ==
  IF name \in {"createFlag", "updateFlag", "deleteFlag", "createExperiment"}
  THEN {"admin", "developer"} ELSE {"admin"}

\* The change e is made in the name of the user of the token, with a role that may make it and
\* that the user had so late.
ByRight(e) ==
  LET c == claims[e.by]
  IN  /\ c # Nil /\ e.actor = c.sub /\ c.role \in DocumentedRoles(e.name)
      /\ held[c.sub][c.role] # Nil
      /\ began[e.by] < held[c.sub][c.role] + Expiry + RequestTicks

\* Tokens outlive what they say (internal/auth/jwt.go:30): who commits a change, and is put
\* into the audit log for it, was let in by a token with a role that may do it, and had that
\* role less than the life of a token before, and the time that a login takes: a user who
\* lost a role, or was deleted, is out by then.
Entitled == [][\A e \in log' \ log : ByRight(e)]_vars

Changed(r, i) == \E e \in log : e.by = r /\ e.field = i

\* What an answer says of changes (_Mutation, PresentError, the middleware).  Refused requests,
\* and fields with false, null or an error that has a code, changed nothing; a mutation with
\* data has changed what it was asked to, field after field.  (Null data says less: a field
\* before or after the one that failed has its change, and so may have one with another error.)
AnswerTellsChanges ==
  \A r \in Requests :
    /\ resp[r] \in {"unauthorized", "tooLarge", "refused"} => \A e \in log : e.by # r
    /\ \A i \in DOMAIN answers[r] :
         /\ answers[r][i] \notin {"value", "ERROR"} => ~Changed(r, i)
         /\ Changed(r, i) => \A j \in 1..i : answers[r][j] # "none"
    /\ (resp[r] = "data" /\ Query_(r).operation = "mutation") =>
         \A i \in DOMAIN answers[r] :
           \/ answers[r][i] = "false"
           \/ answers[r][i] = "value" /\ (Field(r, i).name = "login" \/ Changed(r, i))

Sent(input, name) == name \in DOMAIN input /\ input[name] # Null

SentOr(input, name, old) == IF Sent(input, name) THEN input[name] ELSE old

\* The flags that a step changes are those of this key in this stage.
ChangedFlagsAre(key, env) ==
  \A f \in (flags' \ flags) \cup (flags \ flags') : f.key = key /\ f.environment = env

\* What the step that commits the change e does to the rows is what its field was sent.
AsSent(e) ==
  LET raw == Field(e.by, e.field).args
      in == raw.input
  IN  /\ e.name = "createFlag" =>
           /\ ChangedFlagsAre(in.key, in.environment)
           /\ \A f \in flags' \ flags : f.rules = SentOr(in, "rules", <<>>) /\ ~f.enabled
      /\ e.name = "updateFlag" =>
           /\ ChangedFlagsAre(in.key, IF SentOr(in, "environment", "") = "" THEN "dev" ELSE in.environment)
           /\ \A f \in flags' \ flags, g \in flags \ flags' :
                f.rules = SentOr(in, "rules", g.rules) /\ f.enabled = in.enabled
      /\ e.name = "deleteFlag" => ChangedFlagsAre(raw.key, raw.environment) /\ flags' \subseteq flags
      /\ e.name = "updateUser" =>
           /\ users'[in.id].email = SentOr(in, "email", users[in.id].email)
           /\ users'[in.id].role = SentOr(in, "role", users[in.id].role)
           /\ users'[in.id].password = IF SentOr(in, "password", "") = "" THEN users[in.id].password
                                       ELSE in.password
           /\ \A id \in UserIds \ {in.id} : users'[id] = users[id]

\* From what a client sends to the row (unmarshalInput..., the services): left out and null
\* keep what there is, an empty list of rules clears it; an empty password, or stage in
\* updateFlag, counts as left out; and nothing else changes.
ChangedIsWhatWasSent == [][\A e \in log' \ log : AsSent(e)]_vars

\* Not come yet, turned away, or answered with each of its fields resolved.
Settled(r) == pc[r] # "fields" /\ \A i \in DOMAIN answers[r] : answers[r][i] # "none"

\* Every request that gets as far as its fields is answered, and before that each of its fields
\* is, also those of a mutation after one that was refused, failed or panicked (_Mutation).  A
\* request comes once and is done once, so that to settle time and again is to settle for good.
EveryRequestAnswered == []<>(\A r \in Requests : Settled(r))

=============================================================================

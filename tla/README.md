# A TLA+ model of featureflag-api

This directory holds TLA+ modules that model the Go service in this repository,
TLC configurations that model-check them on small instances, and theorems whose
proofs TLAPS checks. It is written for a reader of the code: every definition
names what it models, and `PROJECT.json` maps it to lines of source.

## 1. The system

featureflag-api is a GraphQL server over PostgreSQL. Requests are served by
concurrent goroutines, possibly of several server processes, that share nothing
but the database: all state lives in tables, and all coordination is what
PostgreSQL does for READ COMMITTED transactions (row locks, unique indexes,
foreign keys, deadlock detection). The clients hold the only other state, the
tokens that a login hands out.

| component | state | operations | talks to |
|---|---|---|---|
| flags service `internal/flags/service.go` | none (per request: the `*Flag` in memory, a `*sql.Tx`) | CreateFlag, UpdateFlag, DeleteFlag, EvaluateFlag | flags store, audit store |
| flags store `internal/flags/postgres.go` | tables `feature_flags`, `flag_rules` | Create, Update, Delete, GetByKeyAndEnvironment, GetRulesByFlagID, ReplaceRulesByFlagID | PostgreSQL |
| rule evaluation `internal/flags/{service,attribute}.go` | none | strategy resolution, percentage and attribute rules | |
| audit `internal/audit` | table `audit_logs` | PrepareWriteTx, Create; GetByID, List | PostgreSQL |
| experiments `internal/experiments` | tables `experiments`, `experiment_variants`, `experiment_assignments` | CreateExperiment, GetExperiment, GetAssignment | audit, PostgreSQL |
| users `internal/users` | table `users` | CreateUser, UpdateUser, DeleteUser, GetUser, Login | audit, auth, PostgreSQL |
| auth `internal/auth` and the resolvers | JWTs held by clients | IssueToken, ParseAndValidate, RequireRole, WithActorID | users |
| generated GraphQL code `graph` | one answer per request | unmarshals arguments, resolves fields, nulls | resolvers |
| middleware `transport/graphql/middleware` | none | Recovery, Logging, Auth, BodyLimit | GraphQL code |
| error shaping `transport/graphql/error_shaping.go` | none | PresentError | |
| schema `internal/db` | the tables themselves | Open, EnsureSchema, Close | PostgreSQL |
| lifecycle `cmd/main.go`, `internal/app`, `transport/graphql/server.go` | the listener | main, Run, Shutdown | all of the above |
| config `internal/config` | none | GetDSN, GetJWTSecret, GetListenAddr, LoadTLSConfig | |

### What is hard, and what makes it correct

* **Interleaving.** updateFlag reads a flag without locking it and later writes
  every column back; ReplaceRulesByFlagID deletes and inserts in two statements;
  evaluateFlag reads a flag and its rules separately; every "ensure unique" is a
  check before an insert; two processes may create the schema at once. Correct:
  keys stay unique, rules never outlive their flag, what goes wrong does so only
  for a request that another has overtaken, and one process gets through.
* **Waiting.** Statements wait for row locks; when the wait is over the row may
  be gone. deleteFlag and updateFlag take locks in opposite orders. Correct: a
  waiter never logs a change it did not make; every request is answered.
* **Failure.** A statement, the client, the process or the acknowledgement of
  COMMIT can be lost at any point; one field of a mutation can fail after
  another has committed; EnsureSchema can be cut off between two statements.
  Correct: no change without its audit entry and no entry without its change;
  an answer never claims more than was done; a restart goes on with the schema.
* **Staleness.** A token says what its user was when it was issued; pages of the
  audit log are read one after the other while it grows. Correct: nobody acts
  with a role for longer than a token lives; no page boundary hides an entry.
* **Values.** Percentages at 0 and 100, malformed rules, the order of rules,
  weights that overflow, limits out of range; a value that is left out, null or
  empty. Correct: the reference definitions; what is stored is what was sent.

## 2. The modules

| module | models | extends |
|---|---|---|
| `FlagRules` | which strategy a rule list asks for, when it is refused, what a list of rules answers | |
| `FlagService` | the four flag operations over the store, one SQL statement per step | `FlagRules` |
| `AuditedFlags` | what the flags service promises of the database: whole, audited changes | `FlagRules` |
| `FlagHistory` | `FlagService` with history variables, for properties about what happened in between | `FlagService` |
| `VariantWeights` | which weights an experiment may have, which variant a bucket gets | |
| `ExperimentService` | createExperiment and getAssignment over the store, one statement per step | `VariantWeights` |
| `StickyExperiments` | what the experiments service promises: whole, final experiments; assignments made once | |
| `UserService` | the user operations over the store, one statement per step, two for an UPDATE | |
| `UserHistory` | `UserService` with the history variable `overtaken` | `UserService` |
| `AuditedUsers` | what the users service promises: one user per email, whole, audited changes | |
| `RuleEvaluation` | how the value stored with a rule decides for a user | `FlagRules` |
| `AuditLogRead` | auditLog and auditLogs, page after page, while entries are added | |
| `Lifecycle` | the processes: start, schema, listener, signal, shutdown, crash; and their requests | |
| `GraphQLSchema` | the fields and types of the generated code, and what it makes of the values sent | |
| `ErrorShaping` | the errors of the packages and the codes clients see | |
| `Gateway` | a request from its header to its answer: middleware, tokens, roles, fields, services | `GraphQLSchema`, `ErrorShaping`, `FlagRules` |
| `FlagInvariant`, `FlagHistoryInvariant`, `UserInvariant`, `ExperimentInvariant`, `GatewayInvariant` | the inductive invariants of these modules | the module |
| `FlagServiceProofs`, `UserServiceProofs`, `ExperimentServiceProofs`, `GatewayProofs` | theorems about the services and the gateway | the invariant |
| `VariantWeightsProofs` | lemmas about sums of weights and the variant of a bucket | `VariantWeights` |
| `BucketingProofs` | theorems about rule evaluation and weights | `MCBucketing`, `VariantWeightsProofs` |
| `AuditLogReadProofs`, `LifecycleProofs` | the inductive invariants of `AuditLogRead` and `Lifecycle`, and their theorems | the module |
| `MC*` | small instances for TLC; `MCBucketing` puts `RuleEvaluation` and `VariantWeights`, the two users of the hash bucket, into one instance | |

### FlagService

A request is one GraphQL call that reached the service. `pc[r]` is the next SQL
statement it executes; `seen[r]` the `*Flag` the handler holds; `tx[r]` what its
open transaction has written and so has locked; `target[r]` the rows its DELETE
of rules found; `resp[r]` its answer. Committed tables are `flags`, `rules` and
`audit`; the writes of a transaction reach them in `Commit`.

| code | actions |
|---|---|
| `CreateFlag` | `CreateFlag` (SELECT, strategy), `InsertFlag`, `DeleteRules`, `LockRules`, `InsertRules`, `AuditCreate`, `Commit` |
| `UpdateFlag` | `UpdateFlag` (SELECT, strategy), `DeleteRules`, `LockRules`, `InsertRules`, `UpdateRow`, `AuditCreate`, `Commit` |
| `DeleteFlag` | `DeleteFlag` (SELECT), `DeleteRow`, `CascadeRules`, `AuditCreate`, `Commit` |
| `EvaluateFlagInEnvironment` | `EvaluateFlag` (first SELECT), `ReadRules` (second SELECT) |
| `audit.PrepareWriteTx` | `PrepareAuditTx`, `MissingActor` |
| `defer tx.Rollback()` | `Finish`: whatever the transaction wrote is dropped |

`Blocks(s, r)` says which statement waits for which transaction; it is
PostgreSQL's behaviour for the statements and constraints of `postgres.go` and
`schema.go` (a second insert of a key waits for the first transaction; UPDATE
and DELETE of a row wait for each other; inserting a rule locks its flag FOR KEY
SHARE, which a DELETE of the flag waits for and an UPDATE does not; a DELETE
works on the rows of its snapshot and skips those that are gone when the wait
is over). `Fail` may end any request at any point: a failing statement, a
cancelled context, the five-second shutdown, a crash. `Commit` may take effect
and still be answered with an error.

Abstracted: the description of a flag and timestamps; a key stands for the pair
(key, environment); a rule is its type and its outcome for the user evaluated,
so two equal rules of one list are one; the ids of rows are those of the
requests that create them; a request is its own actor.

### ExperimentService

Same conventions. `rows[r]` are the variants a creation has inserted, or an
assignment has read. `assignments` and `users` are committed tables only: each
statement of getAssignment is a transaction of its own.

| code | actions |
|---|---|
| `CreateExperiment` | `CreateExperiment` (validation, SELECT), `InsertExperiment`, `InsertVariant` once per variant, `AuditCreate`, `Commit` |
| `GetAssignment` | `GetAssignment` (experiment), `ReadVariants`, `ReadAssignment`, `UpsertAssignment` |
| `deleteUser` of the users service | `DeleteUser`: the row and, by cascade, its assignments, at the moment it commits |

The ids of the variants of one experiment are ranks, chosen nondeterministically:
random UUIDs are only compared and sorted (`ORDER BY id`). The FNV hash is a
given function from user and experiment to a bucket. Weights are integers; the
check adds them as an int that wraps at `IntModulus`, the column refuses what
is not in `0..ColumnMax`. With the real widths (2^64 and 2^31 - 1) no list of
fewer than 2^33 storable weights wraps to 100; the assumptions, and so the
instances, keep that relation (`WidthAssumption`, `ServiceAssumption`,
`BoundAssumption`).

### UserService

Same conventions; `input[r]` stays after the answer, because properties compare
what was asked for with what is on record. The UPDATE of a user is two steps,
because it waits in two places: `LockRow` for the row, `IndexEmail` for the
transaction that holds, or is leaving, the new email. An unchanged email does
not concern the index. A password stands for its hash (bcrypt is a given
function); a nil and an empty password are the same, as in
`setPasswordIfProvided`. `GetUser` and `GetUserByEmail` read one row and change
nothing; they are actions of `Gateway` only.

### AuditLogRead

`log` are the committed rows, `open` those of open transactions, each stamped
with the clock at `Begin` (`created_at DEFAULT now()` is the start of the
transaction). The reader is a client that asks for page after page:
`AuditLogs` is one call of the resolver and the store's `List`, with the clamp
of the limit on both levels, and moves the offset on by what it got; an empty
page ends the loop. `ORDER BY created_at DESC` leaves ties open, so `List` is a
set of results. An answer shows the second of a stamp (`AuditLogModel`).

### Lifecycle

`pc[p]` is where main is in process p, `stmt[p]` and `plan[p]` the statement of
the schema it is at and what `IF NOT EXISTS` found: the look and the creation
are two steps, as they are in PostgreSQL. `listener[p]` is the goroutine of
`Run`, which is started before `signal.Notify`. A fatal error, a kill and the
return of main all end in `Exit`: requests at work are cut off, and a COMMIT or
a statement that was on its way may still take effect.

| code | actions |
|---|---|
| `main`, before the database | `Start`, `Configure` (secret, TLS files, address) |
| `db.Open`, `EnsureSchema` | `Open`, `Look` and `Execute` once per statement |
| `app.NewApp`, `go a.Run` | `Serve`, `Listen` |
| `signal.Notify`, `<-stop` | `Notify`, `Signal` |
| `a.Shutdown`, deferred calls | `Drained` or `TimedOut`, `Close`, `Return` |
| a request | `Accept`, `Write`, `Commit`, `Answer`, `FindsClosed` |

### Gateway

A request is a document `[operation, fields]` with a header and a body that
fits, is declared too large, or turns out too large. `ServeHTTP` is the
middleware chain down to the validated operation; then every root field is
resolved by an action of its own - in order for a mutation, in any order for a
query - and `Respond` makes the answer: null data if a field failed that must
not be null. `answers[r][i]` is what field i has come to, already as
`PresentError` shows it. A resolver that panics (`Panics`) is the error of its field,
and the fields after it go on; `Recovery` is a panic before or after the fields,
which ends the request.

`GraphQLSchema` is the generated code: the arguments and result of every root
field, the input types, and `Args`, which unmarshals what was sent. A value
sent is a function from the names that are there, so that a name that is left
out and one that is null stay different until `UnmarshalFields` makes them the
same nil. `Valid` is the library's validator, as far as the generated code
relies on it.

The services are one step each here: they refuse, fail without a trace
(`StoreFails`), or commit, with the acknowledgement lost or not. That is what
`ImplementsAuditedFlags`, `ImplementsAuditedUsers`, `ImplementsStickyExperiments`
and the `AnswerMatchesAudit` of the service modules say of the detailed ones.
An assignment, and a read, is only its answer. Login is two steps, because the
row is read before the token is signed.

`tokens` are those that `IssueToken` has signed, with their expiry; a client may
present any of them. `held` remembers when each user last had each role.

### RuleEvaluation

The state is one enabled flag: its strategy, and its rules in the order in which
they are read. Every change of rules is `UpdateRules`: `ReplaceRulesByFlagID` deletes
all rows and inserts the new list, `GetRulesByFlagID` reads it `ORDER BY id`, and the
ids are random; so the list may come back in any order (`Orders`). The three actions
are the changes that the properties tell apart: the same rules again, a percentage
that is raised, and one rule more.

## 3. The runs

| run | instance | shows |
|---|---|---|
| `flag_service_safety` | 4 requests, 1 key, 3 rule lists; symmetric requests; 256,000 states | consistency of tables and log, the inductive invariant of the proofs (`FInv`), stale writes and torn reads only when overtaken, refinement of `AuditedFlags` |
| `flag_service_answers` | 4 requests, one of them without an actor, 1 rule list; 66,010 states | answers agree with the log; every request is answered |
| `rule_evaluation` | flags with up to 3 stored rules of every kind, 3 users; every list of up to 4 of 11 weights | what each answer says of the rules, malformed ones and several percentages included; widening a rollout; order of attribute rules; exact shares; what is stored sums to 100 |
| `experiment_service` | 3 requests, one without an actor, 4 weight lists, a user and a stranger; 26,592 states | assignments repeatable and on record, experiments whole, refinement of `StickyExperiments`, every request answered |
| `user_service` | 3 calls, one without an actor, 2 seeded users, 3 emails; 113,730 states | consistent table and index, refinement of `AuditedUsers`, lost updates only when overtaken, every call answered |
| `audit_log_read` | 3 transactions, 3 stamps in 2 seconds, 15 queries; 1.06 million states | no entry skipped; the pages together are the log |
| `lifecycle` | 2 processes, one started twice, 1 request, 2 addresses; 90,000 states | the schema is a prefix and is whole when served; who may fail in it; what may cut a request off; the end after a signal |
| `gateway` | 3 requests, 25 combinations of documents, 3 user ids; 42,131 states | what answers say of changes; who may make them; what is sent is what is stored; every request answered, with all of its fields |
| `flag_lost_strategy`, `flag_merged_rules`, `rule_resave`, `user_lost_password` | as above | each a violation: section 5 |

**Why these bounds are enough.** A request is handled once, so the number of
requests bounds everything else. The conflicts of this code are between two
open transactions on one row, or on one key; a third request creates the row
they compete for and a fourth reads it. One key suffices because no statement
touches rows of two keys. The two seeded users are what an exchange of emails
needs. Rule lists cover none, one rule, and two types (which is refused); a
second type that is accepted is in the runs of the violations. Weight lists
cover an even split, an empty share, a wrong sum, and a sum that wraps and is
stopped at the second row - a creation that fails half way. `HashToBucket` takes
the values on both sides of a boundary. In `user_service` the caller without an
actor can only log in; two others change users at the same time.

In `audit_log_read` the limits 50 and 200 are 1 and 2, so that three entries make
more than one page of either; `TicksPerSecond = 2` with three stamps has two in
one second and one in another. `MaxClock` bounds the clock. In `lifecycle`,
`MaxStarts` is 2 for one process and 1 for the other: a restart over what a crash
has left, during the first start of another. All eight statements of the schema
are there. In `gateway`, `Expiry = 1` and `RequestTicks = 1` (a request may see
the clock move once) in `MaxClock = 2` ticks are a token that expires, one that is
issued meanwhile, and one that expires while its request is at work;
`ComplexityLimit = 6` is exceeded by one of the documents. The documents
(`MCCalls`) name every root field, every way to leave a value out, every refusal;
each is looked at on its own. Together come a login, the change of role of its user and
a deletion that the token may be used for, two changes of one user, and an update
and a deletion of one flag: a field is one step here, so that what two requests do to
each other within one is in the modules of the services.

**Fairness.** `FairSpec` (`FairHSpec` with the history variable) assumes
`WF_vars(Advance(r))` for each request: a goroutine that can execute its next
statement eventually does, Postgres hands a released lock to a waiter, and its
deadlock detector aborts one statement of a cycle (`deadlock_timeout`). Nothing is
assumed of requests arriving, of `Fail` or of users being deleted. Requests may
be answered by an error. In `Gateway` it is net/http that goes on with a request
it has accepted, and a resolver that has been called returns; a failing store, a
panic at a field and one outside of the fields (`Fault`) are no part of `Advance`, so
that no answer rests on a fault. (`EveryRequestAnswered` is of the form `[]<>` there: a
request comes and goes once, so that all of them settle for good.) In `Lifecycle`
each process goes on by itself (`Advance(p)`: main, the listener, and the timer of
`shutdownCtx`), and requests may hang forever.

**Deadlock.** A state in which every request has been answered, the reader has
come to its end, or every process is off for good, is the normal end; there
`AllDone` and `AllOff` stutter, so TLC's deadlock check stays on and would report
requests that wait for each other with no step left.

**Symmetry** is used in the flag runs without liveness, for requests that have
an actor: no definition tells two of them apart.

**Mutants.** For each property of a passing run, `PROJECT.json` names an
operator, next to the definition it alters, with a plausible bug: with it, the
run must find the property violated. They are marked "Mutant of" and are used
by no specification.

## 4. The proofs

Every safety property, action property and refinement that a passing run checks
is also proved, for every value of the constants that satisfies the assumptions
its module states. `Invariance` (`HistoryInvariance` with history variables,
`ReadInvariance`) is in each module the theorem that its inductive invariant
always holds; the others follow from it.

| module | theorem | property of the runs |
|---|---|---|
| `FlagServiceProofs` | `TypeCorrect`, `HistoryCorrect`, `KeysUnique`, `NoOrphans` | `TypeOK` (a part of `FInv`), `AuditIsHistory`, `UniqueKeys`, `NoOrphanRules` |
| | `AnswersMatchAudit`, `DeadlocksNeedDeletion` | `AnswerMatchesAudit`, `DeadlockNeedsDelete` |
| | `Refinement` | `ImplementsAuditedFlags` |
| | `RulesFit`, `EvaluationTornOnlyByRules` | `FitUnlessOvertaken`, `TornOnlyByRules` |
| | `UpdatesKeepPromises` | none: what remains of the promises that `flag_lost_strategy` and `flag_merged_rules` refute |
| `UserServiceProofs` | `UsersConsistent`, `AnswersMatchAudit`, `FieldsGiven` | `Consistent`, `AnswerMatchesAudit`, `FieldsWereGiven` |
| | `DeadlocksSwapEmails`, `UsersRefinement` | `DeadlockNeedsEmailSwap`, `ImplementsAuditedUsers` |
| | `OmittedFieldsKept` | `OmittedKeptUnlessOvertaken` |
| `ExperimentServiceProofs` | `ExperimentsConsistent`, `AssignmentRepeatable`, `ShownStored` | `Consistent`, `AssignmentIsRepeatable`, `ShownIsStored` |
| | `ExperimentsAreWhole`, `AnswersMatchAudit` | `ExperimentsWhole`, `AnswerMatchesAudit` |
| | `ExperimentsRefinement` | `ImplementsStickyExperiments` |
| `BucketingProofs` | `AnswersAreReference`, `UsersStayIn`, `OrderIrrelevant` | `AnswerIsReference`, `GrowingKeepsUsers`, `AttributeOrderIrrelevant` |
| | `SharesExact`, `StoredSums` | `SharesAreExact`, `StoredSumsTo100` |
| `AuditLogReadProofs` | `NothingIsSkipped`, `QuietReadExact` | `NoEntrySkipped`, `QuietReadIsExact` |
| `LifecycleProofs` | `SchemaOrdered`, `CutByForce`, `InitializedSafe`, `OneGetsThrough` | `SchemaInOrder`, `CutOnlyByForce`, `InitializedNeverFails`, `SomeoneGetsThrough` |
| `GatewayProofs` | `AnswersTellChanges`, `EntitledHolds`, `WrittenAsSent` | `AnswerTellsChanges`, `Entitled`, `ChangedIsWhatWasSent` |

The layout is the same everywhere: one `Keeps...` lemma per action, or per kind
of action, with one step per conjunct of the invariant that it can disturb; the
effect on the tables is split from the effect on the handlers.

**Flags.** None of the properties is inductive: that a commit does no harm
follows from what its transaction has locked. `IInv` states that:

* `Progress(r)`: what has been written by the time each statement is reached;
* `OwnFlag(r)`: the flag in memory is r's own new one or a committed flag's
  id, with its key; every rule r touches is of that flag;
* `Locked(r)`: a flag that r has updated or deleted is there until r commits;
  no committed flag has the key r has inserted; a deletion that is about to
  commit removes exactly the rules its flag has;
* `Exclusive(r, s)`: two open transactions never have written the same flag, or
  inserted the same key;
* `Creators`: a row or an entry names a flag whose creator is done; ids are
  unique.

`Refinement` maps `Commit` to `Create`, `Update` or `Delete` of `AuditedFlags` by
what the transaction wrote, and every other action to a stutter. `AInv` adds what
the answers and the log know of each other, and that a transaction at a
statement that can wait for the first time has written nothing; so of the
requests in a circle, those that hold something another waits for are few, and
`DeadlocksNeedDeletion` goes through who can wait for whom. `HInv` is about
requests that have not been overtaken: the row, the rules and the strategy they
have read are those that are committed, and what they have written so far fits
to that. Its consequence `UpdatesKeepPromises` is the counterpart of two of the
violations in section 5: both promises hold of an update that nobody overtakes.

**Users.** `UInv` has the same parts (`Progress`, `Locked`, `Exclusive`), for row
locks and the email index: a deadlock can close only where each request holds
the row whose email the next one wants, which is why neither a creation, which
holds no row, nor a deletion, which waits for no email, is part of one. `Given`
and `Kept` say where each field comes from that is stored or about to be.

**Experiments.** `EInv` says what each handler holds at each statement, that a
key in the index is nobody else's until the commit, that a committed experiment
is what was asked for and never changes (`Whole`), and that an assignment, stored
or answered, is what the hash decides from the variants, sorted by their ids
(`Stored`, `Told`). So two assignments of one user are the same because both are
that variant. `VariantWeightsProofs` carries the arithmetic: sums of a list exist,
grow with each element, and wrap to 100 only if they are 100. Induction over a
list is done by the least counterexample (`Least`). The sum over a set of
variants in `StickyExperiments` is the total of the list in whatever order the ids
are.

**Rules and weights.** `BucketingProofs` unfolds the loops of the code: the rule at
which it stops is the first of its kind, and the reference is about all of them.
What a new order leaves is in `Reordered`: the same rules at other places. So
`GrowingKeepsUsers` cannot promise that a user whom one of two percentages lets in
stays in, and does not: it is about users whom every percentage lets in, and a
malformed attribute rule may come first and be an error.
The one thing it needs of the strings is that a suffix is found where it should be.

**Audit log.** `RInv` places an entry in the list of matches by the number of
entries with later stamps. That number only grows while entries are committed,
and the offset is the number of rows already shown; so an entry that was there at
the first page and has not been shown is never in front of the offset
(`NothingSkipped`). With no commit in between, the pages are consecutive parts of
one list (`Exact`).

**Lifecycle.** The invariant says what is true at each place main comes to.
`InOrder` and `Executed(p)`: the tables are those of the first `n` statements, and
a process at statement `i` has those before it. So a statement that creates
something is exactly the next one, its references are there, and a process past
the schema has the whole of it. `Drains(p)` and `Served(r)`: the listener is closed
before main passes `Shutdown`, and main passes it with nothing at work or as one
of `forced`. The schema's length is fixed: `Statements` states about `SchemaSQL`
that no two statements create the same and that each refers to earlier ones, and
everything else rests on that lemma. For `OneGetsThrough`, as long as no process is
started twice: whoever has created the last table there is leads (`Leads(p)`), and
finds nothing of what it comes to next, so that it cannot fail in the schema.

**Gateway.** Every resolver has one of five shapes (`Shapes`): it refuses, reads,
commits one change, has read the row of a login, or signs a token; a lemma for
each shape stands for all resolvers, and a fault at a field is a refusal
(`FaultShapes`). `GInv` has two halves. `Authority`: a role that
a user has is one that is held now; a token ends no later than its life and a
login after the user last had its role (`TokensBacked`), which holds because a
login that has read its row is signed before its request runs out of time
(`LoginBacked`); claims are those of a token that was valid when the request came
(`ClaimsBacked`). `Bookkeeping`: a change in the log belongs to a field of a mutation
that has been answered with its value or an error and had its turn, and a value of
a mutation has its change. `WrittenAsSent` needs no more of the state than that the
field has passed the validator: `LeafAsSent`, `RulesAsSent` and `InputAsSent` follow what
was sent through `UnmarshalArg` and `Args`, and `FlagWrites` and `UserWrites` through the
service.

**Assumptions.** They are stated in the modules and TLC evaluates them on every
run. Beyond types they say: Go's nil is none of the values it is compared with
(`Nil`), nor anything a client can send (`CallsAssumption`); seeded ids are none of the
requests', and seeded emails are unique; an empty user id is no user; the widths
of integers keep the relation above; user ids and emails are strings, as sequences;
a limit or an offset is a number or nil (`QueriesAssumption`); the pages are not empty
and the default limit is not above the largest; there is a process
(`LifecycleAssumption`); roles of seeded users are roles (`GatewayAssumption`). Nothing is
assumed of the hash but its range. The sets of requests, keys, users, rules and
entries may be any, and the bounds that TLC needs (`MaxClock`, `MaxRules`,
`MaxVariants`, `MaxStarts`, `RequestTicks`) any numbers.

**TLC and the proofs.** `FInv` is checked by `flag_service_safety`; the invariants of the
other modules were checked by TLC on the instances of their runs before they were
proved, and are not part of the runs since the theorems say more. Left to TLC alone:
`EveryRequestAnswered` of the services and of `Gateway` and `SignalledProcessEnds`, which
are liveness under fairness, with the absence of deadlock; that the code breaks the
four promises of section 5; and that the assumptions are met by an instance. Not
proved and not checked beyond the instances: the sum in `Complexity` and in
`CreateExperiment` of `Gateway`, folds that no theorem needs to unfold.

## 5. Where the code and its own statements disagree

* `flag_lost_strategy`: an updateFlag without rules writes back the strategy it
  read. Another update may have committed the first rule of the flag, and with it
  the strategy, meanwhile: the flag keeps the rule, and the strategy "none", by which
  everybody is let in.
* `flag_merged_rules`: two updates that replace the rules at the same time leave
  the rules of both, possibly of different types.
* `rule_resave`: with several percentage rules, the one with the smallest random
  id decides; saving the same rules again changes who is let in.
* `user_lost_password`: an updateUser of the email alone writes back the password
  hash it read, and undoes a new password that was committed meanwhile.

Also seen, and part of the models without a run of its own:

* evaluateFlag reads the flag and its rules in two statements; a replacement of
  both in between makes it apply the old strategy to the new rules.
  `TornOnlyByRules` bounds it: only a commit between the two reads does that.
* A duplicate or a missing row that only the SQL statement notices is answered
  inside an `OperationError` (`wrappedDuplicate`, `wrappedNotFound`), which
  `.cursor/rules/coding_style.mdc` asks not to do; updateUser does not tell a
  duplicate email from other errors.
* An empty environment is an environment of its own to createFlag and deleteFlag,
  and means dev to updateFlag and evaluateFlag: a flag created with it can be
  deleted, but neither updated nor evaluated (`ChangedIsWhatWasSent`).
* A mutation of several fields is not one transaction: null data and an error
  leave the changes of its other fields in place. `AnswerTellsChanges` says what
  remains true.
* A signal between `go a.Run` and `signal.Notify` kills a process that already
  serves, and of two processes that start on an empty database one may be ended
  by a duplicate error (`CutOnlyByForce`, `SomeoneGetsThrough`).
* A user who was deleted, or has lost a role, keeps acting until the token
  expires; the log then names somebody who is no user (`Entitled`).
* `isInternalConfigError` looks for words in a message that quotes keys.

## 6. Not modelled, and the plan

Not modelled: of the generated code, introspection, `__typename`, `@defer` and
the accessors of leaf fields (they read one value); a single value sent for a
list (`CoerceList`); how the DSN is put together; logging; TLS itself, JWT
signatures and bcrypt, which are taken to do what they are for; websocket
connections, which the response writer of the logging middleware does not let
the library upgrade, so that claims belong to one request; the branches of the
services for stores without transactions, which the application never passes;
scripts, mocks and test support.

| next | what it asks |
|---|---|
| composition | `ExperimentService` with `UserService` instead of its one action `DeleteUser` |
| theorems | that the services as `Gateway` has them, one step each, are implemented by the abstract specifications that the service modules implement |

---------------------------- MODULE GraphQLSchema ----------------------------
(***************************************************************************)
(* The schema as the generated code has it (graph/generated.go,            *)
(* graph/model/models_gen.go): the fields of the two root types with their *)
(* arguments and the type they answer, the fields of the object types, and *)
(* the input types with the way a value sent becomes the Go value that a   *)
(* resolver is handed.                                                     *)
(*                                                                         *)
(* A value sent is a scalar, Null, a sequence, or a function from the      *)
(* names that are there: a name left out and a name that is Null differ.   *)
(* In the Go value both are Nil, and an empty list is not.                 *)
(***************************************************************************)
EXTENDS Naturals, Sequences, FiniteSetsExt

CONSTANTS
  Null,   \* the null of GraphQL
  Nil,    \* Go's nil
  Huge,   \* an Int that is out of range
  Error   \* (_, err)

Role == {"admin", "developer", "viewer"}
RolloutStrategy == {"NONE", "PERCENTAGE", "ATTRIBUTE"}
RolloutRuleType == {"PERCENTAGE", "ATTRIBUTE"}

Enums == [Role |-> Role, RolloutStrategy |-> RolloutStrategy, RolloutRuleType |-> RolloutRuleType]

\* The declarations T!, T, [T!]! and [T!].
Required(type) == [of |-> type, required |-> TRUE, list |-> FALSE]
Optional(type) == [of |-> type, required |-> FALSE, list |-> FALSE]
RequiredList(type) == [of |-> type, required |-> TRUE, list |-> TRUE]
OptionalList(type) == [of |-> type, required |-> FALSE, list |-> TRUE]

-----------------------------------------------------------------------------
\* The input types.
RuleInput == [type |-> Required("RolloutRuleType"), value |-> Required("String")]

ExperimentVariantInput == [name |-> Required("String"), weight |-> Required("Int")]

AuditLogsFilterInput ==
  [entity |-> Optional("String"), action |-> Optional("String"), actorId |-> Optional("ID")]

CreateExperimentInput ==
  [key |-> Required("String"), environment |-> Required("String"),
   variants |-> RequiredList("ExperimentVariantInput")]

CreateFlagInput ==
  [key |-> Required("String"), description |-> Optional("String"), environment |-> Required("String"),
   rolloutStrategy |-> Optional("RolloutStrategy"), rules |-> OptionalList("RuleInput")]

CreateUserInput ==
  [email |-> Required("String"), role |-> Required("Role"), password |-> Optional("String")]

EvaluationContextInput == [userId |-> Required("ID"), email |-> Optional("String")]

LoginInput == [email |-> Required("String"), password |-> Required("String")]

UpdateFlagInput ==
  [key |-> Required("String"), environment |-> Optional("String"), enabled |-> Required("Boolean"),
   rules |-> OptionalList("RuleInput")]

UpdateUserInput ==
  [id |-> Required("ID"), email |-> Optional("String"), role |-> Optional("Role"),
   password |-> Optional("String")]

\* The input types that are elements of a list, and those that are arguments.
ElementInputs == [RuleInput |-> RuleInput, ExperimentVariantInput |-> ExperimentVariantInput]

ArgumentInputs ==
  [AuditLogsFilterInput |-> AuditLogsFilterInput, CreateExperimentInput |-> CreateExperimentInput,
   CreateFlagInput |-> CreateFlagInput, CreateUserInput |-> CreateUserInput,
   EvaluationContextInput |-> EvaluationContextInput, LoginInput |-> LoginInput,
   UpdateFlagInput |-> UpdateFlagInput, UpdateUserInput |-> UpdateUserInput]

-----------------------------------------------------------------------------
\* UnmarshalGQL of an enum, and the scalars of gqlgen.
UnmarshalScalar(type, v) ==
  IF type \in DOMAIN Enums THEN (IF v \in Enums[type] THEN v ELSE Error)
  ELSE IF type = "Int" /\ v = Huge THEN Error
  ELSE v

\* Mutant of UnmarshalFields: a name that was left out has a value.
UnmarshalAllFields(fields, got) ==
  IF \E k \in DOMAIN got : got[k] = Error THEN Error
  ELSE [k \in DOMAIN fields |-> IF k \in DOMAIN got THEN got[k] ELSE IF fields[k].list THEN <<>> ELSE Nil]

\* The Go struct, from the names that were sent with what each was unmarshalled to: the
\* names that were left out are skipped, and their fields stay nil.
UnmarshalFields(fields, got) ==
  IF \E k \in DOMAIN got : got[k] = Error THEN Error
  ELSE [k \in DOMAIN fields |-> IF k \in DOMAIN got THEN got[k] ELSE Nil]

UnmarshalLeaf(field, v) == IF v = Null THEN Nil ELSE UnmarshalScalar(field.of, v)

UnmarshalElement(type, v) ==
  LET fields == ElementInputs[type]
  IN  UnmarshalFields(fields, [k \in DOMAIN v |-> UnmarshalLeaf(fields[k], v[k])])

\* An element that fails fails the list; an empty list is not nil.
UnmarshalList(type, v) ==
  LET got == [i \in DOMAIN v |-> UnmarshalElement(type, v[i])]
  IN  IF \E i \in DOMAIN got : got[i] = Error THEN Error ELSE got

UnmarshalField(field, v) ==
  IF v # Null /\ field.list THEN UnmarshalList(field.of, v) ELSE UnmarshalLeaf(field, v)

UnmarshalInput(type, v) ==
  LET fields == ArgumentInputs[type]
  IN  UnmarshalFields(fields, [k \in DOMAIN v |-> UnmarshalField(fields[k], v[k])])

UnmarshalArg(field, v) ==
  IF v # Null /\ field.of \in DOMAIN ArgumentInputs THEN UnmarshalInput(field.of, v)
  ELSE UnmarshalLeaf(field, v)

-----------------------------------------------------------------------------
\* The object types: their fields.  None may be null but a description, and the Go values of
\* the others never are.
AuditLog == {"id", "entity", "entityId", "action", "actorId", "createdAt"}
Experiment == {"id", "key", "environment"}
ExperimentVariant == {"id", "experimentId", "name", "weight"}
FeatureFlag == {"id", "key", "description", "enabled", "environment", "rolloutStrategy"}
LoginPayload == {"token"}
User == {"id", "email", "role", "createdAt"}

\* A scalar has no fields to select.
Boolean == {}

-----------------------------------------------------------------------------
\* The arguments of the root fields.
field_Mutation_createExperiment_args == [input |-> Required("CreateExperimentInput")]
field_Mutation_createFlag_args == [input |-> Required("CreateFlagInput")]
field_Mutation_createUser_args == [input |-> Required("CreateUserInput")]
field_Mutation_deleteFlag_args == [key |-> Required("String"), environment |-> Required("String")]
field_Mutation_deleteUser_args == [id |-> Required("ID")]
field_Mutation_login_args == [input |-> Required("LoginInput")]
field_Mutation_updateFlag_args == [input |-> Required("UpdateFlagInput")]
field_Mutation_updateUser_args == [input |-> Required("UpdateUserInput")]
field_Query_auditLog_args == [id |-> Required("ID")]
field_Query_auditLogs_args ==
  [filter |-> Optional("AuditLogsFilterInput"), limit |-> Optional("Int"), offset |-> Optional("Int")]
field_Query_evaluateFlag_args ==
  [key |-> Required("String"), evaluationContext |-> Required("EvaluationContextInput"),
   environment |-> Optional("String")]
field_Query_experiment_args == [key |-> Required("String"), environment |-> Required("String")]
field_Query_getAssignment_args ==
  [userId |-> Required("ID"), experimentKey |-> Required("String"), environment |-> Required("String")]
field_Query_userByEmail_args == [email |-> Required("String")]
field_Query_user_args == [id |-> Required("ID")]

\* A root field: the type it answers, whether it may be null, its arguments.
NonNull(type, args) == [of |-> type, nonNull |-> TRUE, args |-> args]
Nullable(type, args) == [of |-> type, nonNull |-> FALSE, args |-> args]

Mutation_createFlag == NonNull(FeatureFlag, field_Mutation_createFlag_args)
Mutation_updateFlag == NonNull(FeatureFlag, field_Mutation_updateFlag_args)
Mutation_deleteFlag == NonNull(Boolean, field_Mutation_deleteFlag_args)
Mutation_login == NonNull(LoginPayload, field_Mutation_login_args)
Mutation_createExperiment == NonNull(Experiment, field_Mutation_createExperiment_args)
Mutation_createUser == NonNull(User, field_Mutation_createUser_args)
Mutation_updateUser == NonNull(User, field_Mutation_updateUser_args)
Mutation_deleteUser == NonNull(Boolean, field_Mutation_deleteUser_args)
Query_evaluateFlag == NonNull(Boolean, field_Query_evaluateFlag_args)
Query_auditLog == Nullable(AuditLog, field_Query_auditLog_args)
Query_auditLogs == NonNull(AuditLog, field_Query_auditLogs_args)
Query_experiment == Nullable(Experiment, field_Query_experiment_args)
Query_getAssignment == Nullable(ExperimentVariant, field_Query_getAssignment_args)
Query_user == Nullable(User, field_Query_user_args)
Query_userByEmail == Nullable(User, field_Query_userByEmail_args)

Mutation ==
  [createFlag |-> Mutation_createFlag, updateFlag |-> Mutation_updateFlag,
   deleteFlag |-> Mutation_deleteFlag, login |-> Mutation_login,
   createExperiment |-> Mutation_createExperiment, createUser |-> Mutation_createUser,
   updateUser |-> Mutation_updateUser, deleteUser |-> Mutation_deleteUser]

Query ==
  [evaluateFlag |-> Query_evaluateFlag, auditLog |-> Query_auditLog, auditLogs |-> Query_auditLogs,
   experiment |-> Query_experiment, getAssignment |-> Query_getAssignment, user |-> Query_user,
   userByEmail |-> Query_userByEmail]

\* The root type of an operation.
RootType(operation) == IF operation = "mutation" THEN Mutation ELSE Query

\* The Go arguments of a selected root field [name, args, sel].
Args(operation, field) ==
  LET args == RootType(operation)[field.name].args
  IN  UnmarshalFields(args, [k \in DOMAIN field.args |-> UnmarshalArg(args[k], field.args[k])])

-----------------------------------------------------------------------------
\* What the validator of the library lets through: known names, required ones that are
\* not null, selections of what an object has.
WellFormed(fields, v) ==
  /\ DOMAIN v \subseteq DOMAIN fields
  /\ \A k \in DOMAIN fields : fields[k].required => k \in DOMAIN v /\ v[k] # Null

\* The names that were sent with a value.
Present(v) == {k \in DOMAIN v : v[k] # Null}

SoundLeaf(field, v) == field.of \in DOMAIN Enums => v \in Enums[field.of]

SoundElement(fields, v) == WellFormed(fields, v) /\ \A k \in Present(v) : SoundLeaf(fields[k], v[k])

SoundField(field, v) ==
  IF field.list THEN \A i \in DOMAIN v : SoundElement(ElementInputs[field.of], v[i])
  ELSE SoundLeaf(field, v)

SoundInput(fields, v) == WellFormed(fields, v) /\ \A k \in Present(v) : SoundField(fields[k], v[k])

SoundArg(field, v) ==
  IF field.of \in DOMAIN ArgumentInputs THEN SoundInput(ArgumentInputs[field.of], v)
  ELSE SoundLeaf(field, v)

SoundArgs(fields, v) == WellFormed(fields, v) /\ \A k \in Present(v) : SoundArg(fields[k], v[k])

Valid(query) ==
  /\ query.operation \in {"mutation", "query"}
  /\ \A i \in DOMAIN query.fields :
       LET field == query.fields[i]
           root == RootType(query.operation)
       IN  /\ field.name \in DOMAIN root
           /\ SoundArgs(root[field.name].args, field.args)
           /\ field.sel \subseteq root[field.name].of
           /\ field.sel = {} <=> root[field.name].of = Boolean

\* Every field counts as one: none has a complexity of its own (an empty ComplexityRoot).
Complexity(query) ==
  MapThenSumSet(LAMBDA i : 1 + Cardinality(query.fields[i].sel), DOMAIN query.fields)

=============================================================================

---------------------------- MODULE ErrorShaping ----------------------------
(***************************************************************************)
(* The errors of the packages (errors.go of flags, users, experiments,     *)
(* audit and auth) and what a client is told of them                       *)
(* (transport/graphql/error_shaping.go).                                   *)
(*                                                                         *)
(* An error is the set of the types that errors.As finds in its chain and  *)
(* the set of the values that its message quotes.                          *)
(***************************************************************************)
EXTENDS FiniteSets

NewError(type, quoted) == [types |-> {type}, text |-> quoted]

\* Unwrap: what it wraps is found through it, and its message ends with that of the cause.
Wrap(type, quoted, cause) == [types |-> {type} \cup cause.types, text |-> quoted \cup cause.text]

\* What the database or its driver answers.
DriverError == NewError("driver", {})

\* What the library makes of a panic (graphql.DefaultRecover).
InternalSystemError == NewError("gqlerror.Error", {})

DuplicateKeyError(key, env) == NewError("flags.DuplicateKeyError", {key, env})
FlagNotFoundError(key, env) == NewError("flags.NotFoundError", {key, env})
FlagUserIDError(id) == NewError("flags.InvalidUserIDError", {id})
InvalidRuleError(value) == NewError("flags.InvalidRuleError", {value})
RulesStrategyMismatchError == NewError("flags.RulesStrategyMismatchError", {})
FlagOperationError(quoted, cause) == Wrap("flags.OperationError", quoted, cause)

DuplicateEmailError(email) == NewError("users.DuplicateEmailError", {email})
UserNotFoundError(id) == NewError("users.NotFoundError", {id})
InvalidCredentialsError == NewError("users.InvalidCredentialsError", {})
UserOperationError(quoted, cause) == Wrap("users.OperationError", quoted, cause)

InvalidWeightsError == NewError("experiments.InvalidWeightsError", {})
ExperimentNotFoundError(key, env) == NewError("experiments.ExperimentNotFoundError", {key, env})
DuplicateExperimentError(key, env) == NewError("experiments.DuplicateExperimentError", {key, env})
ExperimentUserIDError(id) == NewError("experiments.InvalidUserIDError", {id})
ExperimentOperationError(quoted, cause) == Wrap("experiments.OperationError", quoted, cause)

AuditOperationError(quoted, cause) == Wrap("audit.OperationError", quoted, cause)
ErrNegativeOffset == NewError("audit.ErrNegativeOffset", {})

UnauthorizedError == NewError("auth.UnauthorizedError", {})
ForbiddenError(role) == NewError("auth.ForbiddenError", {role})

isUnauthorizedError(err) == "auth.UnauthorizedError" \in err.types
isForbiddenError(err) == "auth.ForbiddenError" \in err.types
isInvalidCredentialsError(err) == "users.InvalidCredentialsError" \in err.types

\* strings.Contains(err.Error(), ...): also where the words are those of a key it quotes.
isInternalConfigError(err) == "service not configured" \in err.text

\* What the answer says: its code, or "ERROR" for an error that DefaultErrorPresenter hands on
\* as it is.
PresentError(err) ==
  IF isUnauthorizedError(err) THEN "UNAUTHORIZED"
  ELSE IF isForbiddenError(err) THEN "FORBIDDEN"
  ELSE IF isInvalidCredentialsError(err) THEN "INVALID_CREDENTIALS"
  ELSE IF isInternalConfigError(err) THEN "INTERNAL"
  ELSE "ERROR"

=============================================================================

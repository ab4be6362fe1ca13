-------------------------- MODULE ExperimentService --------------------------
(***************************************************************************)
(* The experiments service (internal/experiments/service.go) over its      *)
(* Postgres store (internal/experiments/postgres.go), one SQL statement    *)
(* per step.                                                               *)
(*                                                                         *)
(* createExperiment runs in one READ COMMITTED transaction with its audit  *)
(* entry; its writes are kept in tx until it commits.  getAssignment runs  *)
(* its four statements outside of any transaction, and computes the        *)
(* assignment of a user who has none.  Users disappear meanwhile.          *)
(*                                                                         *)
(* A request is handled once; it is the id of the experiment it creates.   *)
(* A key stands for the pair (key, environment).  The ids of the variants  *)
(* of an experiment are their ranks: all that is ever done with them is to *)
(* compare and to sort them.                                               *)
(***************************************************************************)
EXTENDS VariantWeights

CONSTANTS
  Requests,      \* the GraphQL requests that reach the service
  Keys,          \* the (key, environment) pairs they name
  WeightLists,   \* the weights of the variants they carry, each a sequence
  Users,         \* the users there are to begin with
  Strangers,     \* user ids that no user has; "" is the missing one
  HashToBucket,  \* the bucket of each pair of a user id and an experiment id
  Anonymous,     \* the requests whose context holds no actor id
  Nil            \* Go's nil

CreateInput == [op : {"create"}, key : Keys, weights : WeightLists]
AssignInput == [op : {"assign"}, key : Keys, user : Users \cup Strangers \cup {""}]
Input == CreateInput \cup AssignInput

Ranks == UNION {DOMAIN w : w \in WeightLists}
Experiment == [id : Requests, key : Keys]
Variant == [experiment : Requests, id : Ranks, name : Ranks, weight : 0..ColumnMax]
Assignment == [user : Users, experiment : Requests, variant : Ranks]

\* The answers of a handler: an outcome, or a variant.
Word(w) == [word |-> w, variant |-> Nil]
Shown(v) == [word |-> "variant", variant |-> v]

ASSUME ServiceAssumption ==
  /\ \A w \in WeightLists : w \in Seq(Int) /\ Len(w) * ColumnMax < IntModulus
  /\ HashToBucket \in [(Users \cup Strangers) \X Requests -> Buckets]
  /\ Anonymous \subseteq Requests /\ Nil \notin Input \cup Experiment
  /\ Users \cap Strangers = {} /\ "" \notin Users \cup Strangers

VARIABLES
  experiments, variants, assignments, users, audit,  \* the committed rows; audit holds ids
  pc,     \* the statement each request executes next
  input,  \* what it was called with
  seen,   \* the experiment it works on: its own new one, or the row it read
  rows,   \* the variants it has inserted, or has read
  resp    \* what it answered: a word, and the variant if there is one

db == <<experiments, variants, assignments, users, audit>>
handler == <<pc, input, seen, rows, resp>>
vars == <<db, handler>>

Init ==
  /\ experiments = {} /\ variants = {} /\ assignments = {} /\ users = Users /\ audit = {}
  /\ pc = [r \in Requests |-> "idle"]
  /\ input = [r \in Requests |-> Nil]
  /\ seen = [r \in Requests |-> Nil]
  /\ rows = [r \in Requests |-> {}]
  /\ resp = [r \in Requests |-> Nil]

Written == {"insertVariant", "audit", "commit"}  \* the experiment row is inserted, not committed

ExperimentsWith(key) == {e \in experiments : e.key = key}
VariantsOf(id) == {v \in variants : v.experiment = id}

\* ORDER BY id.
Sorted(vs) ==
  CHOOSE list \in [1..Cardinality(vs) -> vs] :
    \A i, j \in DOMAIN list : i < j => list[i].id < list[j].id

\* r inserts a key that another open transaction has inserted.
Waits(r) ==
  pc[r] = "insertExperiment" /\
    \E s \in Requests \ {r} : pc[s] \in Written /\ seen[s].key = seen[r].key

Goto(r, statement) == pc' = [pc EXCEPT ![r] = statement]

\* The handler returns; an open transaction is committed or rolled back.
Answer(r, in, answer) ==
  /\ Goto(r, "done")
  /\ input' = [input EXCEPT ![r] = in]
  /\ resp' = [resp EXCEPT ![r] = answer]
  /\ seen' = [seen EXCEPT ![r] = Nil]
  /\ rows' = [rows EXCEPT ![r] = {}]

Begin(r, in, experiment, statement) ==
  /\ Goto(r, statement)
  /\ input' = [input EXCEPT ![r] = in]
  /\ seen' = [seen EXCEPT ![r] = experiment]
  /\ UNCHANGED <<rows, resp>>

-----------------------------------------------------------------------------
MissingActor(r) ==
  /\ pc[r] = "idle" /\ r \in Anonymous
  /\ \E in \in CreateInput : Answer(r, in, Word("missingActor"))
  /\ UNCHANGED db

CreateExperiment(r) ==
  /\ pc[r] = "idle" /\ r \notin Anonymous
  /\ \E in \in CreateInput :
       \/ /\ ~ValidWeights(in.weights)
          /\ Answer(r, in, Word("invalidWeights"))
       \/ /\ ValidWeights(in.weights) /\ ExperimentsWith(in.key) # {}
          /\ Answer(r, in, Word("duplicate"))
       \/ /\ ValidWeights(in.weights) /\ ExperimentsWith(in.key) = {}
          /\ Begin(r, in, [id |-> r, key |-> in.key], "insertExperiment")
  /\ UNCHANGED db

\* Mutant of InsertExperiment: the store outside of the transaction.
InsertAtOnce(r) ==
  /\ pc[r] = "insertExperiment" /\ ~Waits(r) /\ ExperimentsWith(seen[r].key) = {}
  /\ experiments' = experiments \cup {seen[r]}
  /\ Goto(r, "insertVariant")
  /\ UNCHANGED <<variants, assignments, users, audit, input, seen, rows, resp>>

\* Mutant of InsertExperiment: a duplicate key is tried again instead of answered.
InsertRetrying(r) ==
  /\ pc[r] = "insertExperiment" /\ ~Waits(r) /\ ExperimentsWith(seen[r].key) = {}
  /\ Goto(r, "insertVariant")
  /\ UNCHANGED <<db, input, seen, rows, resp>>

\* The UNIQUE(key, environment) index has the last word; the service wraps its error.
InsertExperiment(r) ==
  /\ pc[r] = "insertExperiment" /\ ~Waits(r)
  /\ \/ /\ ExperimentsWith(seen[r].key) # {}
        /\ Answer(r, input[r], Word("wrappedDuplicate"))
     \/ /\ ExperimentsWith(seen[r].key) = {}
        /\ Goto(r, "insertVariant")
        /\ UNCHANGED <<input, seen, rows, resp>>
  /\ UNCHANGED db

\* One INSERT per variant, in the order of the input; its random id can fall anywhere
\* among the ids of the others.
InsertVariant(r) ==
  /\ pc[r] = "insertVariant"
  /\ LET name == Cardinality(rows[r]) + 1
         weight == input[r].weights[name]
     IN  \/ /\ weight \notin 0..ColumnMax
            /\ Answer(r, input[r], Word("error"))
         \/ /\ weight \in 0..ColumnMax
            /\ \E id \in (1..Len(input[r].weights)) \ {v.id : v \in rows[r]} :
                 rows' = [rows EXCEPT ![r] = @ \cup
                   {[experiment |-> r, id |-> id, name |-> name, weight |-> weight]}]
            /\ Goto(r, IF name = Len(input[r].weights) THEN "audit" ELSE "insertVariant")
            /\ UNCHANGED <<input, seen, resp>>
  /\ UNCHANGED db

AuditCreate(r) ==
  /\ pc[r] = "audit"
  /\ Goto(r, "commit")
  /\ UNCHANGED <<db, input, seen, rows, resp>>

\* Mutant of Commit: the error of COMMIT is dropped.
CommitUnchecked(r) ==
  /\ pc[r] = "commit"
  /\ \/ /\ experiments' = experiments \cup {seen[r]}
        /\ variants' = variants \cup rows[r]
        /\ audit' = audit \cup {seen[r].id}
     \/ UNCHANGED <<experiments, variants, audit>>
  /\ Answer(r, input[r], Word("ok"))
  /\ UNCHANGED <<assignments, users>>

\* COMMIT takes effect; its acknowledgement may be lost (the handler then returns an error).
Commit(r) ==
  /\ pc[r] = "commit"
  /\ experiments' = experiments \cup {seen[r]}
  /\ variants' = variants \cup rows[r]
  /\ audit' = audit \cup {seen[r].id}
  /\ \E word \in {"ok", "error"} : Answer(r, input[r], Word(word))
  /\ UNCHANGED <<assignments, users>>

\* A statement fails, the client goes away, the server is shut down or crashes.
Fail(r) ==
  /\ pc[r] # "done"
  /\ Answer(r, input[r], Word("error"))
  /\ UNCHANGED db

-----------------------------------------------------------------------------
GetAssignment(r) ==
  /\ pc[r] = "idle"
  /\ \E in \in AssignInput :
       \/ /\ in.user = ""
          /\ Answer(r, in, Word("invalidUser"))
       \/ /\ in.user # "" /\ ExperimentsWith(in.key) = {}
          /\ Answer(r, in, Word("notFound"))
       \/ /\ in.user # ""
          /\ \E e \in ExperimentsWith(in.key) : Begin(r, in, e, "readVariants")
  /\ UNCHANGED db

ReadVariants(r) ==
  /\ pc[r] = "readVariants"
  /\ LET found == VariantsOf(seen[r].id)
     IN  \/ /\ found = {}
            /\ Answer(r, input[r], Word("variantNotFound"))
         \/ /\ found # {}
            /\ rows' = [rows EXCEPT ![r] = found]
            /\ Goto(r, "readAssignment")
            /\ UNCHANGED <<input, seen, resp>>
  /\ UNCHANGED db

Existing(r) ==
  {a \in assignments : a.user = input[r].user /\ a.experiment = seen[r].id}

\* variantByID looks the assignment up among the variants that were read before.
ReadAssignment(r) ==
  /\ pc[r] = "readAssignment"
  /\ \/ /\ Existing(r) = {}
        /\ Goto(r, "upsert")
        /\ UNCHANGED <<input, seen, rows, resp>>
     \/ \E a \in Existing(r), v \in rows[r] :
          v.id = a.variant /\ Answer(r, input[r], Shown(v))
     \/ /\ \E a \in Existing(r) : \A v \in rows[r] : v.id # a.variant
        /\ Answer(r, input[r], Word("variantNotFound"))
  /\ UNCHANGED db

\* Mutant of Assigned: the hash is not seeded with the experiment but with the call.
AssignedPerCall(r) ==
  LET list == Sorted(rows[r])
  IN  list[AssignVariantByWeight(HashToBucket[input[r].user, r],
                                 [i \in DOMAIN list |-> list[i].weight])]

\* assignVariantByWeight over the variants in the order in which they were read.
Assigned(r) ==
  LET list == Sorted(rows[r])
  IN  list[AssignVariantByWeight(HashToBucket[input[r].user, seen[r].id],
                                 [i \in DOMAIN list |-> list[i].weight])]

\* Mutant of UpsertAssignment: the assignment is not stored.
AnswerOnly(r) ==
  /\ pc[r] = "upsert"
  /\ Answer(r, input[r], Shown(Assigned(r)))
  /\ UNCHANGED db

\* INSERT ... ON CONFLICT DO UPDATE; the foreign key refuses a user who is not there.  The
\* acknowledgement may be lost.
UpsertAssignment(r) ==
  /\ pc[r] = "upsert"
  /\ \/ /\ input[r].user \notin users
        /\ Answer(r, input[r], Word("error"))
        /\ UNCHANGED assignments
     \/ /\ input[r].user \in users
        /\ assignments' = (assignments \ Existing(r)) \cup
             {[user |-> input[r].user, experiment |-> seen[r].id, variant |-> Assigned(r).id]}
        /\ \E answer \in {Shown(Assigned(r)), Word("error")} : Answer(r, input[r], answer)
  /\ UNCHANGED <<experiments, variants, users, audit>>

\* Mutant of DeleteUser: no cascade to the assignments.
DeleteUserOnly(u) ==
  /\ u \in users
  /\ users' = users \ {u}
  /\ UNCHANGED <<experiments, variants, assignments, audit, handler>>

\* deleteUser of the users service commits: its assignments go with the user.
DeleteUser(u) ==
  /\ u \in users
  /\ users' = users \ {u}
  /\ assignments' = {a \in assignments : a.user # u}
  /\ UNCHANGED <<experiments, variants, audit, handler>>

-----------------------------------------------------------------------------
Receive(r) == MissingActor(r) \/ CreateExperiment(r) \/ GetAssignment(r)

Advance(r) ==
  \/ InsertExperiment(r) \/ InsertVariant(r) \/ AuditCreate(r) \/ Commit(r)
  \/ ReadVariants(r) \/ ReadAssignment(r) \/ UpsertAssignment(r)

\* Every request has been answered.
AllDone == (\A r \in Requests : pc[r] = "done") /\ UNCHANGED vars

Next ==
  \/ \E r \in Requests : Receive(r) \/ Advance(r) \/ Fail(r)
  \/ \E u \in Users : DeleteUser(u)
  \/ AllDone

Spec == Init /\ [][Next]_vars

\* The goroutine of a request and the backend that serves it keep running.
FairSpec == Spec /\ \A r \in Requests : WF_vars(Advance(r))

-----------------------------------------------------------------------------
TypeOK ==
  /\ experiments \subseteq Experiment /\ variants \subseteq Variant
  /\ assignments \subseteq Assignment /\ users \subseteq Users /\ audit \subseteq Requests
  /\ pc \in [Requests -> Written \cup {"idle", "insertExperiment", "readVariants",
                                       "readAssignment", "upsert", "done"}]
  /\ input \in [Requests -> Input \cup {Nil}]
  /\ seen \in [Requests -> Experiment \cup {Nil}]
  /\ \A r \in Requests : rows[r] \subseteq Variant
  /\ \A r \in Requests : resp[r] # Nil => resp[r].variant \in Variant \cup {Nil}

\* Whoever is shown a variant of an experiment is always shown the same one, although two
\* first calls may both find no assignment, compute one and write it over the other's
\* (GetAssignment, service.go:219-241).
AssignmentIsRepeatable ==
  \A r, s \in Requests :
    /\ resp[r] # Nil /\ resp[r].word = "variant" /\ resp[s] # Nil /\ resp[s].word = "variant"
    /\ input[r].user = input[s].user
    /\ resp[r].variant.experiment = resp[s].variant.experiment
    => resp[r].variant = resp[s].variant

\* A variant that was shown is the one on record, as long as the user exists
\* (GetAssignment stores it before it answers; the record goes with the user only).
ShownIsStored ==
  \A r \in Requests :
    resp[r] # Nil /\ resp[r].word = "variant" /\ input[r].user \in users =>
      [user |-> input[r].user, experiment |-> resp[r].variant.experiment,
       variant |-> resp[r].variant.id] \in assignments

\* A committed experiment has every variant it was asked for, with its weight, and the
\* weights really sum to 100, although the check adds them as ints that wrap
\* (validateVariantWeights, persistVariantsWithStore); and whoever finds the experiment finds
\* the variant, the new or the assigned one (the four statements of GetAssignment).
ExperimentsWhole ==
  /\ \A e \in experiments :
       LET weights == input[e.id].weights
       IN  /\ {[name |-> v.name, weight |-> v.weight] : v \in VariantsOf(e.id)}
                = {[name |-> i, weight |-> weights[i]] : i \in DOMAIN weights}
           /\ Cardinality(VariantsOf(e.id)) = Len(weights)
           /\ Total(weights) = WeightSum
  /\ \A r \in Requests : resp[r] # Nil => resp[r].word # "variantNotFound"

\* The tables are consistent: one experiment per key and environment, although
\* createExperiment checks before it inserts (ensureUniqueExperimentWithStore); only users who
\* are there have assignments, and only one per experiment, of one of its variants, although
\* deleteUser may come between any two statements of getAssignment.
Consistent ==
  /\ TypeOK
  /\ \A d, e \in experiments : d.key = e.key => d = e
  /\ \A a \in assignments :
       /\ a.user \in users
       /\ \E v \in variants : v.experiment = a.experiment /\ v.id = a.variant
  /\ \A a, b \in assignments : a.user = b.user /\ a.experiment = b.experiment => a = b

\* What createExperiment answers agrees with the audit log: "ok" only for an experiment that
\* is there with its entry, a refusal only for one that is not; only a lost connection
\* leaves the caller in doubt.
AnswerMatchesAudit ==
  /\ audit = {e.id : e \in experiments}
  /\ \A r \in Requests :
       pc[r] = "done" /\ input[r] \in CreateInput /\ resp[r].word # "error" =>
         (resp[r].word = "ok" <=> r \in audit)

\* Every request that is received is answered, although an insert may wait for another.
EveryRequestAnswered ==
  \A r \in Requests : pc[r] # "idle" ~> pc[r] = "done"

\* The service implements StickyExperiments: however statements interleave and fail, an
\* experiment is whole, audited and final, and an assignment is made once
\* (CreateExperiment, GetAssignment and deleteUser together).
Sticky == INSTANCE StickyExperiments WITH
  catalogue <- {[id |-> e.id, key |-> e.key, variants |-> VariantsOf(e.id)] : e \in experiments},
  assigned <- assignments, users <- users, log <- audit

ImplementsStickyExperiments == Sticky!Spec

=============================================================================

------------------------ MODULE ExperimentInvariant ------------------------
(***************************************************************************)
(* The inductive invariant of ExperimentService: what a handler holds at   *)
(* each statement, what the key index keeps true of the committed rows     *)
(* until it commits, that the variants of an experiment are whole and      *)
(* final, and that an assignment, stored or answered, is the one that the  *)
(* hash decides from them.                                                 *)
(***************************************************************************)
EXTENDS ExperimentService

Words ==
  {"missingActor", "invalidWeights", "duplicate", "wrappedDuplicate", "ok", "error", "invalidUser",
   "notFound", "variant"}

Answers == [word : Words, variant : Variant \cup {Nil}]

Creating == {"insertExperiment"} \cup Written
Assigning == {"readVariants", "readAssignment", "upsert"}

EType ==
  /\ TypeOK
  /\ rows \in [Requests -> SUBSET Variant] /\ resp \in [Requests -> Answers \cup {Nil}]

\* The rows of the first weights of the list, one each, with ids that fit into the whole list.
Numbered(vs, id, weights) ==
  /\ IsFiniteSet(vs) /\ Cardinality(vs) <= Len(weights)
  /\ \A v \in vs :
       /\ v.experiment = id /\ v.id \in DOMAIN weights
       /\ v.name \in 1..Cardinality(vs) /\ v.weight = weights[v.name]
  /\ \A u, v \in vs : u.id = v.id \/ u.name = v.name => u = v
  /\ \A i \in 1..Cardinality(vs) : \E v \in vs : v.name = i

\* How far createExperiment has come.
Created(r) ==
  /\ pc[r] \in Creating =>
       /\ input[r] \in CreateInput /\ ValidWeights(input[r].weights) /\ r \notin Anonymous
       /\ seen[r] = [id |-> r, key |-> input[r].key]
       /\ Numbered(rows[r], r, input[r].weights)
  /\ pc[r] = "insertExperiment" => rows[r] = {}
  /\ pc[r] = "insertVariant" => Cardinality(rows[r]) < Len(input[r].weights)
  /\ pc[r] \in {"audit", "commit"} => Cardinality(rows[r]) = Len(input[r].weights)

\* A key that r has inserted is nobody else's.
KeyHeld(r) ==
  pc[r] \in Written =>
    /\ ExperimentsWith(seen[r].key) = {}
    /\ \A s \in Requests \ {r} : pc[s] \in Written => seen[s].key # seen[r].key

\* How far getAssignment has come: what it has read of the experiment has not changed.
Reading(r) ==
  /\ pc[r] \in Assigning =>
       input[r] \in AssignInput /\ input[r].user # "" /\ seen[r] \in experiments
  /\ pc[r] \in {"readAssignment", "upsert"} => rows[r] = VariantsOf(seen[r].id)

\* A committed experiment is what its request asked for.
Whole(e) ==
  /\ pc[e.id] = "done" /\ e.id \notin Anonymous
  /\ input[e.id] \in CreateInput /\ e.key = input[e.id].key
  /\ ValidWeights(input[e.id].weights)
  /\ Numbered(VariantsOf(e.id), e.id, input[e.id].weights)
  /\ Cardinality(VariantsOf(e.id)) = Len(input[e.id].weights)

Catalogue ==
  /\ \A e \in experiments : Whole(e)
  /\ \A d, e \in experiments : d.key = e.key => d = e
  /\ \A v \in variants : \E e \in experiments : e.id = v.experiment
  /\ audit = {e.id : e \in experiments}

\* The variant that the hash decides for a user.
Decided(user, vs, id) ==
  LET list == Sorted(vs)
  IN  list[AssignVariantByWeight(HashToBucket[user, id], [i \in DOMAIN list |-> list[i].weight])]

\* Whatever is stored is what the hash decides, of a user who is there.
Stored(a) ==
  /\ a.user \in users
  /\ \E e \in experiments : e.id = a.experiment
  /\ a.variant = Decided(a.user, VariantsOf(a.experiment), a.experiment).id

\* And so is whatever was answered; it is on record as long as the user is there.
Told(r) ==
  LET user == input[r].user
      v == resp[r].variant
  IN  /\ input[r] \in AssignInput
      /\ \E e \in experiments : e.id = v.experiment
      /\ v = Decided(user, VariantsOf(v.experiment), v.experiment)
      /\ user \in users =>
           [user |-> user, experiment |-> v.experiment, variant |-> v.id] \in assignments

Answered(r) ==
  /\ pc[r] # "done" => resp[r] = Nil
  /\ pc[r] = "done" =>
       /\ resp[r] \in Answers
       /\ resp[r].word = "variant" => Told(r)
       /\ resp[r].word = "ok" => r \in audit
       /\ r \in audit => resp[r].word \in {"ok", "error"}
  /\ pc[r] \in {"idle", "done"} => seen[r] = Nil /\ rows[r] = {}

EInv ==
  /\ EType
  /\ \A r \in Requests : Created(r) /\ KeyHeld(r) /\ Reading(r) /\ Answered(r)
  /\ Catalogue
  /\ \A a \in assignments : Stored(a)

=============================================================================

----------------------- MODULE ExperimentServiceProofs -----------------------
(***************************************************************************)
(* Proofs about ExperimentService: its invariant, for any requests, users, *)
(* weights and hash, and what follows from it.                             *)
(***************************************************************************)
EXTENDS ExperimentInvariant, VariantWeightsProofs, FiniteSetTheorems

\* The users that the hash is defined for.
Hashable == Users \cup Strangers

LEMMA CallKinds ==
  /\ \A in \in CreateInput : in \in Input /\ in \notin AssignInput /\ in.weights \in WeightLists
  /\ \A in \in AssignInput : in \in Input /\ in \notin CreateInput
  BY DEF CreateInput, AssignInput, Input

LEMMA ListFacts ==
  ASSUME NEW w \in WeightLists
  PROVE  /\ w \in Seq(Int) /\ Len(w) \in Nat /\ DOMAIN w = 1..Len(w)
         /\ DOMAIN w \subseteq Ranks /\ Len(w) * ColumnMax < IntModulus
  <1>1. w \in Seq(Int) /\ Len(w) * ColumnMax < IntModulus  BY ServiceAssumption
  <1> QED  BY <1>1 DEF Ranks

-----------------------------------------------------------------------------
\* The variants of a whole experiment have the ids 1, 2, ..., each of them once.
LEMMA IdsComplete ==
  ASSUME NEW vs, NEW id, NEW w \in Seq(Int), Numbered(vs, id, w), Cardinality(vs) = Len(w)
  PROVE  \A i \in 1..Len(w) : \E v \in vs : v.id = i
  <1> DEFINE f == [v \in vs |-> v.id]
             T == 1..Len(w)
  <1>1. IsFiniteSet(vs) /\ IsFiniteSet(T) /\ Cardinality(T) = Cardinality(vs)
    <2>1. Len(w) \in Int /\ Len(w) >= 0 /\ 1 \in Int  OBVIOUS
    <2>2. IsFiniteSet(T) /\ Cardinality(T) = IF 1 > Len(w) THEN 0 ELSE Len(w) - 1 + 1
      BY <2>1, FS_Interval
    <2>3. Cardinality(T) = Len(w)  BY <2>1, <2>2
    <2> QED  BY <2>2, <2>3 DEF Numbered
  <1>2. f \in Injection(vs, T)
    BY DEF Numbered, Injection, IsInjective
  <1>3. f \in Surjection(vs, T)
    <2> HIDE DEF f, T
    <2> QED  BY <1>1, <1>2, FS_Injection
  <1> QED  BY <1>3 DEF Surjection

LEMMA NoneNumbered ==
  ASSUME NEW id, NEW w, Len(w) \in Nat
  PROVE  Numbered({}, id, w)
  <1>1. IsFiniteSet({}) /\ Cardinality({}) = 0  BY FS_EmptySet
  <1>2. \A i \in 1..0 : FALSE  OBVIOUS
  <1>3. 0 <= Len(w)  OBVIOUS
  <1> QED  BY <1>1, <1>2, <1>3 DEF Numbered

\* They can be sorted.
LEMMA SortedList ==
  ASSUME NEW vs, NEW id, NEW w \in Seq(Int), Numbered(vs, id, w), Cardinality(vs) = Len(w)
  PROVE  /\ Sorted(vs) \in [1..Len(w) -> vs]
         /\ \A i, j \in 1..Len(w) : i < j => Sorted(vs)[i].id < Sorted(vs)[j].id
  <1> DEFINE list == [i \in 1..Len(w) |-> CHOOSE v \in vs : v.id = i]
             Good(l) == \A i, j \in DOMAIN l : i < j => l[i].id < l[j].id
  <1>1. \A i \in 1..Len(w) : list[i] \in vs /\ list[i].id = i  BY IdsComplete
  <1>2. list \in [1..Len(w) -> vs] /\ Good(list)  BY <1>1
  <1>3. \E l \in [1..Len(w) -> vs] : Good(l)  BY <1>2
  <1>4. Sorted(vs) = CHOOSE l \in [1..Len(w) -> vs] : Good(l)  BY DEF Sorted
  <1> HIDE DEF Good
  <1>5. Sorted(vs) \in [1..Len(w) -> vs] /\ Good(Sorted(vs))  BY <1>3, <1>4
  <1> QED  BY <1>5 DEF Good

\* What the hash decides is one of the variants.
LEMMA DecidedIsOne ==
  ASSUME NEW vs \in SUBSET Variant, NEW id \in Requests, NEW w \in Seq(Int),
         Numbered(vs, id, w), Cardinality(vs) = Len(w), w # <<>>, NEW user \in Hashable
  PROVE  Decided(user, vs, id) \in vs
  <1> DEFINE list == Sorted(vs)
             weights == [i \in DOMAIN list |-> list[i].weight]
             b == HashToBucket[user, id]
  <1>1. list \in [1..Len(w) -> vs] /\ Len(w) \in Nat /\ Len(w) # 0  BY SortedList
  <1>2. \A v \in vs : v.weight \in Int  BY WidthAssumption DEF Variant
  <1>3. DOMAIN list = 1..Len(w)  BY <1>1
  <1>4. weights \in Seq(Int) /\ weights # <<>> /\ DOMAIN weights = 1..Len(w)
    <2> HIDE DEF list
    <2> QED  BY <1>1, <1>2, <1>3
  <1>5. b \in Buckets  BY ServiceAssumption DEF Hashable
  <1> HIDE DEF weights, b, list
  <1>6. AssignVariantByWeight(b, weights) \in DOMAIN weights  BY <1>4, <1>5, AssignFirst
  <1>7. list[AssignVariantByWeight(b, weights)] \in vs  BY <1>1, <1>4, <1>6
  <1> QED  BY <1>7 DEF Decided, list, weights, b

LEMMA DecidedVariant ==
  ASSUME EInv, NEW e \in experiments, NEW user \in Hashable
  PROVE  Decided(user, VariantsOf(e.id), e.id) \in VariantsOf(e.id)
  <1>1. Whole(e) /\ e.id \in Requests  BY DEF EInv, Catalogue, EType, TypeOK, Experiment
  <1> DEFINE w == input[e.id].weights
  <1>2. w \in Seq(Int) /\ w # <<>>
    BY <1>1, CallKinds, ListFacts DEF Whole, ValidWeights
  <1>3. VariantsOf(e.id) \in SUBSET Variant  BY DEF EInv, EType, TypeOK, VariantsOf
  <1> QED  BY <1>1, <1>2, <1>3, DecidedIsOne DEF Whole

-----------------------------------------------------------------------------
\* The step concerns the handler of r only, and r has not answered before.
StepOf(r) ==
  /\ pc[r] # "done"
  /\ \A s \in Requests \ {r} :
       /\ pc'[s] = pc[s] /\ input'[s] = input[s] /\ seen'[s] = seen[s]
       /\ rows'[s] = rows[s] /\ resp'[s] = resp[s]

\* A step that publishes no experiment, removes nothing and stores what the hash decides keeps
\* the invariant if it keeps what is said of its request.
LEMMA LocalStep ==
  ASSUME EInv, EType', NEW r \in Requests, StepOf(r),
         UNCHANGED <<experiments, variants, users, audit>>,
         assignments \subseteq assignments', \A a \in assignments' \ assignments : Stored(a)',
         Created(r)', KeyHeld(r)', Reading(r)', Answered(r)'
  PROVE  EInv'
  <1>1. ASSUME NEW s \in Requests \ {r}
        PROVE  Created(s)' /\ KeyHeld(s)' /\ Reading(s)' /\ Answered(s)'
    <2>1. /\ pc'[s] = pc[s] /\ input'[s] = input[s] /\ seen'[s] = seen[s]
          /\ rows'[s] = rows[s] /\ resp'[s] = resp[s]
      BY DEF StepOf
    <2>2. Created(s) /\ KeyHeld(s) /\ Reading(s) /\ Answered(s)  BY DEF EInv
    <2>3. Created(s)'  BY <2>1, <2>2 DEF Created
    <2>4. KeyHeld(s)'
      <3> SUFFICES ASSUME pc'[s] \in Written
                   PROVE  /\ ExperimentsWith(seen[s].key)' = {}
                          /\ \A t \in Requests \ {s} : pc'[t] \in Written => seen'[t].key # seen'[s].key
        BY <2>1 DEF KeyHeld, ExperimentsWith
      <3>1. ExperimentsWith(seen[s].key) = {}  BY <2>1, <2>2 DEF KeyHeld
      <3>3. ExperimentsWith(seen[s].key)' = ExperimentsWith(seen[s].key)
        BY <2>1 DEF ExperimentsWith
      <3>2. ASSUME NEW t \in Requests \ {s}, pc'[t] \in Written PROVE seen'[t].key # seen'[s].key
        <4>1. CASE t = r  BY <2>1, <3>2, <4>1 DEF KeyHeld
        <4>2. CASE t # r
          <5>1. pc'[t] = pc[t] /\ seen'[t] = seen[t]  BY <4>2 DEF StepOf
          <5> QED  BY <2>1, <2>2, <3>2, <5>1 DEF KeyHeld
        <4> QED  BY <4>1, <4>2
      <3> QED  BY <3>1, <3>2, <3>3
    <2>5. Reading(s)'  BY <2>1, <2>2 DEF Reading, VariantsOf
    <2>6. Answered(s)'
      <3>1. Told(s) => Told(s)'  BY <2>1 DEF Told, VariantsOf
      <3> QED  BY <2>1, <2>2, <3>1 DEF Answered
    <2> QED  BY <2>3, <2>4, <2>5, <2>6
  <1>2. Catalogue'
    <2>1. ASSUME NEW e \in experiments PROVE Whole(e)'
      <3>1. Whole(e) /\ e.id \in Requests  BY DEF EInv, Catalogue, EType, TypeOK, Experiment
      <3>2. e.id # r  BY <3>1 DEF Whole, StepOf
      <3>3. pc'[e.id] = pc[e.id] /\ input'[e.id] = input[e.id]  BY <3>1, <3>2 DEF StepOf
      <3> QED  BY <3>1, <3>3 DEF Whole, VariantsOf
    <2> QED  BY <2>1 DEF EInv, Catalogue
  <1>3. ASSUME NEW a \in assignments' PROVE Stored(a)'
    <2>1. CASE a \in assignments
      <3>1. Stored(a)  BY <2>1 DEF EInv
      <3> QED  BY <3>1 DEF Stored, VariantsOf
    <2> QED  BY <2>1
  <1>4. \A s \in Requests : Created(s)' /\ KeyHeld(s)' /\ Reading(s)' /\ Answered(s)'  BY <1>1
  <1> QED  BY <1>2, <1>3, <1>4 DEF EInv

\* What an answer does to the handler.
LEMMA AnswerEffect ==
  ASSUME EInv, NEW r \in Requests, pc[r] # "done", NEW in \in Input \cup {Nil},
         NEW answer \in Answers, Answer(r, in, answer)
  PROVE  /\ pc'[r] = "done" /\ input'[r] = in /\ resp'[r] = answer
         /\ seen'[r] = Nil /\ rows'[r] = {}
         /\ StepOf(r)
         /\ pc' \in [Requests -> Written \cup {"idle", "insertExperiment", "readVariants",
                                               "readAssignment", "upsert", "done"}]
         /\ input' \in [Requests -> Input \cup {Nil}] /\ seen' \in [Requests -> Experiment \cup {Nil}]
         /\ rows' \in [Requests -> SUBSET Variant] /\ resp' \in [Requests -> Answers \cup {Nil}]
  BY DEF Answer, Goto, EInv, EType, TypeOK, StepOf

\* An answer that is not "ok" keeps the invariant if the variant it tells, if any, is the one
\* that the hash decides, and is on record.
LEMMA AnswerStep ==
  ASSUME EInv, NEW r \in Requests, pc[r] # "done", NEW in \in Input \cup {Nil},
         NEW answer \in Answers, Answer(r, in, answer), answer.word # "ok",
         UNCHANGED <<experiments, variants, users, audit>>, assignments' \subseteq Assignment,
         assignments \subseteq assignments', \A a \in assignments' \ assignments : Stored(a)',
         answer.word = "variant" =>
           /\ in \in AssignInput
           /\ \E e \in experiments : e.id = answer.variant.experiment
           /\ answer.variant = Decided(in.user, VariantsOf(answer.variant.experiment),
                                       answer.variant.experiment)
           /\ in.user \in users =>
                [user |-> in.user, experiment |-> answer.variant.experiment,
                 variant |-> answer.variant.id] \in assignments'
  PROVE  EInv'
  <1>1. /\ pc'[r] = "done" /\ input'[r] = in /\ resp'[r] = answer
        /\ seen'[r] = Nil /\ rows'[r] = {} /\ StepOf(r)
    BY AnswerEffect
  <1>2. EType'
    <2>1. /\ pc' \in [Requests -> Written \cup {"idle", "insertExperiment", "readVariants",
                                                "readAssignment", "upsert", "done"}]
          /\ input' \in [Requests -> Input \cup {Nil}] /\ seen' \in [Requests -> Experiment \cup {Nil}]
          /\ rows' \in [Requests -> SUBSET Variant] /\ resp' \in [Requests -> Answers \cup {Nil}]
      BY AnswerEffect
    <2>2. /\ experiments' \subseteq Experiment /\ variants' \subseteq Variant
          /\ users' \subseteq Users /\ audit' \subseteq Requests
      BY DEF EInv, EType, TypeOK
    <2>3. \A s \in Requests : rows'[s] \subseteq Variant  BY <2>1
    <2>4. \A s \in Requests : resp'[s] # Nil => resp'[s].variant \in Variant \cup {Nil}
      BY <2>1 DEF Answers
    <2> QED  BY <2>1, <2>2, <2>3, <2>4 DEF EType, TypeOK
  <1>3. Created(r)' /\ KeyHeld(r)' /\ Reading(r)'
    BY <1>1 DEF Created, KeyHeld, Reading, Creating, Written, Assigning
  <1>4. r \notin audit
    <2>1. \A e \in experiments : e.id # r  BY DEF EInv, Catalogue, Whole
    <2> QED  BY <2>1 DEF EInv, Catalogue
  <1>5. Answered(r)'
    <2>1. answer.word = "variant" => Told(r)'  BY <1>1 DEF Told, VariantsOf
    <2> QED  BY <1>1, <1>4, <2>1 DEF Answered
  <1> QED  BY <1>1, <1>2, <1>3, <1>5, LocalStep

\* A refusal or an error.
LEMMA WordStep ==
  ASSUME EInv, NEW r \in Requests, pc[r] # "done", NEW in \in Input \cup {Nil},
         NEW word \in Words \ {"ok", "variant"}, Answer(r, in, Word(word)), UNCHANGED db
  PROVE  EInv'
  <1>1. Word(word) \in Answers /\ Word(word).word = word  BY DEF Word, Answers
  <1>2. UNCHANGED <<experiments, variants, assignments, users, audit>>  BY DEF db
  <1>3. assignments \subseteq Assignment  BY DEF EInv, EType, TypeOK
  <1> QED  BY <1>1, <1>2, <1>3, AnswerStep

\* The same of a request that keeps its input.
LEMMA FinishStep ==
  ASSUME EInv, NEW r \in Requests, pc[r] # "done",
         NEW word \in Words \ {"ok", "variant"}, Answer(r, input[r], Word(word)), UNCHANGED db
  PROVE  EInv'
  <1>1. input[r] \in Input \cup {Nil}  BY DEF EInv, EType, TypeOK
  <1> QED  BY <1>1, WordStep

\* A handler that goes on changes no answer.
LEMMA GoOn ==
  ASSUME EInv, EType', NEW r \in Requests, StepOf(r), UNCHANGED db, resp'[r] = resp[r],
         pc'[r] \in Creating \cup Assigning, Created(r)', KeyHeld(r)', Reading(r)'
  PROVE  EInv'
  <1>1. Answered(r)  BY DEF EInv
  <1>2. pc'[r] \notin {"idle", "done"}  BY DEF Creating, Written, Assigning
  <1>3. Answered(r)'  BY <1>1, <1>2 DEF Answered, StepOf
  <1> QED  BY <1>3, LocalStep DEF db

-----------------------------------------------------------------------------
\* The handler begins, holding an experiment.
LEMMA BeginStep ==
  ASSUME EInv, NEW r \in Requests, pc[r] = "idle", UNCHANGED db, NEW in \in Input,
         NEW e \in Experiment, NEW statement, Begin(r, in, e, statement),
         \/ /\ statement = "insertExperiment" /\ in \in CreateInput /\ ValidWeights(in.weights)
            /\ r \notin Anonymous /\ e = [id |-> r, key |-> in.key]
         \/ /\ statement = "readVariants" /\ in \in AssignInput /\ in.user # "" /\ e \in experiments
  PROVE  EInv'
  <1>1. /\ pc' = [pc EXCEPT ![r] = statement] /\ input' = [input EXCEPT ![r] = in]
        /\ seen' = [seen EXCEPT ![r] = e] /\ rows' = rows /\ resp' = resp
    BY DEF Begin, Goto
  <1>2. EType'  BY <1>1 DEF EInv, EType, TypeOK, db
  <1>3. /\ pc'[r] = statement /\ input'[r] = in /\ seen'[r] = e /\ rows'[r] = {} /\ StepOf(r)
    BY <1>1 DEF EInv, EType, TypeOK, StepOf, Answered
  <1>4. statement \notin Written  BY DEF Written
  <1>5. Numbered({}, r, in.weights) \/ statement = "readVariants"
    <2>1. in \in CreateInput => Len(in.weights) \in Nat  BY CallKinds, ListFacts
    <2> QED  BY <2>1, NoneNumbered
  <1>6. Created(r)'  BY <1>3, <1>5 DEF Created, Creating, Written
  <1>7. KeyHeld(r)'  BY <1>3, <1>4 DEF KeyHeld
  <1>8. Reading(r)'  BY <1>3 DEF Reading, Assigning, db
  <1>9. statement \in Creating \cup Assigning  BY DEF Creating, Assigning
  <1> QED  BY <1>1, <1>2, <1>3, <1>6, <1>7, <1>8, <1>9, GoOn

LEMMA ReceiveStep ==
  ASSUME EInv, NEW r \in Requests, Receive(r)
  PROVE  EInv'
  <1>1. UNCHANGED db /\ pc[r] = "idle" /\ pc[r] # "done"
    BY DEF Receive, MissingActor, CreateExperiment, GetAssignment
  <1>2. CASE MissingActor(r)
    <2>1. PICK in \in CreateInput : Answer(r, in, Word("missingActor"))  BY <1>2 DEF MissingActor
    <2> QED  BY <1>1, <2>1, CallKinds, WordStep DEF Words
  <1>3. CASE CreateExperiment(r)
    <2>1. PICK in \in CreateInput :
            \/ Answer(r, in, Word("invalidWeights"))
            \/ Answer(r, in, Word("duplicate"))
            \/ ValidWeights(in.weights) /\ Begin(r, in, [id |-> r, key |-> in.key], "insertExperiment")
      BY <1>3 DEF CreateExperiment
    <2>2. r \notin Anonymous  BY <1>3 DEF CreateExperiment
    <2>3. CASE Answer(r, in, Word("invalidWeights"))  BY <1>1, <2>3, CallKinds, WordStep DEF Words
    <2>4. CASE Answer(r, in, Word("duplicate"))  BY <1>1, <2>4, CallKinds, WordStep DEF Words
    <2>5. CASE ValidWeights(in.weights) /\ Begin(r, in, [id |-> r, key |-> in.key], "insertExperiment")
      <3>1. [id |-> r, key |-> in.key] \in Experiment  BY DEF CreateInput, Experiment
      <3> QED  BY <1>1, <2>2, <2>5, <3>1, CallKinds, BeginStep
    <2> QED  BY <2>1, <2>3, <2>4, <2>5
  <1>4. CASE GetAssignment(r)
    <2>1. PICK in \in AssignInput :
            \/ Answer(r, in, Word("invalidUser"))
            \/ Answer(r, in, Word("notFound"))
            \/ in.user # "" /\ \E e \in ExperimentsWith(in.key) : Begin(r, in, e, "readVariants")
      BY <1>4 DEF GetAssignment
    <2>2. CASE Answer(r, in, Word("invalidUser"))  BY <1>1, <2>2, CallKinds, WordStep DEF Words
    <2>3. CASE Answer(r, in, Word("notFound"))  BY <1>1, <2>3, CallKinds, WordStep DEF Words
    <2>4. ASSUME in.user # "", NEW e \in ExperimentsWith(in.key), Begin(r, in, e, "readVariants")
          PROVE  EInv'
      <3>1. e \in experiments /\ e \in Experiment  BY DEF ExperimentsWith, EInv, EType, TypeOK
      <3> QED  BY <1>1, <2>4, <3>1, CallKinds, BeginStep
    <2> QED  BY <2>1, <2>2, <2>3, <2>4
  <1> QED  BY <1>2, <1>3, <1>4 DEF Receive

-----------------------------------------------------------------------------
\* The handler goes on with the experiment it has.
LEMMA GotoEffect ==
  ASSUME EInv, NEW r \in Requests, NEW statement \in Creating \cup Assigning, pc[r] # "done",
         Goto(r, statement), UNCHANGED <<db, input, seen, rows, resp>>
  PROVE  EType' /\ StepOf(r) /\ pc'[r] = statement /\ UNCHANGED db
  BY DEF Goto, EInv, EType, TypeOK, StepOf, db, Creating, Assigning

LEMMA InsertExperimentStep ==
  ASSUME EInv, NEW r \in Requests, InsertExperiment(r)
  PROVE  EInv'
  <1>1. pc[r] = "insertExperiment" /\ ~Waits(r) /\ UNCHANGED db  BY DEF InsertExperiment
  <1>2. CASE Answer(r, input[r], Word("wrappedDuplicate"))  BY <1>1, <1>2, FinishStep DEF Words
  <1>3. CASE /\ ExperimentsWith(seen[r].key) = {} /\ Goto(r, "insertVariant")
             /\ UNCHANGED <<input, seen, rows, resp>>
    <2>1. EType' /\ StepOf(r) /\ pc'[r] = "insertVariant"
      BY <1>1, <1>3, GotoEffect DEF Creating, Written
    <2>2. Created(r) /\ pc[r] \in Creating  BY <1>1 DEF EInv, Creating
    <2>3. Created(r)'
      <3>1. /\ input[r] \in CreateInput /\ ValidWeights(input[r].weights) /\ rows[r] = {}
        BY <1>1, <2>2 DEF Created
      <3>2. Len(input[r].weights) \in Nat /\ Len(input[r].weights) # 0
        BY <3>1, CallKinds, ListFacts DEF ValidWeights
      <3>3. Cardinality(rows[r]) < Len(input[r].weights)  BY <3>1, <3>2, FS_EmptySet
      <3> QED  BY <1>3, <2>1, <2>2, <3>3 DEF Created
    <2>4. KeyHeld(r)'
      <3>1. \A s \in Requests \ {r} : pc'[s] = pc[s]  BY <2>1 DEF StepOf
      <3> QED  BY <1>1, <1>3, <3>1 DEF KeyHeld, Waits, ExperimentsWith, db
    <2>5. Reading(r)'  BY <2>1 DEF Reading, Assigning
    <2> QED  BY <1>1, <1>3, <2>1, <2>3, <2>4, <2>5, GoOn DEF Creating, Written
  <1> QED  BY <1>2, <1>3 DEF InsertExperiment

\* A further statement of the transaction keeps the key.
LEMMA KeyKept ==
  ASSUME EInv, NEW r \in Requests, StepOf(r), UNCHANGED db, pc[r] \in Written, seen'[r] = seen[r]
  PROVE  KeyHeld(r)'
  <1>1. KeyHeld(r)  BY DEF EInv
  <1>2. \A s \in Requests \ {r} : pc'[s] = pc[s] /\ seen'[s] = seen[s]  BY DEF StepOf
  <1> QED  BY <1>1, <1>2 DEF KeyHeld, ExperimentsWith, db

LEMMA InsertVariantStep ==
  ASSUME EInv, NEW r \in Requests, InsertVariant(r)
  PROVE  EInv'
  <1> DEFINE w == input[r].weights
             name == Cardinality(rows[r]) + 1
  <1>1. pc[r] = "insertVariant" /\ UNCHANGED db /\ pc[r] \in Written /\ pc[r] \in Creating
    BY DEF InsertVariant, Written, Creating
  <1>2. CASE Answer(r, input[r], Word("error"))  BY <1>1, <1>2, FinishStep DEF Words
  <1>3. ASSUME w[name] \in 0..ColumnMax, NEW id \in (1..Len(w)) \ {v.id : v \in rows[r]},
               rows' = [rows EXCEPT ![r] = @ \cup
                          {[experiment |-> r, id |-> id, name |-> name, weight |-> w[name]]}],
               Goto(r, IF name = Len(w) THEN "audit" ELSE "insertVariant"),
               UNCHANGED <<input, seen, resp>>
        PROVE  EInv'
    <2> DEFINE x == [experiment |-> r, id |-> id, name |-> name, weight |-> w[name]]
    <2>1. /\ input[r] \in CreateInput /\ Numbered(rows[r], r, w) /\ Cardinality(rows[r]) < Len(w)
          /\ Created(r)
      BY <1>1 DEF EInv, Created
    <2>2. /\ w \in Seq(Int) /\ Len(w) \in Nat /\ DOMAIN w = 1..Len(w) /\ DOMAIN w \subseteq Ranks
          /\ Cardinality(rows[r]) \in Nat
      BY <2>1, CallKinds, ListFacts, FS_CardinalityType DEF Numbered
    <2>3. name \in 1..Len(w)  BY <2>1, <2>2
    <2>4. x \in Variant  BY <1>3, <2>2, <2>3 DEF Variant
    <2>5. rows'[r] = rows[r] \cup {x} /\ rows' \in [Requests -> SUBSET Variant]
          /\ \A s \in Requests \ {r} : rows'[s] = rows[s]
      <3> HIDE DEF x
      <3>1. rows' = [rows EXCEPT ![r] = @ \cup {x}]  BY <1>3 DEF x
      <3> QED  BY <2>4, <3>1 DEF EInv, EType
    <2>6. \A v \in rows[r] : v.id # id /\ v.name # name
      BY <2>1, <2>2 DEF Numbered
    <2>7. x \notin rows[r]  BY <2>6
    <2>8. IsFiniteSet(rows'[r]) /\ Cardinality(rows'[r]) = name
      <3> HIDE DEF x
      <3>1. IsFiniteSet(rows[r])  BY <2>1 DEF Numbered
      <3>2. /\ IsFiniteSet(rows[r] \cup {x})
            /\ Cardinality(rows[r] \cup {x}) = Cardinality(rows[r]) + 1
        BY <2>7, <3>1, FS_AddElement
      <3> QED  BY <2>5, <3>2
    <2>9. Numbered(rows'[r], r, w)
      <3> HIDE DEF name
      <3>1. \A v \in rows'[r] : v \in rows[r] \/ v = x  BY <2>5
      <3>2. /\ x.experiment = r /\ x.id = id /\ x.name = name /\ x.weight = w[name]  OBVIOUS
      <3>3. name = Cardinality(rows[r]) + 1  BY DEF name
      <3> HIDE DEF x
      <3>4. Cardinality(rows'[r]) <= Len(w)  BY <2>2, <2>3, <2>8
      <3>5. \A v \in rows'[r] :
              /\ v.experiment = r /\ v.id \in DOMAIN w
              /\ v.name \in 1..Cardinality(rows'[r]) /\ v.weight = w[v.name]
        BY <2>1, <2>2, <2>3, <2>8, <3>1, <3>2, <3>3 DEF Numbered
      <3>6. \A u, v \in rows'[r] : u.id = v.id \/ u.name = v.name => u = v
        BY <2>1, <2>6, <3>1, <3>2 DEF Numbered
      <3>7. \A i \in 1..Cardinality(rows'[r]) : \E v \in rows'[r] : v.name = i
        <4> SUFFICES ASSUME NEW i \in 1..name PROVE \E v \in rows'[r] : v.name = i
          BY <2>8
        <4>1. CASE i = name  BY <2>5, <3>2, <4>1
        <4>2. CASE i # name
          <5>1. i \in 1..Cardinality(rows[r])  BY <2>2, <3>3, <4>2
          <5> QED  BY <2>1, <2>5, <5>1 DEF Numbered
        <4> QED  BY <4>1, <4>2
      <3> QED  BY <2>8, <3>4, <3>5, <3>6, <3>7 DEF Numbered
    <2> DEFINE statement == IF name = Len(w) THEN "audit" ELSE "insertVariant"
    <2>10. statement \in Written /\ statement \in Creating  BY DEF Written, Creating
    <2>11. /\ pc' = [pc EXCEPT ![r] = statement] /\ input' = input /\ seen' = seen /\ resp' = resp
      BY <1>3 DEF Goto
    <2>12. pc'[r] = statement /\ StepOf(r)
      BY <1>1, <2>5, <2>11 DEF EInv, EType, TypeOK, StepOf
    <2>13. EType'
      <3>1. pc' \in [Requests -> Written \cup {"idle", "insertExperiment", "readVariants",
                                               "readAssignment", "upsert", "done"}]
        BY <2>10, <2>11 DEF EInv, EType, TypeOK
      <3> QED  BY <1>1, <2>5, <2>11, <3>1 DEF EInv, EType, TypeOK, db
    <2>14. Created(r)'
      <3>1. statement # "insertExperiment" /\ statement # "commit"  OBVIOUS
      <3>2. statement = "insertVariant" => Cardinality(rows'[r]) < Len(w)
        BY <2>2, <2>3, <2>8
      <3>3. statement = "audit" => Cardinality(rows'[r]) = Len(w)  BY <2>8
      <3> QED  BY <1>1, <2>1, <2>9, <2>11, <2>12, <3>1, <3>2, <3>3 DEF Created
    <2>15. KeyHeld(r)'  BY <1>1, <2>11, <2>12, KeyKept
    <2>16. Reading(r)'  BY <2>12 DEF Reading, Assigning
    <2> QED  BY <1>1, <2>10, <2>11, <2>12, <2>13, <2>14, <2>15, <2>16, GoOn
  <1> QED  BY <1>2, <1>3 DEF InsertVariant

LEMMA AuditStep ==
  ASSUME EInv, NEW r \in Requests, AuditCreate(r)
  PROVE  EInv'
  <1>1. /\ pc[r] = "audit" /\ Goto(r, "commit") /\ UNCHANGED <<db, input, seen, rows, resp>>
    BY DEF AuditCreate
  <1>2. pc[r] \in Written /\ pc[r] \in Creating /\ "commit" \in Creating
    BY <1>1 DEF Written, Creating
  <1>3. EType' /\ StepOf(r) /\ pc'[r] = "commit" /\ UNCHANGED db
    BY <1>1, <1>2, GotoEffect
  <1>4. Created(r)
    BY DEF EInv
  <1>5. Created(r)'  BY <1>1, <1>2, <1>3, <1>4 DEF Created
  <1>6. KeyHeld(r)'  BY <1>1, <1>2, <1>3, KeyKept
  <1>7. Reading(r)'  BY <1>3 DEF Reading, Assigning
  <1> QED  BY <1>1, <1>2, <1>3, <1>5, <1>6, <1>7, GoOn

-----------------------------------------------------------------------------
\* Whoever has found an experiment finds variants.
LEMMA ReadVariantsStep ==
  ASSUME EInv, NEW r \in Requests, ReadVariants(r)
  PROVE  EInv'
  <1> DEFINE found == VariantsOf(seen[r].id)
  <1>1. pc[r] = "readVariants" /\ UNCHANGED db /\ pc[r] \in Assigning
    BY DEF ReadVariants, Assigning
  <1>2. seen[r] \in experiments /\ input[r] \in AssignInput /\ input[r].user # ""
    BY <1>1 DEF EInv, Reading
  <1>3. found # {}
    <2>1. Whole(seen[r])  BY <1>2 DEF EInv, Catalogue
    <2>2. Len(input[seen[r].id].weights) \in Nat /\ Len(input[seen[r].id].weights) # 0
      BY <2>1, CallKinds, ListFacts DEF Whole, ValidWeights
    <2> QED  BY <2>1, <2>2, FS_EmptySet DEF Whole
  <1>4. /\ rows' = [rows EXCEPT ![r] = found] /\ Goto(r, "readAssignment")
        /\ UNCHANGED <<input, seen, resp>>
    BY <1>3 DEF ReadVariants
  <1>5. found \in SUBSET Variant  BY DEF VariantsOf, EInv, EType, TypeOK
  <1> HIDE DEF found
  <1>6. /\ rows'[r] = found /\ rows' \in [Requests -> SUBSET Variant]
        /\ pc' = [pc EXCEPT ![r] = "readAssignment"] /\ pc'[r] = "readAssignment" /\ StepOf(r)
    BY <1>1, <1>4, <1>5 DEF EInv, EType, TypeOK, StepOf, Goto
  <1>7. EType'
    <2>1. pc' \in [Requests -> Written \cup {"idle", "insertExperiment", "readVariants",
                                             "readAssignment", "upsert", "done"}]
      BY <1>6 DEF EInv, EType, TypeOK
    <2> QED  BY <1>1, <1>4, <1>6, <2>1 DEF EInv, EType, TypeOK, db
  <1>8. Created(r)' /\ KeyHeld(r)'  BY <1>6 DEF Created, KeyHeld, Creating, Written
  <1>9. Reading(r)'
    <2>1. rows'[r] = VariantsOf(seen[r].id)'  BY <1>1, <1>4, <1>6 DEF found, VariantsOf, db
    <2> QED  BY <1>1, <1>2, <1>4, <1>6, <2>1 DEF Reading, db
  <1> QED  BY <1>1, <1>4, <1>6, <1>7, <1>8, <1>9, GoOn DEF Assigning

\* What is on record for the user is what the hash decides.
LEMMA ReadAssignmentStep ==
  ASSUME EInv, NEW r \in Requests, ReadAssignment(r)
  PROVE  EInv'
  <1>1. pc[r] = "readAssignment" /\ UNCHANGED db /\ pc[r] \in Assigning
    BY DEF ReadAssignment, Assigning
  <1>2. /\ seen[r] \in experiments /\ input[r] \in AssignInput /\ input[r].user # ""
        /\ rows[r] = VariantsOf(seen[r].id) /\ Reading(r)
    BY <1>1 DEF EInv, Reading
  <1> DEFINE user == input[r].user
             id == seen[r].id
             d == Decided(user, VariantsOf(id), id)
  <1>3. user \in Hashable /\ id \in Requests
    BY <1>2 DEF AssignInput, Hashable, EInv, EType, TypeOK, Experiment
  <1>4. d \in VariantsOf(id)  BY <1>2, <1>3, DecidedVariant
  <1>5. Numbered(VariantsOf(id), id, input[id].weights)
    BY <1>2 DEF EInv, Catalogue, Whole
  <1> HIDE DEF d
  <1>6. \A a \in Existing(r) :
          /\ a.variant = d.id
          /\ a = [user |-> user, experiment |-> id, variant |-> d.id] /\ a \in assignments
    <2> SUFFICES ASSUME NEW a \in Existing(r)
                 PROVE  /\ a.variant = d.id
                        /\ a = [user |-> user, experiment |-> id, variant |-> d.id]
                        /\ a \in assignments
      OBVIOUS
    <2>1. a \in assignments /\ a.user = user /\ a.experiment = id  BY DEF Existing
    <2>2. a \in Assignment /\ Stored(a)  BY <2>1 DEF EInv, EType, TypeOK
    <2>3. a.variant = d.id  BY <2>1, <2>2 DEF Stored, d
    <2>4. a = [user |-> a.user, experiment |-> a.experiment, variant |-> a.variant]
      BY <2>2 DEF Assignment
    <2> QED  BY <2>1, <2>3, <2>4
  <1>7. CASE Goto(r, "upsert") /\ UNCHANGED <<input, seen, rows, resp>>
    <2>1. EType' /\ StepOf(r) /\ pc'[r] = "upsert"
      BY <1>1, <1>7, GotoEffect DEF Assigning
    <2>2. Created(r)' /\ KeyHeld(r)'  BY <2>1 DEF Created, KeyHeld, Creating, Written
    <2>3. Reading(r)'  BY <1>1, <1>2, <1>7, <2>1 DEF Reading, VariantsOf, db
    <2> QED  BY <1>1, <1>7, <2>1, <2>2, <2>3, GoOn DEF Assigning
  <1>8. ASSUME NEW a \in Existing(r), NEW v \in rows[r], v.id = a.variant,
               Answer(r, input[r], Shown(v))
        PROVE  EInv'
    <2>1. v = d
      <3>1. v \in VariantsOf(id) /\ v.id = d.id  BY <1>2, <1>6, <1>8
      <3>2. \A u, x \in VariantsOf(id) : u.id = x.id => u = x  BY <1>5 DEF Numbered
      <3> QED  BY <1>4, <3>1, <3>2
    <2>2. v \in Variant /\ v.experiment = id
      BY <1>2, <1>8 DEF VariantsOf, EInv, EType, TypeOK
    <2>3. Shown(v) \in Answers /\ Shown(v).word = "variant" /\ Shown(v).variant = v
      BY <2>2 DEF Shown, Answers, Words
    <2>4. [user |-> user, experiment |-> id, variant |-> v.id] \in assignments
      BY <1>6, <1>8, <2>1
    <2>5. v = Decided(user, VariantsOf(v.experiment), v.experiment)  BY <2>1, <2>2 DEF d
    <2>6. pc[r] # "done" /\ input[r] \in Input /\ assignments \subseteq Assignment
      BY <1>1, <1>2, CallKinds DEF EInv, EType, TypeOK
    <2> HIDE DEF user, id
    <2>7. \E e \in experiments : e.id = v.experiment  BY <1>2, <2>2 DEF id
    <2> QED  BY <1>1, <1>2, <1>8, <2>2, <2>3, <2>4, <2>5, <2>6, <2>7, AnswerStep DEF db, user
  <1>9. ~\E a \in Existing(r) : \A v \in rows[r] : v.id # a.variant  BY <1>2, <1>4, <1>6
  <1> QED  BY <1>7, <1>8, <1>9 DEF ReadAssignment

\* What is written is what the hash decides: over an assignment that is there already, it changes
\* nothing.
LEMMA UpsertEffect ==
  ASSUME EInv, NEW r \in Requests, pc[r] = "upsert", input[r].user \in users,
         NEW user, user = input[r].user, NEW id, id = seen[r].id,
         NEW d, d = Decided(user, VariantsOf(id), id),
         NEW new, new = [user |-> user, experiment |-> id, variant |-> d.id],
         assignments' = (assignments \ Existing(r)) \cup
           {[user |-> user, experiment |-> id, variant |-> Assigned(r).id]}
  PROVE  /\ Assigned(r) = d /\ d \in VariantsOf(id) /\ d \in Variant /\ d.experiment = id
         /\ new \in Assignment /\ assignments' = assignments \cup {new}
         /\ \A a \in Existing(r) : a = new
  <1>1. /\ seen[r] \in experiments /\ input[r] \in AssignInput /\ input[r].user # ""
        /\ rows[r] = VariantsOf(seen[r].id)
    BY DEF EInv, Reading, Assigning
  <1>2. Assigned(r) = d  BY <1>1 DEF Assigned, Decided
  <1>3. user \in Users /\ user \in Hashable /\ id \in Requests
    BY <1>1 DEF Hashable, EInv, EType, TypeOK, Experiment
  <1>4. d \in VariantsOf(id)  BY <1>1, <1>3, DecidedVariant
  <1>5. d \in Variant /\ d.experiment = id  BY <1>4 DEF VariantsOf, EInv, EType, TypeOK
  <1>6. new \in Assignment  BY <1>3, <1>5 DEF Assignment, Variant
  <1>7. ASSUME NEW a \in Existing(r) PROVE a = new
    <2>1. a \in assignments /\ a.user = user /\ a.experiment = id  BY DEF Existing
    <2>2. a \in Assignment /\ Stored(a)  BY <2>1 DEF EInv, EType, TypeOK
    <2>3. a.variant = d.id  BY <2>1, <2>2 DEF Stored
    <2>4. a = [user |-> a.user, experiment |-> a.experiment, variant |-> a.variant]
      BY <2>2 DEF Assignment
    <2> QED  BY <2>1, <2>3, <2>4
  <1>8. Existing(r) \subseteq assignments  BY DEF Existing
  <1>9. assignments' = assignments \cup {new}  BY <1>2, <1>7, <1>8
  <1> QED  BY <1>2, <1>4, <1>5, <1>6, <1>7, <1>9

LEMMA UpsertStep ==
  ASSUME EInv, NEW r \in Requests, UpsertAssignment(r)
  PROVE  EInv'
  <1>1. /\ pc[r] = "upsert" /\ pc[r] \in Assigning /\ pc[r] # "done"
        /\ UNCHANGED <<experiments, variants, users, audit>>
    BY DEF UpsertAssignment, Assigning
  <1>2. seen[r] \in experiments /\ input[r] \in AssignInput /\ input[r] \in Input
    BY <1>1, CallKinds DEF EInv, Reading
  <1>3. CASE Answer(r, input[r], Word("error")) /\ UNCHANGED assignments
    BY <1>1, <1>3, FinishStep DEF Words, db
  <1>4. ASSUME NEW user, user = input[r].user, user \in users, NEW id, id = seen[r].id,
               assignments' = (assignments \ Existing(r)) \cup
                 {[user |-> user, experiment |-> id, variant |-> Assigned(r).id]},
               NEW answer \in {Shown(Assigned(r)), Word("error")}, Answer(r, input[r], answer),
               NEW d, d = Decided(user, VariantsOf(id), id),
               NEW new, new = [user |-> user, experiment |-> id, variant |-> d.id]
        PROVE  EInv'
    <2>1. /\ Assigned(r) = d /\ d \in Variant /\ d.experiment = id
          /\ new \in Assignment /\ assignments' = assignments \cup {new}
      BY <1>1, <1>4, UpsertEffect
    <2>2. assignments' \subseteq Assignment  BY <2>1 DEF EInv, EType, TypeOK
    <2>3. \A a \in assignments' \ assignments : Stored(a)'
      <3> SUFFICES ASSUME NEW a, a = new PROVE Stored(a)'
        BY <2>1
      <3>1. a.user = user /\ a.experiment = id /\ a.variant = d.id  BY <1>4
      <3>2. a.user \in users' /\ \E e \in experiments' : e.id = a.experiment
        BY <1>1, <1>2, <1>4, <3>1
      <3>3. VariantsOf(a.experiment)' = VariantsOf(a.experiment)  BY <1>1 DEF VariantsOf
      <3>4. a.variant = Decided(a.user, VariantsOf(a.experiment), a.experiment).id
        BY <1>4, <3>1
      <3> QED  BY <3>2, <3>3, <3>4 DEF Stored, Decided
    <2>4. answer \in Answers /\ answer.word # "ok"
          /\ (answer.word = "variant" => answer.variant = d)
      BY <1>4, <2>1 DEF Shown, Word, Answers, Words
    <2>5. d = Decided(user, VariantsOf(d.experiment), d.experiment)  BY <1>4, <2>1
    <2>6. \E e \in experiments : e.id = d.experiment  BY <1>2, <1>4, <2>1
    <2>7. [user |-> user, experiment |-> d.experiment, variant |-> d.id] \in assignments'
      BY <1>4, <2>1
    <2>8. assignments \subseteq assignments'  BY <2>1
    <2> QED
      BY <1>1, <1>2, <1>4, <2>2, <2>3, <2>4, <2>5, <2>6, <2>7, <2>8, AnswerStep
  <1> QED  BY <1>1, <1>3, <1>4 DEF UpsertAssignment

-----------------------------------------------------------------------------
\* What a commit publishes is whole, and new: no row of the tables is of this experiment yet.
LEMMA CommitEffect ==
  ASSUME EInv, NEW r \in Requests, Commit(r), NEW in, in = input[r]
  PROVE  /\ pc[r] = "commit" /\ pc[r] \in Written /\ pc[r] # "done"
         /\ experiments' = experiments \cup {seen[r]} /\ variants' = variants \cup rows[r]
         /\ audit' = audit \cup {r} /\ assignments' = assignments /\ users' = users
         /\ seen[r].id = r /\ seen[r].key = in.key /\ seen[r] \in Experiment
         /\ in \in CreateInput /\ ValidWeights(in.weights) /\ r \notin Anonymous
         /\ rows[r] \in SUBSET Variant /\ Numbered(rows[r], r, in.weights)
         /\ Cardinality(rows[r]) = Len(in.weights)
         /\ \A e \in experiments : Whole(e) /\ e.id \in Requests /\ e.id # r /\ e.key # in.key
         /\ \A v \in rows[r] : v.experiment = r
         /\ VariantsOf(r)' = rows[r]
         /\ \A id : id # r => VariantsOf(id)' = VariantsOf(id)
  <1>1. /\ pc[r] = "commit" /\ pc[r] \in Written /\ pc[r] \in Creating /\ pc[r] # "done"
        /\ experiments' = experiments \cup {seen[r]} /\ variants' = variants \cup rows[r]
        /\ audit' = audit \cup {seen[r].id} /\ assignments' = assignments /\ users' = users
    BY DEF Commit, Written, Creating
  <1>2. /\ in \in CreateInput /\ ValidWeights(in.weights) /\ r \notin Anonymous
        /\ seen[r] = [id |-> r, key |-> in.key]
        /\ Numbered(rows[r], r, in.weights) /\ Cardinality(rows[r]) = Len(in.weights)
    BY <1>1 DEF EInv, Created
  <1>3. /\ seen[r] \in Experiment /\ seen[r].id = r /\ seen[r].key = in.key
        /\ rows[r] \in SUBSET Variant
    BY <1>2 DEF CreateInput, Experiment, EInv, EType
  <1>4. \A e \in experiments : Whole(e) /\ e.id \in Requests /\ e.id # r /\ e.key # in.key
    <2>1. \A e \in experiments : Whole(e) /\ e.id \in Requests
      BY DEF EInv, Catalogue, EType, TypeOK, Experiment
    <2>2. ExperimentsWith(seen[r].key) = {}  BY <1>1 DEF EInv, KeyHeld
    <2> QED  BY <1>1, <1>3, <2>1, <2>2 DEF Whole, ExperimentsWith
  <1>5. \A v \in rows[r] : v.experiment = r  BY <1>2 DEF Numbered
  <1>6. \A v \in variants : v.experiment # r  BY <1>4 DEF EInv, Catalogue
  <1>7. VariantsOf(r)' = rows[r]  BY <1>1, <1>5, <1>6 DEF VariantsOf
  <1>8. \A id : id # r => VariantsOf(id)' = VariantsOf(id)  BY <1>1, <1>5 DEF VariantsOf
  <1>9. audit' = audit \cup {r}  BY <1>1, <1>3
  <1> QED  BY <1>1, <1>2, <1>3, <1>4, <1>5, <1>7, <1>8, <1>9

\* The commit publishes the experiment, whole, with its key, its variants and its entry.
LEMMA CommitStep ==
  ASSUME EInv, NEW r \in Requests, Commit(r)
  PROVE  EInv'
  <1> DEFINE in == input[r]
             new == seen[r]
  <1>1. /\ pc[r] \in Written /\ pc[r] # "done"
        /\ experiments' = experiments \cup {new} /\ variants' = variants \cup rows[r]
        /\ audit' = audit \cup {r} /\ assignments' = assignments /\ users' = users
    BY CommitEffect
  <1>2. /\ in \in CreateInput /\ ValidWeights(in.weights) /\ r \notin Anonymous
        /\ Numbered(rows[r], r, in.weights) /\ Cardinality(rows[r]) = Len(in.weights)
        /\ in \in Input /\ in \notin AssignInput
    BY CommitEffect, CallKinds
  <1>3. new \in Experiment /\ new.id = r /\ new.key = in.key /\ rows[r] \in SUBSET Variant
    BY CommitEffect
  <1>4. \A e \in experiments : Whole(e) /\ e.id \in Requests /\ e.id # r /\ e.key # in.key
    BY CommitEffect
  <1>5. \A v \in rows[r] : v.experiment = r  BY CommitEffect
  <1>6. VariantsOf(r)' = rows[r]  BY CommitEffect
  <1>7. \A id : id # r => VariantsOf(id)' = VariantsOf(id)  BY CommitEffect
  <1>8. PICK word \in {"ok", "error"} : Answer(r, in, Word(word))  BY DEF Commit
  <1>9. Word(word) \in Answers /\ Word(word).word = word  BY DEF Word, Answers, Words
  <1>10. /\ pc'[r] = "done" /\ input'[r] = in /\ resp'[r] = Word(word)
        /\ seen'[r] = Nil /\ rows'[r] = {} /\ StepOf(r)
        /\ pc' \in [Requests -> Written \cup {"idle", "insertExperiment", "readVariants",
                                              "readAssignment", "upsert", "done"}]
        /\ input' \in [Requests -> Input \cup {Nil}] /\ seen' \in [Requests -> Experiment \cup {Nil}]
        /\ rows' \in [Requests -> SUBSET Variant] /\ resp' \in [Requests -> Answers \cup {Nil}]
    BY <1>1, <1>2, <1>8, <1>9, AnswerEffect
  <1> HIDE DEF in
  <1>11. EType'
    <2>1. /\ experiments' \subseteq Experiment /\ variants' \subseteq Variant
          /\ users' \subseteq Users /\ audit' \subseteq Requests /\ assignments' \subseteq Assignment
      BY <1>1, <1>3 DEF EInv, EType, TypeOK
    <2>2. \A s \in Requests : rows'[s] \subseteq Variant  BY <1>10
    <2>3. \A s \in Requests : resp'[s] # Nil => resp'[s].variant \in Variant \cup {Nil}
      BY <1>10 DEF Answers
    <2> QED  BY <1>10, <2>1, <2>2, <2>3 DEF EType, TypeOK
  <1>12. Catalogue'
    <2>1. \A e \in experiments' : e \in experiments \/ e = new  BY <1>1
    <2>2. ASSUME NEW e \in experiments PROVE Whole(e)'
      <3>1. Whole(e) /\ e.id \in Requests \ {r}  BY <1>4
      <3>2. pc'[e.id] = pc[e.id] /\ input'[e.id] = input[e.id]  BY <1>10, <3>1 DEF StepOf
      <3>3. VariantsOf(e.id)' = VariantsOf(e.id)  BY <1>7, <3>1
      <3> QED  BY <3>1, <3>2, <3>3 DEF Whole
    <2>3. \A e \in {new} : Whole(e)'
      <3> SUFFICES ASSUME NEW e, e = new PROVE Whole(e)'
        OBVIOUS
      <3>1. e.id = r /\ e.key = in.key  BY <1>3
      <3>2. input'[r].weights = in.weights  BY <1>10
      <3>3. /\ Numbered(VariantsOf(e.id)', e.id, in.weights)
            /\ Cardinality(VariantsOf(e.id)') = Len(in.weights)
        BY <1>2, <1>6, <3>1
      <3> QED  BY <1>2, <1>10, <3>1, <3>2, <3>3 DEF Whole
    <2>4. \A d, e \in experiments' : d.key = e.key => d = e
      <3>1. \A d, e \in experiments : d.key = e.key => d = e  BY DEF EInv, Catalogue
      <3> QED  BY <1>3, <1>4, <2>1, <3>1
    <2>5. \A v \in variants' : \E e \in experiments' : e.id = v.experiment
      BY <1>1, <1>2, <1>3, <1>5 DEF EInv, Catalogue
    <2>6. audit' = {e.id : e \in experiments'}
      <3>1. audit = {e.id : e \in experiments}  BY DEF EInv, Catalogue
      <3> QED  BY <1>1, <1>3, <3>1
    <2> QED  BY <2>1, <2>2, <2>3, <2>4, <2>5, <2>6 DEF Catalogue
  <1>13. ASSUME NEW a \in assignments' PROVE Stored(a)'
    <2>1. Stored(a)  BY <1>1 DEF EInv
    <2>2. a.experiment # r  BY <1>4, <2>1 DEF Stored
    <2>3. VariantsOf(a.experiment)' = VariantsOf(a.experiment)  BY <1>7, <2>2
    <2> QED  BY <1>1, <2>1, <2>3 DEF Stored, Decided
  <1>14. /\ Created(r)' /\ KeyHeld(r)' /\ Reading(r)' /\ Answered(r)'
    <2>1. Created(r)' /\ KeyHeld(r)' /\ Reading(r)'
      BY <1>10 DEF Created, KeyHeld, Reading, Creating, Written, Assigning
    <2>2. r \in audit'  BY <1>1, <1>2, <1>3
    <2>3. Answered(r)'  BY <1>9, <1>10, <2>2 DEF Answered
    <2> QED  BY <2>1, <2>3
  <1>15. ASSUME NEW s \in Requests \ {r}
         PROVE  Created(s)' /\ KeyHeld(s)' /\ Reading(s)' /\ Answered(s)'
    <2>1. /\ pc'[s] = pc[s] /\ input'[s] = input[s] /\ seen'[s] = seen[s]
          /\ rows'[s] = rows[s] /\ resp'[s] = resp[s]
      BY <1>10 DEF StepOf
    <2>2. Created(s) /\ KeyHeld(s) /\ Reading(s) /\ Answered(s)  BY DEF EInv
    <2>3. Created(s)'  BY <2>1, <2>2 DEF Created
    <2>4. KeyHeld(s)'
      <3> SUFFICES ASSUME pc[s] \in Written
                   PROVE  /\ ExperimentsWith(seen[s].key)' = {}
                          /\ \A t \in Requests \ {s} : pc'[t] \in Written => seen'[t].key # seen'[s].key
        BY <2>1 DEF KeyHeld
      <3>1. /\ ExperimentsWith(seen[s].key) = {} /\ seen[r].key # seen[s].key
            /\ \A t \in Requests \ {s} : pc[t] \in Written => seen[t].key # seen[s].key
        BY <1>1, <2>2 DEF KeyHeld
      <3>2. ExperimentsWith(seen[s].key)' = {}  BY <1>1, <2>1, <3>1 DEF ExperimentsWith
      <3>3. ASSUME NEW t \in Requests \ {s}, pc'[t] \in Written PROVE seen'[t].key # seen'[s].key
        <4>1. t # r  BY <1>10, <3>3 DEF Written
        <4>2. pc'[t] = pc[t] /\ seen'[t] = seen[t]  BY <1>10, <4>1 DEF StepOf
        <4> QED  BY <2>1, <3>1, <3>3, <4>2
      <3> QED  BY <3>2, <3>3
    <2>5. Reading(s)'
      <3>1. pc[s] \in Assigning => seen[s].id # r  BY <1>4, <2>2 DEF Reading
      <3>2. pc[s] \in Assigning => VariantsOf(seen[s].id)' = VariantsOf(seen[s].id)
        BY <1>7, <2>1, <3>1 DEF VariantsOf
      <3>3. pc[s] \in {"readAssignment", "upsert"} => pc[s] \in Assigning  BY DEF Assigning
      <3> QED  BY <1>1, <2>1, <2>2, <3>2, <3>3 DEF Reading
    <2>6. Answered(s)'
      <3>1. ASSUME Told(s) PROVE Told(s)'
        <4>1. resp[s].variant.experiment # r  BY <1>4, <3>1 DEF Told
        <4>2. \A id : id = resp[s].variant.experiment => VariantsOf(id)' = VariantsOf(id)
          BY <1>7, <4>1
        <4> QED  BY <1>1, <2>1, <3>1, <4>2 DEF Told, Decided
      <3>2. s \in audit' <=> s \in audit  BY <1>1, <1>2, <1>3
      <3> QED  BY <2>1, <2>2, <3>1, <3>2 DEF Answered
    <2> QED  BY <2>3, <2>4, <2>5, <2>6
  <1>16. \A s \in Requests : Created(s)' /\ KeyHeld(s)' /\ Reading(s)' /\ Answered(s)'
    BY <1>14, <1>15
  <1> QED  BY <1>11, <1>12, <1>13, <1>16 DEF EInv

\* With a user go its assignments, and nothing else.
LEMMA DeleteUserStep ==
  ASSUME EInv, NEW u, DeleteUser(u)
  PROVE  EInv'
  <1>1. /\ users' = users \ {u} /\ assignments' = {a \in assignments : a.user # u}
        /\ UNCHANGED <<experiments, variants, audit, handler>>
    BY DEF DeleteUser
  <1>2. EType'  BY <1>1 DEF EInv, EType, TypeOK, handler
  <1>3. \A id : VariantsOf(id)' = VariantsOf(id)  BY <1>1 DEF VariantsOf
  <1>4. Catalogue'
    <2>1. \A e \in experiments : Whole(e) => Whole(e)'  BY <1>1 DEF Whole, handler, VariantsOf
    <2> QED  BY <1>1, <2>1 DEF EInv, Catalogue
  <1>5. ASSUME NEW a \in assignments' PROVE Stored(a)'
    <2>1. Stored(a) /\ a.user # u  BY <1>1 DEF EInv
    <2> QED  BY <1>1, <2>1 DEF Stored, VariantsOf
  <1>6. ASSUME NEW s \in Requests PROVE Created(s)' /\ KeyHeld(s)' /\ Reading(s)' /\ Answered(s)'
    <2>1. Created(s) /\ KeyHeld(s) /\ Reading(s) /\ Answered(s)  BY DEF EInv
    <2>2. Created(s)' /\ KeyHeld(s)' /\ Reading(s)'
      BY <1>1, <2>1 DEF Created, KeyHeld, Reading, handler, ExperimentsWith, VariantsOf
    <2>3. Told(s) => Told(s)'  BY <1>1 DEF Told, handler, VariantsOf
    <2>4. Answered(s)'  BY <1>1, <2>1, <2>3 DEF Answered, handler
    <2> QED  BY <2>2, <2>4
  <1> QED  BY <1>2, <1>4, <1>5, <1>6 DEF EInv

LEMMA StepHolds ==
  ASSUME EInv, [Next]_vars
  PROVE  EInv'
  <1>1. ASSUME NEW r \in Requests, Receive(r) PROVE EInv'  BY <1>1, ReceiveStep
  <1>2. ASSUME NEW r \in Requests, Advance(r) PROVE EInv'
    BY <1>2, InsertExperimentStep, InsertVariantStep, AuditStep, CommitStep, ReadVariantsStep,
       ReadAssignmentStep, UpsertStep DEF Advance
  <1>3. ASSUME NEW r \in Requests, Fail(r) PROVE EInv'
    BY <1>3, FinishStep DEF Fail, Words
  <1>4. ASSUME NEW u \in Users, DeleteUser(u) PROVE EInv'  BY <1>4, DeleteUserStep
  <1>5. CASE UNCHANGED vars
    <2>1. UNCHANGED <<experiments, variants, assignments, users, audit, pc, input, seen, rows, resp>>
      BY <1>5 DEF vars, db, handler
    <2>2. EType'  BY <2>1 DEF EInv, EType, TypeOK
    <2>3. ASSUME NEW s \in Requests PROVE Created(s)' /\ KeyHeld(s)' /\ Reading(s)' /\ Answered(s)'
      <3>1. Created(s) /\ KeyHeld(s) /\ Reading(s) /\ Answered(s)  BY DEF EInv
      <3>2. Created(s)' /\ KeyHeld(s)' /\ Reading(s)'
        BY <2>1, <3>1 DEF Created, KeyHeld, Reading, ExperimentsWith, VariantsOf
      <3>3. Told(s) => Told(s)'  BY <2>1 DEF Told, VariantsOf
      <3>4. Answered(s)'  BY <2>1, <3>1, <3>3 DEF Answered
      <3> QED  BY <3>2, <3>4
    <2>4. Catalogue'
      <3>1. \A e \in experiments : Whole(e) => Whole(e)'  BY <2>1 DEF Whole, VariantsOf
      <3> QED  BY <2>1, <3>1 DEF EInv, Catalogue
    <2>5. \A a \in assignments' : Stored(a)'
      <3>1. \A a \in assignments : Stored(a) => Stored(a)'  BY <2>1 DEF Stored, VariantsOf
      <3> QED  BY <2>1, <3>1 DEF EInv
    <2> QED  BY <2>2, <2>3, <2>4, <2>5 DEF EInv
  <1> QED  BY <1>1, <1>2, <1>3, <1>4, <1>5 DEF Next, AllDone

LEMMA InitHolds ==
  ASSUME Init
  PROVE  EInv
  <1>1. EType  BY DEF Init, EType, TypeOK
  <1>2. \A s \in Requests : Created(s) /\ KeyHeld(s) /\ Reading(s) /\ Answered(s)
    BY DEF Init, Created, KeyHeld, Reading, Answered, Creating, Written, Assigning
  <1>3. Catalogue /\ \A a \in assignments : Stored(a)  BY DEF Init, Catalogue
  <1> QED  BY <1>1, <1>2, <1>3 DEF EInv

-----------------------------------------------------------------------------
\* The invariant holds in every state, whatever the requests, the users, the weights and the
\* hash.
THEOREM Invariance == Spec => []EInv
  <1>1. Init => EInv  BY InitHolds
  <1>2. EInv /\ [Next]_vars => EInv'  BY StepHolds
  <1> QED  BY <1>1, <1>2, PTL DEF Spec

\* The tables are consistent: one experiment per key, assignments of users who are there only,
\* one per experiment, of one of its variants (createExperiment, getAssignment, deleteUser).
THEOREM ExperimentsConsistent == Spec => []Consistent
  <1>1. ASSUME EInv PROVE Consistent
    <2>1. TypeOK /\ \A d, e \in experiments : d.key = e.key => d = e
      BY <1>1 DEF EInv, EType, Catalogue
    <2>2. ASSUME NEW a \in assignments
          PROVE  /\ a.user \in users
                 /\ \E v \in variants : v.experiment = a.experiment /\ v.id = a.variant
      <3>1. Stored(a) /\ a.user \in Hashable
        BY <1>1 DEF EInv, EType, TypeOK, Assignment, Hashable
      <3>2. PICK e \in experiments : e.id = a.experiment  BY <3>1 DEF Stored
      <3>3. Decided(a.user, VariantsOf(e.id), e.id) \in VariantsOf(e.id)
        BY <1>1, <3>1, DecidedVariant
      <3> QED  BY <3>1, <3>2, <3>3 DEF Stored, VariantsOf
    <2>3. \A a, b \in assignments : a.user = b.user /\ a.experiment = b.experiment => a = b
      <3> SUFFICES ASSUME NEW a \in assignments, NEW b \in assignments,
                          a.user = b.user, a.experiment = b.experiment
                   PROVE  a = b
        OBVIOUS
      <3>1. Stored(a) /\ Stored(b) /\ a \in Assignment /\ b \in Assignment
        BY <1>1 DEF EInv, EType, TypeOK
      <3>2. a.variant = b.variant  BY <3>1 DEF Stored
      <3> QED  BY <3>1, <3>2 DEF Assignment
    <2> QED  BY <2>1, <2>2, <2>3 DEF Consistent
  <1> QED  BY <1>1, Invariance, PTL

\* Whoever is shown a variant of an experiment is always shown the same one (GetAssignment).
THEOREM AssignmentRepeatable == Spec => []AssignmentIsRepeatable
  <1>1. ASSUME EInv PROVE AssignmentIsRepeatable
    <2> SUFFICES ASSUME NEW r \in Requests, NEW s \in Requests,
                        resp[r] # Nil, resp[r].word = "variant",
                        resp[s] # Nil, resp[s].word = "variant", input[r].user = input[s].user,
                        resp[r].variant.experiment = resp[s].variant.experiment
                 PROVE  resp[r].variant = resp[s].variant
      BY DEF AssignmentIsRepeatable
    <2>1. Told(r) /\ Told(s)  BY <1>1 DEF EInv, Answered
    <2> QED  BY <2>1 DEF Told
  <1> QED  BY <1>1, Invariance, PTL

\* A variant that was shown is on record as long as the user exists (GetAssignment).
THEOREM ShownStored == Spec => []ShownIsStored
  <1>1. ASSUME EInv PROVE ShownIsStored
    <2>1. \A r \in Requests : resp[r] # Nil /\ resp[r].word = "variant" => Told(r)
      BY <1>1 DEF EInv, Answered
    <2> QED  BY <2>1 DEF ShownIsStored, Told
  <1> QED  BY <1>1, Invariance, PTL

\* A committed experiment has every variant it was asked for, and its weights sum to 100
\* although the check adds wrapping ints; whoever finds it finds its variants.
THEOREM ExperimentsAreWhole == Spec => []ExperimentsWhole
  <1>1. ASSUME EInv PROVE ExperimentsWhole
    <2>1. ASSUME NEW e \in experiments, NEW w, w = input[e.id].weights
          PROVE  /\ {[name |-> v.name, weight |-> v.weight] : v \in VariantsOf(e.id)}
                      = {[name |-> i, weight |-> w[i]] : i \in DOMAIN w}
                 /\ Cardinality(VariantsOf(e.id)) = Len(w)
                 /\ Total(w) = WeightSum
      <3>1. Whole(e)  BY <1>1 DEF EInv, Catalogue
      <3>2. /\ w \in WeightLists /\ ValidWeights(w) /\ Numbered(VariantsOf(e.id), e.id, w)
            /\ Cardinality(VariantsOf(e.id)) = Len(w)
        BY <2>1, <3>1, CallKinds DEF Whole
      <3>3. w \in Seq(Int) /\ DOMAIN w = 1..Len(w) /\ Len(w) * ColumnMax < IntModulus
        BY <3>2, ListFacts
      <3>4. /\ \A v \in VariantsOf(e.id) : v.name \in DOMAIN w /\ v.weight = w[v.name]
            /\ \A i \in DOMAIN w : \E v \in VariantsOf(e.id) : v.name = i
        BY <3>2, <3>3 DEF Numbered
      <3>5. {[name |-> v.name, weight |-> v.weight] : v \in VariantsOf(e.id)}
              = {[name |-> i, weight |-> w[i]] : i \in DOMAIN w}
        BY <3>4
      <3>6. \A v \in VariantsOf(e.id) : v.weight \in 0..ColumnMax
        BY <1>1 DEF VariantsOf, EInv, EType, TypeOK, Variant
      <3>7. \A i \in DOMAIN w : w[i] \in 0..ColumnMax  BY <3>4, <3>6
      <3>8. Total(w) = WeightSum  BY <3>2, <3>3, <3>7, StoredTotal DEF WeightSum
      <3> QED  BY <3>2, <3>5, <3>8
    <2>2. ASSUME NEW r \in Requests, resp[r] # Nil PROVE resp[r].word # "variantNotFound"
      <3>1. resp[r] \in Answers  BY <1>1, <2>2 DEF EInv, EType
      <3> QED  BY <3>1 DEF Answers, Words
    <2> QED  BY <2>1, <2>2 DEF ExperimentsWhole
  <1> QED  BY <1>1, Invariance, PTL

\* What createExperiment answers agrees with the audit log (CreateExperiment, Commit).
THEOREM AnswersMatchAudit == Spec => []AnswerMatchesAudit
  <1>1. ASSUME EInv PROVE AnswerMatchesAudit
    BY <1>1 DEF EInv, Catalogue, Answered, AnswerMatchesAudit
  <1> QED  BY <1>1, Invariance, PTL

-----------------------------------------------------------------------------
\* The sum that Sticky!Publish takes.
SumOf(vs) == Sticky!MapThenSumSet(LAMBDA v : v.weight, vs)

\* Each member of vs has a place of its own in the list, where its weight is.
Placed(vs, w, place) ==
  /\ \A v \in vs : place[v] \in 1..Len(w) /\ v.weight = w[place[v]]
  /\ \A u, v \in vs : place[u] = place[v] => u = v
  /\ \A i \in 1..Len(w) : \E v \in vs : place[v] = i

\* Summing over a set, in any order, gives the sum of a list that has each member at one place.
LEMMA SumOfWeights ==
  ASSUME NEW vs, IsFiniteSet(vs), NEW w \in Seq(Int), NEW place, Placed(vs, w, place)
  PROVE  SumOf(vs) = Total(w)
  <1>0. /\ \A v \in vs : place[v] \in 1..Len(w) /\ v.weight = w[place[v]]
        /\ \A u, v \in vs : place[u] = place[v] => u = v
        /\ \A i \in 1..Len(w) : \E v \in vs : place[v] = i
    BY DEF Placed
  <1> DEFINE Part(s) == [i \in 1..Len(w) |-> IF \E v \in s : place[v] = i THEN w[i] ELSE 0]
             pick(s) == CHOOSE x \in s : TRUE
             IsSum(f) == f = [s \in SUBSET vs |->
                               IF s = {} THEN 0 ELSE pick(s).weight + f[s \ {pick(s)}]]
  <1>1. \A s : /\ Part(s) \in Seq(Int) /\ Len(Part(s)) = Len(w)
               /\ \A i \in 1..Len(w) :
                    Part(s)[i] = IF \E v \in s : place[v] = i THEN w[i] ELSE 0
    OBVIOUS
  <1>2. \A s : s # {} => pick(s) \in s  OBVIOUS
  <1>3. Part(vs) = w
    <2>1. \A i \in 1..Len(w) : Part(vs)[i] = w[i]  BY <1>0, <1>1
    <2>2. Part(vs) = [i \in 1..Len(w) |-> w[i]]  BY <2>1
    <2> QED  BY <2>2
  <1>4. SumOf(vs) = (CHOOSE f : IsSum(f))[vs]
    BY DEF SumOf, Sticky!MapThenSumSet, Sticky!MapThenFoldSet
  <1> HIDE DEF Part, pick
  <1>5. Total(Part({})) = 0
    <2>1. \A i \in 1..Len(w) : Part({})[i] = 0  BY <1>1
    <2> QED  BY <1>1, <2>1, NoSum
  <1>6. ASSUME NEW s \in SUBSET vs, s # {}
        PROVE  /\ Total(Part(s)) = pick(s).weight + Total(Part(s \ {pick(s)}))
               /\ Total(Part(s)) \in Int
    <2> DEFINE x == pick(s)
               t == s \ {x}
               k == place[x]
    <2>1. x \in s /\ x \in vs /\ k \in 1..Len(w) /\ x.weight = w[k]  BY <1>0, <1>2, <1>6
    <2> HIDE DEF x
    <2>2. Part(s)[k] = w[k]  BY <1>1, <2>1
    <2>3. Part(t)[k] = 0
      <3>1. ~\E v \in t : place[v] = k  BY <1>0, <2>1
      <3> HIDE DEF t, k
      <3> QED  BY <1>1, <2>1, <3>1
    <2>4. ASSUME NEW i \in 1..Len(w), i # k PROVE Part(t)[i] = Part(s)[i]
      <3>1. (\E v \in s : place[v] = i) <=> (\E v \in t : place[v] = i)  BY <2>1, <2>4
      <3> HIDE DEF t, k
      <3> QED  BY <1>1, <2>4, <3>1
    <2>5. Part(t) = [Part(s) EXCEPT ![k] = 0]
      <3>1. Part(t) = [i \in 1..Len(w) |-> Part(t)[i]] /\ Part(s) = [i \in 1..Len(w) |-> Part(s)[i]]
        BY DEF Part
      <3> HIDE DEF t, k
      <3> QED  BY <2>1, <2>3, <2>4, <3>1
    <2> HIDE DEF t, k
    <2>6. Total(Part(s)) = Total(Part(t)) + Part(s)[k] - 0
      <3> DEFINE u == Part(s)
                 v == Part(t)
      <3>1. u \in Seq(Int) /\ k \in 1..Len(u) /\ 0 \in Int /\ v = [u EXCEPT ![k] = 0]
        BY <1>1, <2>1, <2>5
      <3> HIDE DEF u, v
      <3>2. Total(u) = Total(v) + u[k] - 0  BY <3>1, SumsChange
      <3> QED  BY <3>2 DEF u, v
    <2>7. w[k] \in Int  BY <2>1
    <2>8. Total(Part(t)) \in Int
      <3> DEFINE v == Part(t)
      <3>1. v \in Seq(Int) /\ Len(v) \in 0..Len(v)  BY <1>1
      <3> HIDE DEF v
      <3>2. Total(v) \in Int  BY <3>1, CumulativeSums DEF Total
      <3> QED  BY <3>2 DEF v
    <2> QED  BY <2>1, <2>2, <2>3, <2>6, <2>7, <2>8 DEF x, t
  <1>7. ASSUME NEW f, IsSum(f) PROVE f[vs] = Total(Part(vs))
    <2> DEFINE Wrong == {s \in SUBSET vs : f[s] # Total(Part(s))}
               Sizes == {Cardinality(s) : s \in Wrong}
    <2>1. \A s \in SUBSET vs : IsFiniteSet(s) /\ Cardinality(s) \in Nat
      BY FS_Subset, FS_CardinalityType
    <2>2. Sizes \in SUBSET Nat  BY <2>1
    <2>3. CASE Sizes # {}
      <3>1. PICK n \in Sizes : \A m \in Sizes : n <= m  BY <2>2, <2>3, Least
      <3>2. PICK s \in Wrong : Cardinality(s) = n  OBVIOUS
      <3>3. s \in SUBSET vs /\ f[s] # Total(Part(s))  OBVIOUS
      <3>4. f[s] = IF s = {} THEN 0 ELSE pick(s).weight + f[s \ {pick(s)}]  BY <1>7, <3>3
      <3>5. s # {}  BY <1>5, <3>3, <3>4
      <3> DEFINE t == s \ {pick(s)}
      <3>6. pick(s) \in s /\ t \in SUBSET vs  BY <1>2, <3>3, <3>5
      <3>7. Cardinality(t) = n - 1  BY <2>1, <3>2, <3>3, <3>6, FS_RemoveElement
      <3>8. n \in Nat /\ ~(n <= n - 1)  BY <2>2
      <3>9. t \notin Wrong  BY <3>1, <3>7, <3>8
      <3>10. f[t] = Total(Part(t))  BY <3>6, <3>9
      <3> QED  BY <1>6, <3>3, <3>4, <3>5, <3>10
    <2>4. CASE Sizes = {}
      <3>1. vs \in SUBSET vs /\ vs \notin Wrong  BY <2>4
      <3> QED  BY <3>1
    <2> QED  BY <2>3, <2>4
  <1>8. \E f : IsSum(f)
    <2> DEFINE g == [s \in SUBSET vs |-> Total(Part(s))]
    <2>1. ASSUME NEW s \in SUBSET vs
          PROVE  g[s] = IF s = {} THEN 0 ELSE pick(s).weight + g[s \ {pick(s)}]
      <3>1. CASE s = {}  BY <1>5, <3>1
      <3>2. CASE s # {}
        <4>1. s \ {pick(s)} \in SUBSET vs  OBVIOUS
        <4> QED  BY <1>6, <3>2, <4>1
      <3> QED  BY <3>1, <3>2
    <2>2. IsSum(g)  BY <2>1
    <2> HIDE DEF g, IsSum
    <2> QED  BY <2>2
  <1> HIDE DEF IsSum
  <1>9. IsSum(CHOOSE f : IsSum(f))  BY <1>8
  <1> QED  BY <1>3, <1>4, <1>7, <1>9

\* The list that the hash runs over has each variant once, and the same sum.
LEMMA SortedWeights ==
  ASSUME NEW vs \in SUBSET Variant, NEW id, NEW w \in Seq(Int),
         Numbered(vs, id, w), Cardinality(vs) = Len(w),
         NEW list, list = Sorted(vs), NEW ws, ws = [i \in DOMAIN list |-> list[i].weight]
  PROVE  /\ list \in [1..Len(w) -> vs] /\ ws \in Seq(Int) /\ Len(ws) = Len(w)
         /\ \A i \in 1..Len(w) : ws[i] = list[i].weight /\ ws[i] >= 0
         /\ Total(ws) = Total(w) /\ Total(w) = SumOf(vs)
  <1> DEFINE T == 1..Len(w)
  <1>1. /\ list \in [T -> vs] /\ DOMAIN list = T /\ Len(w) \in Nat /\ IsFiniteSet(vs)
        /\ \A i, j \in T : i < j => list[i].id < list[j].id
    <2>1. /\ list \in [1..Len(w) -> vs]
          /\ \A i, j \in 1..Len(w) : i < j => list[i].id < list[j].id
      BY SortedList
    <2>2. IsFiniteSet(vs)  BY DEF Numbered
    <2> QED  BY <2>1, <2>2
  <1>2. \A v \in vs : v.weight \in Int /\ v.weight >= 0 /\ v.id \in Int
    <2>1. \A v \in vs : v.weight \in 0..ColumnMax /\ v.id \in 1..Len(w)
      BY DEF Variant, Numbered
    <2> QED  BY <2>1, WidthAssumption
  <1>3. /\ ws \in Seq(Int) /\ Len(ws) = Len(w)
        /\ \A i \in T : ws[i] = list[i].weight /\ ws[i] >= 0
    <2>1. ws = [i \in 1..Len(w) |-> list[i].weight]  BY <1>1
    <2>2. \A i \in 1..Len(w) : list[i].weight \in Int /\ list[i].weight >= 0  BY <1>1, <1>2
    <2> QED  BY <1>1, <2>1, <2>2
  <1>4. Total(w) = SumOf(vs)
    <2> DEFINE place == [v \in vs |-> v.name]
    <2>1. \A v \in vs : place[v] = v.name /\ place[v] \in 1..Len(w) /\ v.weight = w[place[v]]
      BY DEF Numbered
    <2>2. \A u, v \in vs : place[u] = place[v] => u = v  BY DEF Numbered
    <2>3. \A i \in 1..Len(w) : \E v \in vs : place[v] = i  BY <2>1 DEF Numbered
    <2> HIDE DEF place
    <2>4. Placed(vs, w, place)  BY <2>1, <2>2, <2>3 DEF Placed
    <2>5. SumOf(vs) = Total(w)  BY <1>1, <2>4, SumOfWeights
    <2> QED  BY <2>5
  <1>5. \A i, j \in T : list[i] = list[j] => i = j
    <2> SUFFICES ASSUME NEW i \in T, NEW j \in T, list[i] = list[j] PROVE i = j
      OBVIOUS
    <2>1. ~(list[i].id < list[j].id) /\ ~(list[j].id < list[i].id)
      <3>1. list[i].id \in Int  BY <1>1, <1>2
      <3> QED  BY <3>1
    <2>2. ~(i < j) /\ ~(j < i)  BY <1>1, <2>1
    <2> QED  BY <2>2
  <1>6. \A v \in vs : \E i \in T : list[i] = v
    <2>1. list \in Injection(T, vs)  BY <1>1, <1>5 DEF Injection, IsInjective
    <2>2. IsFiniteSet(T) /\ Cardinality(T) = Cardinality(vs)
      <3>1. Len(w) \in Int /\ Len(w) >= 0 /\ 1 \in Int  OBVIOUS
      <3>2. IsFiniteSet(T) /\ Cardinality(T) = IF 1 > Len(w) THEN 0 ELSE Len(w) - 1 + 1
        BY <3>1, FS_Interval
      <3> QED  BY <3>1, <3>2
    <2> HIDE DEF T
    <2>3. list \in Surjection(T, vs)  BY <1>1, <2>1, <2>2, FS_Injection
    <2> QED  BY <2>3 DEF Surjection
  <1>7. Total(ws) = SumOf(vs)
    <2> DEFINE at(v) == CHOOSE i \in T : list[i] = v
               place == [v \in vs |-> at(v)]
    <2>1. \A v \in vs : at(v) \in T /\ list[at(v)] = v  BY <1>6
    <2> HIDE DEF at
    <2>2. \A v \in vs : place[v] = at(v)  OBVIOUS
    <2> HIDE DEF place
    <2>3. \A v \in vs : place[v] \in 1..Len(ws) /\ v.weight = ws[place[v]]  BY <1>3, <2>1, <2>2
    <2>4. \A u, v \in vs : place[u] = place[v] => u = v  BY <2>1, <2>2
    <2>5. \A i \in 1..Len(ws) : \E v \in vs : place[v] = i
      <3> SUFFICES ASSUME NEW i \in T PROVE \E v \in vs : place[v] = i
        BY <1>3
      <3>1. list[i] \in vs  BY <1>1
      <3>2. at(list[i]) = i  BY <1>5, <2>1, <3>1
      <3> QED  BY <2>2, <3>1, <3>2
    <2>6. Placed(vs, ws, place)  BY <2>3, <2>4, <2>5 DEF Placed
    <2>7. SumOf(vs) = Total(ws)  BY <1>1, <1>3, <2>6, SumOfWeights
    <2> QED  BY <2>7
  <1> QED  BY <1>1, <1>3, <1>4, <1>7

\* The shares of a whole experiment sum to 100.
LEMMA SharesSum ==
  ASSUME NEW vs \in SUBSET Variant, NEW id, NEW w \in WeightLists, ValidWeights(w),
         Numbered(vs, id, w), Cardinality(vs) = Len(w)
  PROVE  SumOf(vs) = 100
  <1> DEFINE list == Sorted(vs)
             ws == [i \in DOMAIN list |-> list[i].weight]
  <1>1. w \in Seq(Int) /\ DOMAIN w = 1..Len(w) /\ Len(w) * ColumnMax < IntModulus  BY ListFacts
  <1>2. \A i \in DOMAIN w : w[i] \in 0..ColumnMax
    <2>1. \A v \in vs : v.weight \in 0..ColumnMax /\ v.weight = w[v.name]  BY DEF Variant, Numbered
    <2>2. \A i \in 1..Len(w) : \E v \in vs : v.name = i  BY DEF Numbered
    <2> QED  BY <1>1, <2>1, <2>2
  <1>3. Total(w) = 100  BY <1>1, <1>2, StoredTotal
  <1> HIDE DEF list, ws
  <1>4. Total(w) = SumOf(vs)  BY <1>1, SortedWeights DEF list, ws
  <1> QED  BY <1>3, <1>4

\* What the hash decides has a share: the sorted list is as valid as the one that was given.
LEMMA DecidedHasShare ==
  ASSUME EInv, NEW e \in experiments, NEW user \in Hashable,
         NEW d, d = Decided(user, VariantsOf(e.id), e.id)
  PROVE  d \in VariantsOf(e.id) /\ d.weight > 0
  <1>1. Whole(e) /\ e.id \in Requests  BY DEF EInv, Catalogue, EType, TypeOK, Experiment
  <1> DEFINE w == input[e.id].weights
             vs == VariantsOf(e.id)
             list == Sorted(vs)
             ws == [i \in DOMAIN list |-> list[i].weight]
             b == HashToBucket[user, e.id]
             k == AssignVariantByWeight(b, ws)
  <1>2. /\ w \in Seq(Int) /\ ValidWeights(w) /\ Numbered(vs, e.id, w) /\ Cardinality(vs) = Len(w)
    BY <1>1, CallKinds, ListFacts DEF Whole
  <1>3. vs \in SUBSET Variant  BY DEF EInv, EType, TypeOK, VariantsOf
  <1>4. d \in VariantsOf(e.id)  BY DecidedVariant
  <1>5. d = list[k]  BY DEF Decided
  <1>6. b \in Buckets  BY <1>1, ServiceAssumption DEF Hashable
  <1>7. list = Sorted(vs) /\ ws = [i \in DOMAIN list |-> list[i].weight]  OBVIOUS
  <1>8. k = AssignVariantByWeight(b, ws)  OBVIOUS
  <1> HIDE DEF w, vs, list, ws, b, k
  <1>9. /\ ws \in Seq(Int) /\ Len(ws) = Len(w) /\ Total(ws) = Total(w)
        /\ \A i \in 1..Len(w) : ws[i] = list[i].weight /\ ws[i] >= 0
    BY <1>2, <1>3, <1>7, SortedWeights
  <1>10. ValidWeights(ws)
    <2>1. w # <<>> /\ Wrap(Total(w)) = WeightSum  BY <1>2 DEF ValidWeights
    <2>2. ws # <<>> /\ \A i \in DOMAIN ws : ws[i] >= 0  BY <1>2, <1>9, <2>1
    <2> QED  BY <1>9, <2>1, <2>2 DEF ValidWeights
  <1>11. k \in DOMAIN ws /\ ws[k] > 0
    <2>1. ws # <<>>  BY <1>10 DEF ValidWeights
    <2>2. k \in DOMAIN ws  BY <1>6, <1>8, <1>9, <2>1, AssignFirst
    <2> QED  BY <1>6, <1>8, <1>9, <1>10, <2>2, AssignShare
  <1>12. ws[k] = list[k].weight  BY <1>9, <1>11
  <1> QED  BY <1>4, <1>5, <1>11, <1>12

-----------------------------------------------------------------------------
\* A commit publishes a whole experiment.
LEMMA CommitPublishes ==
  ASSUME EInv, NEW r \in Requests, Commit(r)
  PROVE  Sticky!Next
  <1> DEFINE Entry(e) == [id |-> e.id, key |-> e.key, variants |-> VariantsOf(e.id)]
             catalogue == {Entry(e) : e \in experiments}
             new == [id |-> r, key |-> input[r].key, variants |-> rows[r]]
  <1>1. /\ experiments' = experiments \cup {seen[r]} /\ audit' = audit \cup {r}
        /\ assignments' = assignments /\ users' = users
        /\ seen[r].id = r /\ seen[r].key = input[r].key
        /\ \A e \in experiments : e.id # r /\ e.key # input[r].key
        /\ VariantsOf(r)' = rows[r]
        /\ \A id : id # r => VariantsOf(id)' = VariantsOf(id)
    BY CommitEffect
  <1>2. SumOf(rows[r]) = 100
    <2> DEFINE w == input[r].weights
    <2>1. /\ input[r] \in CreateInput /\ ValidWeights(w) /\ rows[r] \in SUBSET Variant
          /\ Numbered(rows[r], r, w) /\ Cardinality(rows[r]) = Len(w)
      BY CommitEffect
    <2>2. w \in WeightLists  BY <2>1, CallKinds
    <2> HIDE DEF w
    <2> QED  BY <2>1, <2>2, SharesSum
  <1>3. catalogue' = catalogue \cup {new}
    <2>1. PICK x : x = seen[r]  OBVIOUS
    <2>2. experiments' = experiments \cup {x}  BY <1>1, <2>1
    <2>3. \A e \in experiments : Entry(e)' = Entry(e)  BY <1>1
    <2>4. Entry(x)' = new  BY <1>1, <2>1
    <2> QED  BY <2>2, <2>3, <2>4
  <1>4. \A d \in catalogue : d.key # new.key /\ d.id # new.id  BY <1>1
  <1>5. audit = {e.id : e \in experiments}  BY DEF EInv, Catalogue
  <1>6. new.id \notin audit /\ audit' = audit \cup {new.id}  BY <1>1, <1>5
  <1>7. Sticky!MapThenSumSet(LAMBDA v : v.weight, new.variants) = 100
    BY <1>2 DEF SumOf
  <1>8. PICK x : x = new  OBVIOUS
  <1>9. x \in catalogue' \ catalogue  BY <1>3, <1>4, <1>8
  <1>10. Sticky!MapThenSumSet(LAMBDA v : v.weight, x.variants) = 100  BY <1>7, <1>8
  <1> HIDE DEF new
  <1>11. Sticky!Publish(x)
    <2>1. /\ \A d \in catalogue : d.key # x.key
          /\ x.id \notin audit /\ audit' = audit \cup {x.id}
          /\ catalogue' = catalogue \cup {x}
      BY <1>3, <1>4, <1>6, <1>8
    <2>2. UNCHANGED <<assignments, users>>  BY <1>1
    <2> QED  BY <1>10, <2>1, <2>2, Zenon DEF Sticky!Publish
  <1> QED  BY <1>9, <1>11 DEF Sticky!Next

\* Nothing else changes an experiment.
LEMMA CatalogueKept ==
  ASSUME UNCHANGED <<experiments, variants>>
  PROVE  {[id |-> e.id, key |-> e.key, variants |-> VariantsOf(e.id)] : e \in experiments}'
           = {[id |-> e.id, key |-> e.key, variants |-> VariantsOf(e.id)] : e \in experiments}
  BY DEF VariantsOf

\* An upsert assigns, or changes nothing.
LEMMA UpsertAssigns ==
  ASSUME EInv, NEW r \in Requests, UpsertAssignment(r)
  PROVE  Sticky!Next \/ UNCHANGED Sticky!vars
  <1> DEFINE Entry(e) == [id |-> e.id, key |-> e.key, variants |-> VariantsOf(e.id)]
             catalogue == {Entry(e) : e \in experiments}
  <1>1. pc[r] = "upsert" /\ UNCHANGED <<experiments, variants, users, audit>>
    BY DEF UpsertAssignment
  <1>2. catalogue' = catalogue  BY <1>1, CatalogueKept
  <1>3. seen[r] \in experiments  BY <1>1 DEF EInv, Reading, Assigning
  <1>4. CASE UNCHANGED assignments  BY <1>1, <1>2, <1>4 DEF Sticky!vars
  <1>5. ASSUME NEW user, user = input[r].user, user \in users, NEW id, id = seen[r].id,
               assignments' = (assignments \ Existing(r)) \cup
                 {[user |-> user, experiment |-> id, variant |-> Assigned(r).id]},
               NEW d, d = Decided(user, VariantsOf(id), id),
               NEW new, new = [user |-> user, experiment |-> id, variant |-> d.id],
               new \notin assignments
        PROVE  Sticky!Next
    <2>1. assignments' = assignments \cup {new} /\ \A a \in Existing(r) : a = new
      BY <1>1, <1>5, UpsertEffect
    <2>2. \A b \in assignments : ~(b.user = user /\ b.experiment = id)
      BY <1>5, <2>1 DEF Existing
    <2>3. user \in Hashable  BY <1>5 DEF Hashable, EInv, EType, TypeOK
    <2>4. d \in VariantsOf(id) /\ d.weight > 0  BY <1>3, <1>5, <2>3, DecidedHasShare
    <2>5. Entry(seen[r]) \in catalogue  BY <1>3
    <2>6. PICK e \in catalogue : e.id = id /\ e.variants = VariantsOf(id)  BY <1>5, <2>5
    <2>7. new.user = user /\ new.experiment = id /\ new.variant = d.id  BY <1>5
    <2>8. \E v \in e.variants : v.id = new.variant /\ v.weight > 0  BY <2>4, <2>6, <2>7
    <2> HIDE DEF catalogue
    <2>9. new \in assignments' \ assignments  BY <1>5, <2>1
    <2>10. Sticky!Assign(new, e)
      <3>1. new.user \in users /\ new.experiment = e.id  BY <1>5, <2>6, <2>7
      <3>2. \A b \in assignments : ~(b.user = new.user /\ b.experiment = new.experiment)
        BY <2>2, <2>7
      <3>3. UNCHANGED <<catalogue, users, audit>>  BY <1>1, <1>2
      <3> QED  BY <2>1, <2>8, <3>1, <3>2, <3>3 DEF Sticky!Assign, catalogue
    <2> QED  BY <2>9, <2>10 DEF Sticky!Next, catalogue
  <1>6. ASSUME NEW user, user = input[r].user, user \in users, NEW id, id = seen[r].id,
               assignments' = (assignments \ Existing(r)) \cup
                 {[user |-> user, experiment |-> id, variant |-> Assigned(r).id]},
               NEW d, d = Decided(user, VariantsOf(id), id),
               NEW new, new = [user |-> user, experiment |-> id, variant |-> d.id],
               new \in assignments
        PROVE  UNCHANGED assignments
    BY <1>1, <1>6, UpsertEffect
  <1> QED
    <2> DEFINE user == input[r].user
               id == seen[r].id
               d == Decided(user, VariantsOf(id), id)
               new == [user |-> user, experiment |-> id, variant |-> d.id]
    <2>1. \/ UNCHANGED assignments
          \/ /\ user \in users
             /\ assignments' = (assignments \ Existing(r)) \cup
                  {[user |-> user, experiment |-> id, variant |-> Assigned(r).id]}
      BY DEF UpsertAssignment
    <2>2. CASE new \in assignments  BY <1>4, <1>6, <2>1, <2>2
    <2>3. CASE new \notin assignments  BY <1>4, <1>5, <2>1, <2>3
    <2> QED  BY <2>2, <2>3

LEMMA StepIsSticky ==
  ASSUME EInv, [Next]_vars
  PROVE  Sticky!Next \/ UNCHANGED Sticky!vars
  <1>1. CASE UNCHANGED db  BY <1>1, CatalogueKept DEF db, Sticky!vars
  <1>2. ASSUME NEW r \in Requests, Receive(r) PROVE UNCHANGED db
    BY <1>2 DEF Receive, MissingActor, CreateExperiment, GetAssignment
  <1>3. ASSUME NEW r \in Requests, Advance(r)
        PROVE  UNCHANGED db \/ Commit(r) \/ UpsertAssignment(r)
    BY <1>3 DEF Advance, InsertExperiment, InsertVariant, AuditCreate, ReadVariants, ReadAssignment
  <1>4. ASSUME NEW r \in Requests, Fail(r) PROVE UNCHANGED db  BY <1>4 DEF Fail
  <1>5. ASSUME NEW u \in Users, DeleteUser(u) PROVE Sticky!Next
    <2>1. /\ u \in users /\ users' = users \ {u} /\ assignments' = {a \in assignments : a.user # u}
          /\ UNCHANGED <<experiments, variants, audit>>
      BY <1>5 DEF DeleteUser
    <2>2. Sticky!Leave(u)  BY <2>1, CatalogueKept DEF Sticky!Leave
    <2> QED  BY <2>1, <2>2 DEF Sticky!Next
  <1>6. CASE UNCHANGED vars  BY <1>1, <1>6 DEF vars
  <1> QED
    BY <1>1, <1>2, <1>3, <1>4, <1>5, <1>6, CommitPublishes, UpsertAssigns DEF Next, AllDone

\* The service implements StickyExperiments: an experiment is whole, audited and final, and an
\* assignment is made once, to a variant with a share (CreateExperiment, GetAssignment, deleteUser).
THEOREM ExperimentsRefinement == Spec => ImplementsStickyExperiments
  <1>1. Init => Sticky!Init  BY DEF Init, Sticky!Init
  <1>2. EInv /\ [Next]_vars => [Sticky!Next]_(Sticky!vars)  BY StepIsSticky
  <1> QED  BY <1>1, <1>2, Invariance, PTL DEF Spec, ImplementsStickyExperiments, Sticky!Spec

=============================================================================

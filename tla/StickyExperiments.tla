------------------------- MODULE StickyExperiments -------------------------
(***************************************************************************)
(* What the experiments service promises of the database (README.md,       *)
(* "Experiment management with stable user assignment"): an experiment     *)
(* appears whole and audited, and never changes; a user is assigned to a   *)
(* variant with a share of the buckets, once, and keeps it until the user  *)
(* is deleted.                                                             *)
(***************************************************************************)
EXTENDS Integers, FiniteSetsExt

VARIABLES
  catalogue,  \* the experiments, each with its set of variants
  assigned,   \* who has which variant of which experiment
  users, log  \* the users there are; the ids of the experiments ever created

vars == <<catalogue, assigned, users, log>>

Init == catalogue = {} /\ assigned = {} /\ log = {}

\* An experiment with a new id and a new key appears with all of its variants.
Publish(e) ==
  /\ \A d \in catalogue : d.key # e.key
  /\ e.id \notin log
  /\ MapThenSumSet(LAMBDA v : v.weight, e.variants) = 100
  /\ catalogue' = catalogue \cup {e}
  /\ log' = log \cup {e.id}
  /\ UNCHANGED <<assigned, users>>

\* A user without a variant of e gets one that has a share.
Assign(a, e) ==
  /\ a.user \in users /\ a.experiment = e.id
  /\ \A b \in assigned : ~(b.user = a.user /\ b.experiment = a.experiment)
  /\ \E v \in e.variants : v.id = a.variant /\ v.weight > 0
  /\ assigned' = assigned \cup {a}
  /\ UNCHANGED <<catalogue, users, log>>

\* A user leaves, with every assignment.
Leave(u) ==
  /\ users' = users \ {u}
  /\ assigned' = {a \in assigned : a.user # u}
  /\ UNCHANGED <<catalogue, log>>

Next ==
  \/ \E e \in catalogue' \ catalogue : Publish(e)
  \/ \E e \in catalogue, a \in assigned' \ assigned : Assign(a, e)
  \/ \E u \in users : Leave(u)

Spec == Init /\ [][Next]_vars

=============================================================================

---------------------------- MODULE AuditedFlags ----------------------------
(***************************************************************************)
(* What the flags service promises of the database (README.md, "Fail-      *)
(* closed audit semantics"): each change of the flags is whole, concerns   *)
(* one flag, and appears together with the one audit entry that tells it.  *)
(* Nothing is said of how concurrent requests are kept apart.              *)
(***************************************************************************)
EXTENDS FlagRules

CONSTANTS Ids, Keys  \* the ids of flags and of actors; the (key, environment) pairs

VARIABLES flags, rules, audit

vars == <<flags, rules, audit>>

Init == flags = {} /\ rules = {} /\ audit = <<>>

\* The change of one flag, from row "old" (none for a creation) to row "new" (none for a
\* deletion), with the rules it removes and adds, is logged as it happens.
Change(action, id, old, new, gone, added) ==
  /\ flags' = (flags \ old) \cup new
  /\ rules' = (rules \ gone) \cup added
  /\ \A x \in gone \cup added : x.flag = id
  /\ \E actor \in Ids : audit' = Append(audit, [action |-> action, id |-> id, actor |-> actor])

\* A new flag is disabled, has a key that no flag has and an id that no flag ever had.
Create(id, key, strategy) ==
  /\ \A f \in flags : f.key # key
  /\ \A i \in DOMAIN audit : audit[i].id # id
  /\ Change("create", id, {}, {[id |-> id, key |-> key, enabled |-> FALSE, strategy |-> strategy]},
            {}, rules' \ rules)

\* An update keeps the identity of the flag.
Update(f, enabled, strategy) ==
  Change("update", f.id, {f}, {[f EXCEPT !.enabled = enabled, !.strategy = strategy]},
         rules \ rules', rules' \ rules)

\* A deletion takes all the rules of the flag with it.
Delete(f) == Change("delete", f.id, {f}, {}, {x \in rules : x.flag = f.id}, {})

Next ==
  \/ \E id \in Ids, key \in Keys, strategy \in Strategies : Create(id, key, strategy)
  \/ \E f \in flags, enabled \in BOOLEAN, strategy \in Strategies : Update(f, enabled, strategy)
  \/ \E f \in flags : Delete(f)

Spec == Init /\ [][Next]_vars

=============================================================================

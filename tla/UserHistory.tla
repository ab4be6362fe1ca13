---------------------------- MODULE UserHistory ----------------------------
(***************************************************************************)
(* UserService with a history variable: which requests hold a row in       *)
(* memory that has changed since they read it.  It restricts no step.      *)
(***************************************************************************)
EXTENDS UserService

VARIABLE overtaken  \* requests whose read is out of date

hvars == <<vars, overtaken>>

\* The transaction of s commits in this step.
Commits(s) == pc[s] = "commit" /\ pc'[s] = "done" /\ audit' # audit

HInit == Init /\ overtaken = {}

HNext ==
  /\ Next
  /\ overtaken' = overtaken \cup
       {r \in Requests : pc[r] \in InTx /\ input[r].op = "update" /\
          \E s \in Requests \ {r} : Commits(s) /\ Target(s) = Target(r)}

HSpec == HInit /\ [][HNext]_hvars

FairHSpec == HSpec /\ \A r \in Requests : WF_vars(Advance(r))

-----------------------------------------------------------------------------
\* The update that r commits keeps the field of its user when it does not give it.
KeepsOmitted(r, field) ==
  Commits(r) /\ input[r].op = "update" /\ ~Gives(r, field) =>
    \A u \in users, v \in users' : u.id = Target(r) /\ v.id = u.id => v[field] = u[field]

\* updateUserWithStore reads the row without a lock and writes every column of it: a field the
\* caller did not give can change, but only if another update of the same user committed between
\* the read and the write.
OmittedKeptUnlessOvertaken ==
  [][\A r \in Requests \ overtaken, field \in {"email", "role", "password"} :
       KeepsOmitted(r, field)]_hvars

\* "UpdateUser with empty password does not change password hash" (the name of the test in
\* internal/users/service_test.go:499).
EmptyPasswordKeepsHash == [][\A r \in Requests : KeepsOmitted(r, "password")]_hvars

=============================================================================

---------------------------- MODULE AuditedUsers ----------------------------
(***************************************************************************)
(* What the users service promises of the database: one user per email,    *)
(* an id that is never used again, and each change of a user together with *)
(* the one audit entry that tells it.                                      *)
(***************************************************************************)
EXTENDS Sequences, Integers

CONSTANTS Actors, Seed  \* who acts; the users there are to begin with

VARIABLES users, audit

vars == <<users, audit>>

Init == users = Seed /\ audit = <<>>

\* The log gains one entry as the users change from "users" to "rest" and at most one row more.
Change(action, id, rest, rows) ==
  /\ users' = rest \cup rows
  /\ \A u \in rest, v \in rows : u.email # v.email
  /\ \E actor \in Actors : audit' = Append(audit, [action |-> action, id |-> id, actor |-> actor])

Create(u) ==
  /\ \A v \in users : v.id # u.id
  /\ \A i \in DOMAIN audit : audit[i].id # u.id
  /\ Change("create", u.id, users, {u})

\* The row is replaced as a whole, and may stay what it is.
Update(old, new) == new.id = old.id /\ Change("update", old.id, users \ {old}, {new})

Delete(u) == Change("delete", u.id, users \ {u}, {})

Next ==
  \/ \E u \in users' \ users : Create(u)
  \/ \E old \in users, new \in users' : Update(old, new)
  \/ \E u \in users : Delete(u)

Spec == Init /\ [][Next]_vars

=============================================================================

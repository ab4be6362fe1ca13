--------------------------- MODULE MCUserService ---------------------------
(* Small instances of UserService, with its history variable, for TLC. *)
EXTENDS UserHistory, TLC

CONSTANTS r1, r2, r3, r4, s1, s2, e1, e2, e3, p1, p2

MCSeedRow ==
  s1 :> [id |-> s1, email |-> e1, role |-> "admin", password |-> p1] @@
  s2 :> [id |-> s2, email |-> e2, role |-> "viewer", password |-> Nil]

Update(id, email, role, password) ==
  [op |-> "update", id |-> id, email |-> email, role |-> role, password |-> password]

\* Create a third user, or one whose email is taken; change one field of a user, one of them to
\* an email that another one has; delete and log in.
MCCalls ==
  {[op |-> "create", email |-> e, role |-> "viewer", password |-> p1] : e \in {e2, e3}} \cup
  {Update(id, e, Nil, Nil) : id \in {s1, s2}, e \in {e1, e2, e3}} \cup
  {Update(id, Nil, Nil, p2) : id \in {s1, s2, r1}} \cup
  {[op |-> "delete", id |-> id] : id \in {s1, s2, r1}} \cup
  {[op |-> "login", email |-> e1, password |-> p] : p \in {p1, p2}}

\* Changes of single fields of one user.
FieldCalls ==
  {Update(s1, e3, Nil, Nil), Update(s1, Nil, "viewer", Nil), Update(s1, Nil, Nil, p2),
   [op |-> "delete", id |-> s1]}
=============================================================================

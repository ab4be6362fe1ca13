--------------------------- MODULE MCAuditLogRead ---------------------------
(* A small instance of AuditLogRead for TLC. *)
EXTENDS AuditLogRead

\* Two kinds of entries: the filters below tell them apart.
MCContent ==
  {[entity |-> "feature_flag", action |-> "create", actor |-> "admin"],
   [entity |-> "user", action |-> "delete", actor |-> "admin"]}

Filter(entity, action, actor) == [entity |-> entity, action |-> action, actor |-> actor]

Ask4(role, filter, limit, offset) == [role |-> role, filter |-> filter, limit |-> limit, offset |-> offset]

Everything == Filter(Nil, Nil, Nil)

\* Every way to leave a limit out or to miss its range; each filter; each refusal.
MCQueries ==
  {Ask4("admin", Everything, limit, Nil) : limit \in {Nil, -1, 0, 1, 2, 3}}
    \cup {Ask4("admin", filter, 1, offset) :
            filter \in {Filter("user", Nil, Nil), Filter(Nil, "create", "admin"), Filter("user", "create", Nil)},
            offset \in {0, 1}}
    \cup {Ask4("viewer", Everything, Nil, Nil), Ask4("admin", Everything, Nil, -1),
          Ask4("admin", Filter(Nil, Nil, Malformed), Nil, Nil)}
=============================================================================

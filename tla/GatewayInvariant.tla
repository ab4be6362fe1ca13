-------------------------- MODULE GatewayInvariant --------------------------
(***************************************************************************)
(* The inductive invariant of Gateway: that whatever a token or a login    *)
(* says was true of its user not too long ago, and what the answers of a   *)
(* request say of the changes that were committed for it.                  *)
(***************************************************************************)
EXTENDS Gateway

\* Functions keep their domains; nobody has held a role, or come with a request, in the future.
GType ==
  /\ clock \in Nat
  /\ users = [id \in UserIds |-> users[id]]
  /\ held \in [UserIds -> [Role -> Nat \cup {Nil}]]
  /\ \A id \in UserIds, role \in Role : held[id][role] # Nil => held[id][role] <= clock
  /\ pc \in [Requests -> {"idle", "fields", "done"}]
  /\ began \in [Requests -> Nat] /\ \A r \in Requests : began[r] <= clock
  /\ claims = [r \in Requests |-> claims[r]] /\ row = [r \in Requests |-> row[r]]
  /\ resp = [r \in Requests |-> resp[r]] /\ answers = [r \in Requests |-> answers[r]]
  /\ \A r \in Requests : answers[r] = [i \in DOMAIN answers[r] |-> answers[r][i]]
  /\ call \in Calls

\* A role that a user has is one that is held now.
RolesHeld ==
  \A id \in UserIds :
    IsRow(users[id]) /\ users[id].role \in Role => held[id][users[id].role] = clock

\* The user had the role, and what says so ends at t.
Backed(id, role, t) ==
  /\ id \in UserIds
  /\ role \in Role => held[id][role] # Nil /\ t <= held[id][role] + Expiry + RequestTicks

\* A token outlives the role of its user by its life and the time a login takes.
TokensBacked == \A t \in tokens : t.exp \in Nat /\ Backed(t.sub, t.role, t.exp)

\* A login that has read its row signs it before long.
LoginBacked(r) ==
  /\ pc[r] = "fields" => clock <= began[r] + RequestTicks
  /\ row[r] # Nil =>
       /\ pc[r] # "idle" /\ row[r].sub \in UserIds
       /\ row[r].role \in Role =>
            held[row[r].sub][row[r].role] # Nil /\ began[r] <= held[row[r].sub][row[r].role]

\* Claims are those of a token that was valid when the request came.
ClaimsBacked(r) ==
  claims[r] # Nil => pc[r] # "idle" /\ Backed(claims[r].sub, claims[r].role, began[r] + 1)

\* Fields are answered only of an operation that the library has let through.
Admitted(r) ==
  /\ pc[r] = "idle" => answers[r] = <<>> /\ call[r] # Nil
  /\ pc[r] = "fields" => DOMAIN answers[r] = DOMAIN Query_(r).fields
  /\ DOMAIN answers[r] # {} =>
       Valid(Query_(r)) /\ DOMAIN answers[r] = DOMAIN Query_(r).fields /\ call[r] # Nil

\* A change belongs to a field of a mutation that was answered with its value or an error, and
\* that had its turn.
Recorded(e) ==
  /\ e.by \in Requests /\ pc[e.by] # "idle" /\ resp[e.by] \notin {"unauthorized", "tooLarge", "refused"}
  /\ e.field \in DOMAIN answers[e.by] /\ answers[e.by][e.field] \in {"value", "ERROR"}
  /\ \A j \in 1..e.field : answers[e.by][j] # "none"

\* What the answer of a request, and of each of its fields, says.
Honest(r) ==
  /\ resp[r] \in {"data", "unauthorized", "tooLarge", "refused"} => pc[r] = "done"
  /\ \A i \in DOMAIN answers[r] :
       /\ (answers[r][i] = "value" /\ Query_(r).operation = "mutation") =>
            Field(r, i).name = "login" \/ Changed(r, i)
       /\ resp[r] = "data" =>
            \/ answers[r][i] \in {"value", "false"}
            \/ ~RootType(Query_(r).operation)[Field(r, i).name].nonNull

Authority == RolesHeld /\ TokensBacked /\ \A r \in Requests : LoginBacked(r) /\ ClaimsBacked(r)

Bookkeeping == (\A r \in Requests : Admitted(r) /\ Honest(r)) /\ \A e \in log : Recorded(e)

\* A flag is a row with the columns that it was created with.
FlagRows == \A f \in flags : DOMAIN f = {"key", "environment", "enabled", "strategy", "rules"}

GInv == GType /\ Authority /\ Bookkeeping

=============================================================================

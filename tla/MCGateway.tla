------------------------------ MODULE MCGateway ------------------------------
(* A small instance of Gateway for TLC: one request logs in or is refused on the way, one     *)
(* manages users, and one works on flags and experiments or reads.                           *)
EXTENDS Gateway, TLC

CONSTANTS r1, r2, r3

MCSeedUsers ==
  [ann |-> [email |-> "ann@", role |-> "admin", password |-> "a"],
   bob |-> [email |-> "bob@", role |-> "developer", password |-> "b"],
   cid |-> Nil]

Percentage == [type |-> "PERCENTAGE", value |-> "10"]

MCSeedFlags == {[key |-> "k", environment |-> "dev", enabled |-> TRUE, strategy |-> "percentage",
                 rules |-> <<[type |-> "PERCENTAGE", value |-> "30"]>>]}

Sel(name, args, sel) == [name |-> name, args |-> args, sel |-> sel]
WithInput(name, input, sel) == Sel(name, [input |-> input], sel)
Mutate(fields) == [operation |-> "mutation", fields |-> fields]
Read(fields) == [operation |-> "query", fields |-> fields]
Minus == -1
One(a, b, c) == [r \in Requests |-> CASE r = r1 -> a [] r = r2 -> b [] r = r3 -> c]
Request(header, body, query) == [header |-> header, body |-> body, query |-> query]

LogIn(email, password) == WithInput("login", [email |-> email, password |-> password], {"token"})

\* A request that is too long, or is refused; a wrong password; what needs claims.
Plain ==
  {Request("none", "fits", Mutate(<<LogIn("bob@", password)>>)) : password \in {"b", "x"}}
    \cup {Request("other", "fits", Mutate(<<LogIn("bob@", "b")>>)),
          Request("none", "large", Mutate(<<LogIn("bob@", "b")>>)),
          Request("none", "stream", Mutate(<<LogIn("bob@", "b")>>)),
          Request("none", "fits", Mutate(<<WithInput("login", [email |-> "bob@"], {"token"})>>)),
          Request("none", "fits", Mutate(<<Sel("deleteFlag", [key |-> "k", environment |-> "dev"], {})>>)),
          Request("token", "fits", Read(<<Sel("user", [id |-> "ann"], {"id", "email", "role", "createdAt"}),
                                          Sel("userByEmail", [email |-> "ann@"], {"id", "email"})>>))}

NewUser(email, password) ==
  WithInput("createUser", [email |-> email, role |-> "viewer", password |-> password], {"id"})

ChangeAndDelete ==
  Request("token", "fits",
          Mutate(<<WithInput("updateUser", [id |-> "bob", role |-> "viewer", password |-> ""], {"id"}),
                   Sel("deleteUser", [id |-> "bob"], {})>>))

\* Bob loses his role; has a new password, or an empty one; cannot have Ann's email; goes.
UserChanges ==
  {ChangeAndDelete} \cup {Request("token", "fits", Mutate(fields)) : fields \in
     {<<WithInput("updateUser", [id |-> "bob", email |-> "ann@"], {"id"}), NewUser("cid@", Null)>>,
      <<NewUser("bob@", "c"), WithInput("updateUser", [id |-> "bob", email |-> Null, password |-> "c"], {"id"})>>,
      <<Sel("deleteUser", [id |-> "dan"], {}), WithInput("updateUser", [id |-> "dan"], {"id"})>>}}

NewFlag(rules) ==
  WithInput("createFlag", [key |-> "n", environment |-> "dev", rolloutStrategy |-> "ATTRIBUTE"] @@ rules, {"id"})

OldFlag(rest) == WithInput("updateFlag", [key |-> "k", enabled |-> FALSE] @@ rest, {"id"})

Trial(weights) ==
  WithInput("createExperiment",
            [key |-> "x", environment |-> "dev",
             variants |-> [i \in DOMAIN weights |-> [name |-> "v", weight |-> weights[i]]]], {"id"})

\* With rules left out, null, empty, of one type and of the wrong one; the stage as well.
FlagWork ==
  {Request("token", "fits", query) : query \in
     {Mutate(<<NewFlag([rules |-> Null]), OldFlag([environment |-> ""])>>),
      Mutate(<<NewFlag([rules |-> <<Percentage>>]), OldFlag([rules |-> <<>>, environment |-> "dev"])>>),
      Mutate(<<Sel("deleteFlag", [key |-> "k", environment |-> ""], {}),
               OldFlag([rules |-> <<Percentage, Percentage>>])>>),
      Mutate(<<Sel("deleteFlag", [key |-> "k", environment |-> "dev"], {}), OldFlag([rules |-> Null])>>),
      Read(<<Sel("evaluateFlag", [key |-> "k", evaluationContext |-> [userId |-> "u"]], {}),
             Sel("auditLogs", [limit |-> 1, offset |-> Null], {"id"})>>),
      Read(<<Sel("evaluateFlag", [key |-> "k", evaluationContext |-> [userId |-> ""], environment |-> ""], {}),
             Sel("auditLogs", [offset |-> Minus], {"id"}), Sel("auditLog", [id |-> "e"], {"id"})>>)}}

\* Weights that are taken, that do not sum to 100, and that are no Int.
TrialWork ==
  {Request("token", "fits", query) : query \in
     {Mutate(<<Trial(<<60, 40>>), Trial(<<60, 40>>)>>),
      Mutate(<<Trial(<<60, 60>>), Trial(<<Huge>>)>>),
      Read(<<Sel("experiment", [key |-> "x", environment |-> "dev"], {"id"}),
             Sel("getAssignment", [userId |-> "u", experimentKey |-> "x", environment |-> "dev"], {"id"})>>),
      Read(<<Sel("getAssignment", [userId |-> "", experimentKey |-> "x", environment |-> "dev"], {"id"}),
             Sel("user", [id |-> "cid"], {"id"}), Sel("userByEmail", [email |-> "cid@"], {"id"})>>)}}

DeleteOld == Request("token", "fits", Mutate(<<Sel("deleteFlag", [key |-> "k", environment |-> "dev"], {})>>))
ChangeOld == Request("token", "fits", Mutate(<<OldFlag([rules |-> <<Percentage>>])>>))
Demote == Request("token", "fits", Mutate(<<WithInput("updateUser", [id |-> "bob", role |-> "viewer"], {"id"})>>))

\* A user logs in, loses the role, and goes on working; a user that is changed and deleted is
\* changed by another; a flag is changed and deleted; and every document on its own.
MCCalls ==
  {One(Request("none", "fits", Mutate(<<LogIn("bob@", "b")>>)), Demote, DeleteOld),
   One(Nil, ChangeAndDelete, Demote), One(Nil, ChangeOld, DeleteOld)}
    \cup {One(Nil, c, Nil) : c \in Plain \cup UserChanges \cup FlagWork \cup TrialWork}
=============================================================================

-------------------------- MODULE MCRuleEvaluation --------------------------
(* A small set of users and stored rules for RuleEvaluation. *)
EXTENDS RuleEvaluation

Ann == [userID |-> <<"ann">>, email |-> <<"ann", "@corp">>]
Bob == [userID |-> <<"bob">>, email |-> <<"bob", "@home">>]
Cid == [userID |-> <<"cid">>, email |-> Nil]

MCUsers == {Ann, Bob, Cid}
MCHashToBucket == [id \in {u.userID : u \in MCUsers} |->
                     CASE id = <<"ann">> -> 0 [] id = <<"bob">> -> 30 [] OTHER -> 99]

MCAtoi == [t \in {"-1", "0", "30", "31", "100", "101", "abc", ""} |->
             CASE t = "-1" -> -1 [] t = "0" -> 0 [] t = "30" -> 30 [] t = "31" -> 31
               [] t = "100" -> 100 [] t = "101" -> 101 [] OTHER -> Malformed]

Cond(attribute, op, value, values) ==
  [attribute |-> attribute, op |-> op, value |-> value, values |-> values]

MCUnmarshal == [t \in {"corp", "nosuffix", "annIn", "noneIn", "bobEq", "noEmail", "badOp", "30"} |->
  CASE t = "corp"     -> Cond("email", "suffix", <<"@corp">>, {})
    [] t = "nosuffix" -> Cond("email", "suffix", <<>>, {})
    [] t = "annIn"    -> Cond("userId", "in", <<>>, {<<"ann">>, <<"dan">>})
    [] t = "noneIn"   -> Cond("userId", "in", <<>>, {})
    [] t = "bobEq"    -> Cond("user_id", "eq", <<"bob">>, {})
    [] t = "noEmail"  -> Cond("email", "eq", <<>>, {})
    [] t = "badOp"    -> Cond("email", "like", <<"@corp">>, {})
    [] OTHER          -> Malformed]

MCStoredRules == [type : {"percentage"}, value : DOMAIN MCAtoi]
                   \cup [type : {"attribute"}, value : DOMAIN MCUnmarshal]
=============================================================================

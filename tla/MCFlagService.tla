--------------------------- MODULE MCFlagService ---------------------------
(* Small instances of FlagService for TLC. *)
EXTENDS FlagInvariant, TLC

CONSTANTS r1, r2, r3, r4, k1

PctIn == [type |-> "percentage", outcome |-> "true"]
PctOut == [type |-> "percentage", outcome |-> "false"]
AttrOut == [type |-> "attribute", outcome |-> "false"]

\* No rules, one percentage rule, one attribute rule, or one of each (refused).
MCRuleLists == {{}, {PctOut}, {AttrOut}, {PctIn, AttrOut}}

\* The same with one type.
ClearingLists == MCRuleLists \ {{AttrOut}}

\* One list only, for the run whose question is about locks and ordering.
OneRuleList == {{PctOut}}

RequestSymmetry == Permutations(Requests \ Anonymous)
=============================================================================

---------------------------- MODULE MCXccdfCheck ----------------------------
(***************************************************************************)
(* xccdf_policy_check_evaluate on a complex AND check of three simple      *)
(* "oval" checks, each with one content-ref (h1#d1 or h2#d2) or with none  *)
(* (a check carrying inline check-content only), for every answer of the   *)
(* engine.  The children and the engine's answers are fixed at Init.       *)
(***************************************************************************)
EXTENDS XccdfCheck

MCEngines == << [system |-> "oval", query |-> FALSE] >>
MCValueInstances == [v \in {} |-> {}]
MCRuleChecks == <<>>

NoProfile == [selects |-> <<>>, refineRules |-> <<>>, refineValues |-> <<>>]

Child(refs) ==
    [complex |-> FALSE, oper |-> XCCDF_OPERATOR_AND, negate |-> FALSE,
     multicheck |-> FALSE, system |-> "oval", selector |-> NoSelector,
     children |-> <<>>, refs |-> refs, exports |-> <<>>]

ChildRefs == { <<[href |-> "h1", name |-> "d1"]>>, <<[href |-> "h2", name |-> "d2"]>>, <<>> }

VARIABLES kids, eval

vars == <<kids, eval>>

AndCheck ==
    [complex |-> TRUE, oper |-> XCCDF_OPERATOR_AND, negate |-> FALSE,
     multicheck |-> FALSE, system |-> "", selector |-> NoSelector,
     children |-> [k \in 1..3 |-> Child(kids[k])], refs |-> <<>>, exports |-> <<>>]

Init ==
    /\ kids \in [1..3 -> ChildRefs]
    /\ eval \in [{1} \X {"h1", "h2"} \X {"d1", "d2"} -> {XCCDF_RESULT_PASS, XCCDF_RESULT_FAIL}]

Next == UNCHANGED vars

Spec == Init /\ [][Next]_vars

\* A complex AND check with a failing child fails: the FAIL row and column
\* of the AND table, in the code and in its comment, are all FAIL, and the
\* fold of xccdf_policy_check_evaluate must keep a FAIL once it has one.
AndWithFailingChildFails ==
    (\E k \in 1..3 : CheckEvaluate(NoProfile, Child(kids[k]), eval) = XCCDF_RESULT_FAIL)
        => CheckEvaluate(NoProfile, AndCheck, eval) = XCCDF_RESULT_FAIL
=============================================================================

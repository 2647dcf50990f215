--------------------------- MODULE MCXccdfResult ---------------------------
(***************************************************************************)
(* The reduction tables of _resolve_operation against the table the code's *)
(* comment documents, over every pair of table kinds and both operators.   *)
(* The operands are fixed at Init; the model only stutters.               *)
(***************************************************************************)
EXTENDS XccdfResult

VARIABLES a, b, oper

Init ==
    /\ a \in TableKinds
    /\ b \in TableKinds
    /\ oper \in {XCCDF_OPERATOR_AND, XCCDF_OPERATOR_OR}

Next == UNCHANGED <<a, b, oper>>

Spec == Init /\ [][Next]_<<a, b, oper>>

\* _resolve_operation combines two results as the comment table above it
\* (NISTIR-7275r4) says: the same kind where the comment names one, a skip
\* kind where it says N.
ResolveAgreesWithComment == AgreesWithComment(a, b, oper)
=============================================================================

---------------------------- MODULE XccdfResult ----------------------------
(***************************************************************************)
(* The result algebra of src/src/XCCDF_POLICY/xccdf_policy.c: the values   *)
(* of xccdf_test_result_type_t, the AND/OR reduction tables of             *)
(* _resolve_operation and the negation of _resolve_negate.                 *)
(*                                                                         *)
(* Beside the code's tables this module states the table the code's own   *)
(* comment documents (NISTIR-7275r4), so that a run can compare the two.  *)
(***************************************************************************)
EXTENDS Integers

\* xccdf_test_result_type_t (values as in the public header).
XCCDF_RESULT_PASS           == 1
XCCDF_RESULT_FAIL           == 2
XCCDF_RESULT_ERROR          == 3
XCCDF_RESULT_UNKNOWN        == 4
XCCDF_RESULT_NOT_APPLICABLE == 5
XCCDF_RESULT_NOT_CHECKED    == 6
XCCDF_RESULT_NOT_SELECTED   == 7
XCCDF_RESULT_INFORMATIONAL  == 8
XCCDF_RESULT_FIXED          == 9

\* The eight kinds the tables are defined on, and every kind.
TableKinds  == XCCDF_RESULT_PASS .. XCCDF_RESULT_INFORMATIONAL
ResultKinds == XCCDF_RESULT_PASS .. XCCDF_RESULT_FIXED

\* xccdf_bool_operator_t
XCCDF_OPERATOR_AND == "and"
XCCDF_OPERATOR_OR  == "or"

(***************************************************************************)
(* RESULT_TABLE_AND / RESULT_TABLE_OR exactly as written in the C source;  *)
(* C row/column i is TLA+ index i+1.  Row 0 and column 0 are the zero      *)
(* padding of the C arrays.                                                *)
(***************************************************************************)
RESULT_TABLE_AND ==
    << <<0, 0, 0, 0, 0, 0, 0, 0, 0>>,
       <<0, 1, 2, 3, 4, 1, 1, 1, 1>>,
       <<0, 2, 2, 2, 2, 2, 2, 2, 2>>,
       <<0, 4, 2, 4, 4, 4, 4, 4, 4>>,
       <<0, 3, 2, 3, 4, 3, 3, 3, 3>>,
       <<0, 1, 2, 3, 4, 5, 5, 5, 5>>,
       <<0, 1, 2, 3, 4, 5, 6, 6, 6>>,
       <<0, 1, 2, 3, 4, 5, 6, 7, 7>>,
       <<0, 1, 2, 3, 4, 5, 6, 7, 8>> >>

RESULT_TABLE_OR ==
    << <<0, 0, 0, 0, 0, 0, 0, 0, 0>>,
       <<0, 1, 1, 1, 1, 1, 1, 1, 1>>,
       <<0, 1, 2, 3, 4, 2, 2, 2, 2>>,
       <<0, 1, 4, 4, 4, 4, 4, 4, 4>>,
       <<0, 1, 3, 3, 4, 3, 3, 3, 3>>,
       <<0, 1, 2, 3, 4, 5, 5, 5, 5>>,
       <<0, 1, 2, 3, 4, 5, 6, 6, 6>>,
       <<0, 1, 2, 3, 4, 5, 6, 7, 7>>,
       <<0, 1, 2, 3, 4, 5, 6, 7, 8>> >>

\* _resolve_operation: 0 for an operand outside 1..INFORMATIONAL (FIXED
\* included) or an unknown operator, else the table entry.
ResolveOperation(A, B, oper) ==
    IF A = 0 \/ B = 0 \/ A > XCCDF_RESULT_INFORMATIONAL
                      \/ B > XCCDF_RESULT_INFORMATIONAL
       \/ oper \notin {XCCDF_OPERATOR_AND, XCCDF_OPERATOR_OR}
    THEN 0
    ELSE IF oper = XCCDF_OPERATOR_AND THEN RESULT_TABLE_AND[A + 1][B + 1]
                                      ELSE RESULT_TABLE_OR[A + 1][B + 1]

\* _resolve_negate: swaps PASS and FAIL when the check has negate="true".
ResolveNegate(value, negate) ==
    IF negate /\ value = XCCDF_RESULT_PASS THEN XCCDF_RESULT_FAIL
    ELSE IF negate /\ value = XCCDF_RESULT_FAIL THEN XCCDF_RESULT_PASS
    ELSE value

-----------------------------------------------------------------------------
(***************************************************************************)
(* The reduction the code documents above _resolve_operation (the comment *)
(* table of NISTIR-7275r4 over P, F, U, E and N, where N stands for       *)
(* NOT CHECKED, NOT SELECTED and NOT APPLICABLE).                          *)
(***************************************************************************)
Sym(x) ==
    CASE x = XCCDF_RESULT_PASS    -> "P"
      [] x = XCCDF_RESULT_FAIL    -> "F"
      [] x = XCCDF_RESULT_UNKNOWN -> "U"
      [] x = XCCDF_RESULT_ERROR   -> "E"
      [] OTHER                    -> "N"

Kind(c) ==
    CASE c = "P" -> XCCDF_RESULT_PASS
      [] c = "F" -> XCCDF_RESULT_FAIL
      [] c = "U" -> XCCDF_RESULT_UNKNOWN
      [] c = "E" -> XCCDF_RESULT_ERROR

\* Rows and columns in the comment's order P F U E N.
CommentOrder == <<"P", "F", "U", "E", "N">>
CommentAnd ==
    << <<"P", "F", "U", "E", "P">>,
       <<"F", "F", "F", "F", "F">>,
       <<"U", "F", "U", "U", "U">>,
       <<"E", "F", "U", "E", "E">>,
       <<"P", "F", "U", "E", "N">> >>
CommentOr ==
    << <<"P", "P", "P", "P", "P">>,
       <<"P", "F", "U", "E", "F">>,
       <<"P", "U", "U", "U", "U">>,
       <<"P", "E", "U", "E", "E">>,
       <<"P", "F", "U", "E", "N">> >>

Pos(c) == CHOOSE i \in 1..5 : CommentOrder[i] = c

\* The comment's entry for (x, y), "N" when both are skip kinds.
CommentEntry(x, y, oper) ==
    LET row == IF oper = XCCDF_OPERATOR_AND THEN CommentAnd ELSE CommentOr
    IN  row[Pos(Sym(x))][Pos(Sym(y))]

\* The code's table agrees with its comment on (x, y): the same kind where
\* the comment names one, a skip kind where it says N.
AgreesWithComment(x, y, oper) ==
    LET c == CommentEntry(x, y, oper)
        r == ResolveOperation(x, y, oper)
    IN  IF c = "N" THEN r >= XCCDF_RESULT_NOT_APPLICABLE ELSE r = Kind(c)
=============================================================================

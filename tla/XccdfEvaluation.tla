--------------------------- MODULE XccdfEvaluation ---------------------------
(***************************************************************************)
(* What xccdf_policy_evaluate promises its caller, without hooks, engines  *)
(* or multi-check restarts: it walks the policy's select list once, in     *)
(* order; a select that is not a Rule yields nothing; a Rule yields one or *)
(* more rule results, NOT_SELECTED exactly when the policy does not select *)
(* it, and never the -1 of a failure; a callback may stop the walk at any  *)
(* report or between them, cancelling (the TestResult is kept) or failing  *)
(* (it is discarded); otherwise the walk completes after the last select.  *)
(***************************************************************************)
EXTENDS Integers, Sequences, SequencesExt, XccdfResult

CONSTANTS
    Rules,         \* ids of Rule items
    ResultValues,  \* the values a rule result may carry
    Fatal          \* the -1 a callback or an engine returns to abort

VARIABLES
    sel,     \* the policy's select list
    out,     \* the rule results reported so far, as [idref, result]
    done,    \* how many selects have been walked past
    state    \* "running", "complete", "cancelled" or "discarded"

absVars == <<sel, out, done, state>>

\* The policy selects r when the first select of r says so.
PolicySelects(r) ==
    LET k == SelectInSeq(sel, LAMBDA s : s.item = r)
    IN  k # 0 /\ sel[k].selected

\* The select being walked.
Current == sel[done + 1].item

AbsInit ==
    /\ out = <<>>
    /\ done = 0
    /\ state = "running"

Skip ==
    /\ state = "running"
    /\ done < Len(sel)
    /\ Current \notin Rules
    /\ done' = done + 1
    /\ UNCHANGED <<sel, out, state>>

\* One rule result of the current Rule; after it the walk stays on the Rule
\* for more results, moves past it, or stops.
Report ==
    /\ state = "running"
    /\ done < Len(sel)
    /\ Current \in Rules
    /\ \E res \in ResultValues \ {Fatal} :
         /\ (res = XCCDF_RESULT_NOT_SELECTED) = ~PolicySelects(Current)
         /\ out' = Append(out, [idref |-> Current, result |-> res])
    /\ \/ done' = done /\ state' \in {"running", "cancelled", "discarded"}
       \/ done' = done + 1 /\ state' = "running"
    /\ UNCHANGED sel

\* A callback stops the walk between two reports.
Stop ==
    /\ state = "running"
    /\ state' \in {"cancelled", "discarded"}
    /\ UNCHANGED <<sel, out, done>>

Complete ==
    /\ state = "running"
    /\ done = Len(sel)
    /\ state' = "complete"
    /\ UNCHANGED <<sel, out, done>>

AbsNext == Skip \/ Report \/ Stop \/ Complete

\* The walk does not stall: the caller gets the TestResult back.
AbsSpec == AbsInit /\ [][AbsNext]_absVars /\ WF_absVars(AbsNext)
=============================================================================

----------------------------- MODULE XccdfCheck -----------------------------
(***************************************************************************)
(* Check dispatch of xccdf_policy.c: the engine registry lookups, the      *)
(* value bindings built for a check, the choice of the one check a Rule    *)
(* runs, and xccdf_policy_check_evaluate over simple and complex checks.   *)
(*                                                                         *)
(* Checking engines are external: what an engine answers for a call is an  *)
(* oracle passed in as a function                                          *)
(*     eval  : [engine index, href, content name] -> result               *)
(*     query : [engine index, href] -> sequence of names, or NoNames       *)
(* so that every answer is explored.                                       *)
(***************************************************************************)
EXTENDS XccdfResult, Sequences, SequencesExt, FiniteSetsExt

CONSTANTS
    Engines,         \* Seq([system, query : BOOLEAN]): callbacks in registration order
    ValueIds,        \* value ids checks may export (some may be missing)
    ValueInstances,  \* [ids of existing Values -> SUBSET selectors]
    RuleChecks,      \* [Rules -> Seq(check)]: the Rule's <check> elements
    RuleComplexChecks, \* [Rules -> Seq(check)]: its <complex-check> elements
    NoName,          \* content-ref without @name
    NoSelector,      \* a NULL selector
    NoNames,         \* a query answer of NULL: "not supported"
    NoCheck          \* no applicable check

\* A callback's return of -1, which every caller treats as fatal.
FATAL == -1

(* A check is a record
     [complex, oper, negate, multicheck, system, selector,
      children : Seq(check), refs : Seq([href, name]), exports : Seq(ValueIds)] *)

\* _xccdf_policy_get_callbacks_by_sysname, as the set of indices.
CallbacksFor(sys) == {i \in DOMAIN Engines : Engines[i].system = sys}

\* _xccdf_policy_is_engine_registered
EngineRegistered(sys) == CallbacksFor(sys) # {}

\* xccdf_policy_evaluate_cb: engines of the system in registration order
\* until one answers other than NOT_CHECKED.
EvaluateCb(sys, name, href, eval) ==
    LET answered == {i \in CallbacksFor(sys) : eval[i, href, name] # XCCDF_RESULT_NOT_CHECKED}
    IN  IF answered = {} THEN XCCDF_RESULT_NOT_CHECKED
        ELSE eval[Min(answered), href, name]

\* _xccdf_policy_get_namesfor_href: the first non-NULL answer of an engine
\* of the system that has a query function.
NamesForHref(sys, href, query) ==
    LET answered == {i \in CallbacksFor(sys) : Engines[i].query /\ query[i, href] # NoNames}
    IN  IF answered = {} THEN NoNames ELSE query[Min(answered), href]

-----------------------------------------------------------------------------
\* xccdf_policy_get_refine_value: the LAST refine-value of the profile for
\* the value; its selector, or NULL when there is none.
RefineValueSelector(profile, v) ==
    LET k == SelectLastInSeq(profile.refineValues, LAMBDA rv : rv.item = v)
    IN  IF k = 0 THEN NoSelector ELSE profile.refineValues[k].selector

\* xccdf_policy_check_get_value_bindings succeeds (returns a list) iff every
\* exported value exists and has an instance for its refined selector.
ValueBindingsOk(profile, exports) ==
    \A k \in DOMAIN exports :
        /\ exports[k] \in DOMAIN ValueInstances
        /\ RefineValueSelector(profile, exports[k]) \in ValueInstances[exports[k]]

\* xccdf_policy_get_refine_rules_by_rule: the FIRST refine-rule for r.
RefineRuleSelector(profile, r) ==
    LET k == SelectInSeq(profile.refineRules, LAMBDA rr : rr.item = r)
    IN  IF k = 0 THEN NoSelector ELSE profile.refineRules[k].selector

\* xccdf_rule_get_checks_filtered: the Rule's checks with selector sel.
ChecksWithSelector(r, sel) == SelectSeq(RuleChecks[r], LAMBDA c : c.selector = sel)

(***************************************************************************)
(* _xccdf_policy_rule_get_applicable_check: the first complex-check if     *)
(* any; else the checks with the refined selector (those without selector  *)
(* when a refined selector matches none), and of these the LAST whose      *)
(* system has a registered engine.                                         *)
(***************************************************************************)
GetApplicableCheck(profile, r) ==
    IF RuleComplexChecks[r] # <<>> THEN Head(RuleComplexChecks[r])
    ELSE
      LET sel   == RefineRuleSelector(profile, r)
          cands == IF sel # NoSelector /\ ChecksWithSelector(r, sel) = <<>>
                   THEN ChecksWithSelector(r, NoSelector)
                   ELSE ChecksWithSelector(r, sel)
          k     == SelectLastInSeq(cands, LAMBDA c : EngineRegistered(c.system))
      IN  IF k = 0 THEN NoCheck ELSE cands[k]

-----------------------------------------------------------------------------
\* The content-ref loop of a simple check: refs are alternatives tried in
\* order until one is not NOT_CHECKED.  With no refs the loop never runs
\* and ret keeps its initial 0.
RefLoop(sys, refs, eval) ==
    LET k == SelectInSeq(refs, LAMBDA ref : EvaluateCb(sys, ref.name, ref.href, eval)
                                            # XCCDF_RESULT_NOT_CHECKED)
    IN  CASE refs = <<>> -> 0
          [] k = 0       -> XCCDF_RESULT_NOT_CHECKED
          [] OTHER       -> EvaluateCb(sys, refs[k].name, refs[k].href, eval)

(***************************************************************************)
(* xccdf_policy_check_evaluate.  Complex: children folded left with the    *)
(* table, 0 meaning "no value yet", a child's -1 returned at once.         *)
(* Simple: UNKNOWN if the bindings fail, else the ref loop.  The negation  *)
(* is applied once, to the value of this check.                            *)
(***************************************************************************)
RECURSIVE CheckEvaluate(_, _, _), FoldChildren(_, _, _, _, _)

FoldChildren(profile, oper, children, ret, eval) ==
    IF children = <<>> THEN ret
    ELSE LET ret2 == CheckEvaluate(profile, Head(children), eval)
         IN  IF ret2 = FATAL THEN FATAL
             ELSE FoldChildren(profile, oper, Tail(children),
                               IF ret = 0 THEN ret2 ELSE ResolveOperation(ret, ret2, oper),
                               eval)

CheckEvaluate(profile, check, eval) ==
    IF check.complex
    THEN LET ret == FoldChildren(profile, check.oper, check.children, 0, eval)
         IN  IF ret = FATAL THEN FATAL ELSE ResolveNegate(ret, check.negate)
    ELSE IF ~ValueBindingsOk(profile, check.exports) THEN XCCDF_RESULT_UNKNOWN
    ELSE ResolveNegate(RefLoop(check.system, check.refs, eval), check.negate)
=============================================================================

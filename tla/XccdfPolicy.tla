---------------------------- MODULE XccdfPolicy ----------------------------
(***************************************************************************)
(* One evaluation of a policy, xccdf_policy_evaluate of xccdf_policy.c:    *)
(* the loop over the policy's selects, _xccdf_policy_rule_evaluate for     *)
(* each Rule (start hook, selection, applicability, check choice, check    *)
(* evaluation, multi-check fan-out) and _xccdf_policy_report_rule_result   *)
(* with the output hook.                                                   *)
(*                                                                         *)
(* Each step ends where the code calls back into the user: the start hook  *)
(* and the output hook, whose return values are chosen from HookReturns.  *)
(* The checking engines' answers for one Rule are chosen when the Rule     *)
(* starts (see XccdfCheck).  The policy's selects are built at Init by     *)
(* xccdf_policy_new for a profile chosen from Profiles.                    *)
(***************************************************************************)
EXTENDS XccdfSelect, XccdfCheck

CONSTANTS
    Profiles,       \* set of [selects, refineRules, refineValues]
    PlatformItems,  \* items with at least one <platform>
    HookReturns,    \* values a start/output hook may return
    EngineResults,  \* values an engine's eval callback may return
    NameLists,      \* non-NULL answers of a NamesForHref query
    UninitValues    \* values an uninitialized int may hold

VARIABLES
    profile,   \* the profile of the evaluated policy
    platOk,    \* [PlatformItems -> BOOLEAN]: some platform of the item matches the target
    selects,   \* policy->selects
    idx,       \* position of the select loop of xccdf_policy_evaluate
    pc,        \* "select" | "start" | "output" | "restart" | "done"
    cur,       \* the Rule being evaluated
    pending,   \* rule results computed and not yet reported
    results,   \* the TestResult's rule results, in order
    hooks,     \* log of hook calls [kind, rule, ret]
    status     \* "running" | "complete" | "cancelled" | "discarded"

vars == <<profile, platOk, selects, idx, pc, cur, pending, results, hooks, status>>

RuleResult(r, res, name) == [idref |-> r, result |-> res, name |-> name]

-----------------------------------------------------------------------------
\* xccdf_policy_model_item_is_applicable: the parent is applicable and the
\* item has no platform or one of its platforms matches.
RECURSIVE IsApplicable(_)
IsApplicable(item) ==
    /\ item = Root \/ IsApplicable(Parent(item))
    /\ item \in PlatformItems => platOk[item]

\* Mutant: each clone's rule result names the href instead of the name.
MultiCheckResultsHrefName(r, check, href, names, eval) ==
    [j \in DOMAIN names |->
        RuleResult(r, CheckEvaluate(profile,
                                    [check EXCEPT !.refs = <<[href |-> href, name |-> names[j]]>>],
                                    eval),
                   href)]

\* The multi-check fan-out: one clone of the check per name, its content
\* ref pinned to (href, name), each evaluated by xccdf_policy_check_evaluate.
MultiCheckResults(r, check, href, names, eval) ==
    [j \in DOMAIN names |->
        RuleResult(r, CheckEvaluate(profile,
                                    [check EXCEPT !.refs = <<[href |-> href, name |-> names[j]]>>],
                                    eval),
                   names[j])]

(***************************************************************************)
(* The content-ref loop of _xccdf_policy_rule_evaluate, from ref i on.  A  *)
(* ref without name of a multi-check asks the engines for names first;     *)
(* NULL falls back to plain evaluation.  Past the last ref, ret is         *)
(* NOT_CHECKED, or uninitialized (garbage) when the check has no refs.     *)
(***************************************************************************)
RECURSIVE RuleRefs(_, _, _, _, _, _)
RuleRefs(r, check, i, eval, query, garbage) ==
    IF i > Len(check.refs)
    THEN <<RuleResult(r, ResolveNegate(IF i = 1 THEN garbage ELSE XCCDF_RESULT_NOT_CHECKED,
                                       check.negate), NoName)>>
    ELSE
      LET ref   == check.refs[i]
          names == IF ref.name = NoName /\ check.multicheck
                   THEN NamesForHref(check.system, ref.href, query) ELSE NoNames
          ret   == EvaluateCb(check.system, ref.name, ref.href, eval)
      IN  CASE names = <<>>     -> <<RuleResult(r, XCCDF_RESULT_UNKNOWN, NoName)>>
            [] names # NoNames  -> MultiCheckResults(r, check, ref.href, names, eval)
            [] ret # XCCDF_RESULT_NOT_CHECKED ->
                                   <<RuleResult(r, ResolveNegate(ret, check.negate), NoName)>>
            [] OTHER            -> RuleRefs(r, check, i + 1, eval, query, garbage)

\* What _xccdf_policy_rule_evaluate reports for r once the start hook
\* returned 0: a sequence of rule results, a result of -1 meaning "return
\* -1 without reporting".
RuleOutcome(r, eval, query, garbage) ==
    LET check == GetApplicableCheck(profile, r)
    IN  CASE ~IsRuleSelected(selects, r) -> <<RuleResult(r, XCCDF_RESULT_NOT_SELECTED, NoName)>>
          [] ~IsApplicable(r)            -> <<RuleResult(r, XCCDF_RESULT_NOT_APPLICABLE, NoName)>>
          [] check = NoCheck             -> <<RuleResult(r, XCCDF_RESULT_NOT_CHECKED, NoName)>>
          [] check.complex               -> <<RuleResult(r, CheckEvaluate(profile, check, eval), NoName)>>
          [] ~ValueBindingsOk(profile, check.exports) ->
                                            <<RuleResult(r, XCCDF_RESULT_UNKNOWN, NoName)>>
          [] OTHER                       -> RuleRefs(r, check, 1, eval, query, garbage)

\* The engine calls a check may make: (engine, href, name) for each ref,
\* with every name a query may return for a nameless ref of a multi-check.
RECURSIVE CallsOf(_)
CallsOf(check) ==
    IF check.complex
    THEN UNION {CallsOf(check.children[k]) : k \in DOMAIN check.children}
    ELSE UNION {CallbacksFor(check.system) \X {ref.href} \X
                 ({ref.name} \cup IF ref.name = NoName /\ check.multicheck
                                  THEN UNION {Range(l) : l \in NameLists} ELSE {})
                : ref \in Range(check.refs)}

\* The (engine, href) pairs a query may be asked about.
QueriesOf(check) ==
    IF check.complex \/ ~check.multicheck THEN {}
    ELSE {e \in CallbacksFor(check.system) : Engines[e].query}
            \X {ref.href : ref \in Range(check.refs)}

\* The end of xccdf_policy_evaluate after a rule returned ret # 0: -1 frees
\* the TestResult and returns NULL; any other value keeps the partial one.
Finish(ret) ==
    /\ pc' = "done"
    /\ status' = IF ret = FATAL THEN "discarded" ELSE "cancelled"

-----------------------------------------------------------------------------
Init ==
    /\ profile \in Profiles
    /\ platOk \in [PlatformItems -> BOOLEAN]
    /\ selects = PolicyNewSelects(profile.selects)
    /\ idx = 1
    /\ pc = "select"
    /\ cur = Root
    /\ pending = <<>>
    /\ results = <<>>
    /\ hooks = <<>>
    /\ status = "running"

\* The select loop meets a select that is not a Rule: an id missing from the
\* Benchmark, a Group, or a Value (xccdf_policy_item_evaluate returns 0).
SkipSelect ==
    /\ pc = "select"
    /\ idx <= Len(selects)
    /\ selects[idx].item \notin Rules
    /\ idx' = idx + 1
    /\ UNCHANGED <<profile, platOk, selects, pc, cur, pending, results, hooks, status>>

\* Mutant: the loop hands every item to the rule evaluation.
BeginRuleAnyItem ==
    /\ pc = "select"
    /\ idx <= Len(selects)
    /\ pc' = "start"
    /\ cur' = selects[idx].item
    /\ UNCHANGED <<profile, platOk, selects, idx, pending, results, hooks, status>>

\* The select loop reaches a Rule and calls _xccdf_policy_rule_evaluate.
BeginRule ==
    /\ pc = "select"
    /\ idx <= Len(selects)
    /\ selects[idx].item \in Rules
    /\ pc' = "start"
    /\ cur' = selects[idx].item
    /\ UNCHANGED <<profile, platOk, selects, idx, pending, results, hooks, status>>

\* Mutant: the loop stops one select early.
EvaluateDoneEarly ==
    /\ pc = "select"
    /\ idx >= Len(selects)
    /\ pc' = "done"
    /\ status' = "complete"
    /\ UNCHANGED <<profile, platOk, selects, idx, cur, pending, results, hooks>>

\* The select loop is exhausted: the TestResult is added to the policy.
EvaluateDone ==
    /\ pc = "select"
    /\ idx > Len(selects)
    /\ pc' = "done"
    /\ status' = "complete"
    /\ UNCHANGED <<profile, platOk, selects, idx, cur, pending, results, hooks>>

\* _xccdf_policy_rule_evaluate: the start hook, then (on 0) everything up to
\* the first report, with the engines answering through eval and query.
StartRule ==
    /\ pc = "start"
    /\ \E h \in HookReturns :
         /\ hooks' = Append(hooks, [kind |-> "start", rule |-> cur, ret |-> h])
         /\ IF h # 0
            THEN Finish(h) /\ UNCHANGED pending
            ELSE LET check == GetApplicableCheck(profile, cur)
                     calls == IF check = NoCheck THEN {} ELSE CallsOf(check)
                     qs    == IF check = NoCheck THEN {} ELSE QueriesOf(check)
                 IN  \E eval \in [calls -> EngineResults],
                        query \in [qs -> NameLists \cup {NoNames}],
                        garbage \in UninitValues :
                       /\ pending' = RuleOutcome(cur, eval, query, garbage)
                       /\ pc' = "output"
                       /\ UNCHANGED status
    /\ UNCHANGED <<profile, platOk, selects, idx, cur, results>>

\* Between two names of a multi-check the start hook fires again.
RestartMultiCheck ==
    /\ pc = "restart"
    /\ \E h \in HookReturns :
         /\ hooks' = Append(hooks, [kind |-> "start", rule |-> cur, ret |-> h])
         /\ IF h # 0 THEN Finish(h) ELSE pc' = "output" /\ UNCHANGED status
    /\ UNCHANGED <<profile, platOk, selects, idx, cur, pending, results>>

\* _xccdf_policy_report_rule_result with res = -1: returns -1 at once.
ReportFatal ==
    /\ pc = "output"
    /\ Head(pending).result = FATAL
    /\ Finish(FATAL)
    /\ UNCHANGED <<profile, platOk, selects, idx, cur, pending, results, hooks>>

\* Mutant: the output hook's return is ignored.
ReportResultIgnoringHook ==
    /\ pc = "output"
    /\ Head(pending).result # FATAL
    /\ results' = Append(results, Head(pending))
    /\ pending' = Tail(pending)
    /\ \E h \in HookReturns :
         /\ hooks' = Append(hooks, [kind |-> "output", rule |-> cur, ret |-> h])
         /\ IF Tail(pending) # <<>>
            THEN pc' = "restart" /\ UNCHANGED <<idx, status>>
            ELSE pc' = "select" /\ idx' = idx + 1 /\ UNCHANGED status
    /\ UNCHANGED <<profile, platOk, selects, cur>>

\* Mutant: the start hook is not fired again between multi-check names.
ReportResultNoRestart ==
    /\ pc = "output"
    /\ Head(pending).result # FATAL
    /\ results' = Append(results, Head(pending))
    /\ pending' = Tail(pending)
    /\ \E h \in HookReturns :
         /\ hooks' = Append(hooks, [kind |-> "output", rule |-> cur, ret |-> h])
         /\ IF h # 0 THEN Finish(h) /\ UNCHANGED idx
            ELSE IF Tail(pending) # <<>>
            THEN pc' = "output" /\ UNCHANGED <<idx, status>>
            ELSE pc' = "select" /\ idx' = idx + 1 /\ UNCHANGED status
    /\ UNCHANGED <<profile, platOk, selects, cur>>

\* Mutant: the loop moves to the next select after every rule result.
ReportResultAdvanceEach ==
    /\ pc = "output"
    /\ Head(pending).result # FATAL
    /\ results' = Append(results, Head(pending))
    /\ pending' = Tail(pending)
    /\ \E h \in HookReturns :
         /\ hooks' = Append(hooks, [kind |-> "output", rule |-> cur, ret |-> h])
         /\ IF h # 0 THEN Finish(h) /\ UNCHANGED idx
            ELSE IF Tail(pending) # <<>>
            THEN pc' = "restart" /\ idx' = idx + 1 /\ UNCHANGED status
            ELSE pc' = "select" /\ idx' = idx + 1 /\ UNCHANGED status
    /\ UNCHANGED <<profile, platOk, selects, cur>>

\* _xccdf_policy_report_rule_result: add the rule result, call the output
\* hook; on 0 go on with the next name or the next select.
ReportResult ==
    /\ pc = "output"
    /\ Head(pending).result # FATAL
    /\ results' = Append(results, Head(pending))
    /\ pending' = Tail(pending)
    /\ \E h \in HookReturns :
         /\ hooks' = Append(hooks, [kind |-> "output", rule |-> cur, ret |-> h])
         /\ IF h # 0 THEN Finish(h) /\ UNCHANGED idx
            ELSE IF Tail(pending) # <<>>
            THEN pc' = "restart" /\ UNCHANGED <<idx, status>>
            ELSE pc' = "select" /\ idx' = idx + 1 /\ UNCHANGED status
    /\ UNCHANGED <<profile, platOk, selects, cur>>

Next ==
    \/ SkipSelect
    \/ BeginRule
    \/ EvaluateDone
    \/ StartRule
    \/ RestartMultiCheck
    \/ ReportFatal
    \/ ReportResult

\* The evaluation runs on one thread with no waiting of its own: it keeps
\* taking steps until it returns.
Spec == Init /\ [][Next]_vars /\ WF_vars(Next)

-----------------------------------------------------------------------------
RuleResults == [idref : Rules, result : ResultKinds \cup {0, FATAL} \cup UninitValues,
                name : {NoName} \cup UNION {Range(l) : l \in NameLists}]

TypeOK ==
    /\ profile \in Profiles
    /\ platOk \in [PlatformItems -> BOOLEAN]
    /\ selects \in Seq([item : DOMAIN DefaultSelected \cup {s.item : s \in Range(profile.selects)},
                        selected : BOOLEAN])
    /\ idx \in 1..(Len(selects) + 1)
    /\ pc \in {"select", "start", "output", "restart", "done"}
    /\ cur \in Rules \cup {Root}
    /\ pending \in Seq(RuleResults)
    /\ results \in Seq(RuleResults)
    /\ hooks \in Seq([kind : {"start", "output"}, rule : Rules, ret : HookReturns])
    /\ status \in {"running", "complete", "cancelled", "discarded"}

\* Cancellation (section 5): once a start or output hook returns non-zero,
\* no hook is called again, so no further rule is started or reported.
\* This is the break on ret != 0 in xccdf_policy_evaluate and the breaks of
\* the multi-check loop of _xccdf_policy_rule_evaluate.
NoHookAfterCancel ==
    \A i \in 1..(Len(hooks) - 1) : hooks[i].ret = 0

\* Start and output hooks pair up per rule result, also across the names of
\* a multi-check: every output hook call reports the rule whose start hook
\* was the last hook called (the start hook is re-fired before each further
\* name), and a start hook that returned 0 is followed by that rule's output
\* hook unless nothing follows it (an engine's -1 discards the TestResult),
\* so the start hook is never re-fired after a rule's last name.
StartPrecedesOutput ==
    \A i \in DOMAIN hooks :
        /\ hooks[i].kind = "output" =>
               /\ i > 1
               /\ hooks[i - 1].kind = "start"
               /\ hooks[i - 1].rule = hooks[i].rule
        /\ hooks[i].kind = "start" /\ hooks[i].ret = 0 /\ i < Len(hooks) =>
               hooks[i + 1] = [kind |-> "output", rule |-> hooks[i].rule, ret |-> hooks[i + 1].ret]

\* Selection and applicability (sections 4.4, 4.5, 8): a rule result says
\* NOT_SELECTED exactly when the rule or an enclosing Group is deselected
\* by the profile or by default, and NOT_APPLICABLE whenever the selected
\* rule or one of its ancestors has platforms none of which matches.
\* This relates the selects built by xccdf_policy_resolve_item and the
\* lookups of _xccdf_policy_rule_evaluate to the tree itself.
SpecApplicable(r) == \A a \in AncestorsOrSelf(r) \cup {Root} : a \in PlatformItems => platOk[a]

GateOutcome ==
    \A k \in DOMAIN results :
        LET r == results[k].idref
        IN  Unambiguous(profile.selects, r) =>
              /\ (results[k].result = XCCDF_RESULT_NOT_SELECTED) = ~SpecSelected(profile.selects, r)
              /\ SpecSelected(profile.selects, r) /\ ~SpecApplicable(r) =>
                    results[k].result = XCCDF_RESULT_NOT_APPLICABLE

\* A TestResult that completes has a result for every Rule of the
\* Benchmark: the selects of xccdf_policy_new cover every reachable Rule.
EveryRuleReported ==
    status = "complete" => \A r \in Rules : \E k \in DOMAIN results : results[k].idref = r

\* Sections 3 and 4.7: every rule result carries one of the nine result
\* kinds; a check whose content-refs all yield NOT_CHECKED (none at all
\* included) reports NOT_CHECKED.  It is about the int ret of
\* _xccdf_policy_rule_evaluate, which only the content-ref loop assigns.
ResultsAreResultKinds ==
    \A k \in DOMAIN results : results[k].result \in ResultKinds

\* Section 5: rule results appear in Benchmark pre-order.
RulePos(r) == CHOOSE k \in DOMAIN RulesInOrder : RulesInOrder[k] = r
ResultsInBenchmarkOrder ==
    \A i, j \in DOMAIN results : i < j => RulePos(results[i].idref) <= RulePos(results[j].idref)

-----------------------------------------------------------------------------
(***************************************************************************)
(* XccdfPolicy implements XccdfEvaluation: the policy's select list is     *)
(* selects, the reported results are results without their checked name,  *)
(* the walk is past idx - 1 selects, and the state is status.  Every step  *)
(* of the start and output hooks, the engines and the multi-check restarts *)
(* that reports nothing is a stuttering step of the abstract walk.         *)
(***************************************************************************)
Evaluation == INSTANCE XccdfEvaluation
    WITH sel          <- selects,
         out          <- [k \in DOMAIN results |->
                             [idref |-> results[k].idref, result |-> results[k].result]],
         done         <- idx - 1,
         state        <- status,
         ResultValues <- ResultKinds \cup {0} \cup UninitValues,
         Fatal        <- FATAL

\* xccdf_policy_evaluate keeps the promise of XccdfEvaluation: results in
\* the order of the select list, one or more per Rule select and none for
\* other selects, NOT_SELECTED exactly for the rules the policy deselects,
\* no -1 in the TestResult, nothing after a hook stops the walk, completion
\* only past the last select, and the walk always ends.
EvaluationRefined == Evaluation!AbsSpec
=============================================================================

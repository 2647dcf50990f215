---------------------------- MODULE XccdfTailor ----------------------------
(***************************************************************************)
(* Tailoring and substitution of xccdf_policy.c, and the value bindings    *)
(* that read the same Benchmark Values: xccdf_policy_tailor_item (with     *)
(* xccdf_policy_get_refine_rules_by_rule, xccdf_policy_get_value_of_item   *)
(* and xccdf_policy_get_refine_value_oper), xccdf_subst_callback behind    *)
(* xccdf_policy_substitute, and the per-export step of                     *)
(* xccdf_policy_check_get_value_bindings (with xccdf_policy_get_setvalue   *)
(* and xccdf_policy_get_refine_value).                                     *)
(*                                                                         *)
(* The policies of one model share the Benchmark.  Tailoring a Value under *)
(* a refine-value with an operator writes that operator into the           *)
(* Benchmark's Value (not the clone), so the Values' operators are state.  *)
(***************************************************************************)
EXTENDS XccdfSelect

CONSTANTS
    ItemAttrs,      \* [Rules \cup Groups -> [weight, severity, role]]
    ValueDefs,      \* [Values -> [oper, instances : Seq([selector, value, defval])]]
    PlainTexts,     \* [ids with a <plain-text> -> its text]
    Opers,          \* the Value operators
    ProfileLists,   \* a set of Seq(profile): the Benchmark's profiles in order
    LookupIds,      \* ids given to xccdf_policy_model_get_policy_by_id
    NoId,           \* a NULL id
    SubstIds,       \* ids a text may name in a <sub idref>
    NoProfile,      \* a NULL profile (xccdf_policy_new(model, NULL))
    NoSelector,     \* the NULL selector of a default instance
    Undefined,      \* a refine-rule attribute the profile leaves out
    NullRet,        \* a NULL return
    Marker,         \* the callback's NULL: the text keeps its <sub> marker
    Crash,          \* a NULL pointer dereferenced
    NoOper          \* get_refine_value_oper's -1

VARIABLES
    bench,       \* the Benchmark's profiles, fixed by Init
    policies,    \* model->policies: the profile of each policy, in order
    itemAttrs,   \* [Rules \cup Groups -> [weight, severity, role]]: the Benchmark's
    valueOper,   \* [Values -> Opers]: the Benchmark Values' operators
    out,         \* the last call and its answer, or NoCall
    crashed      \* a NULL pointer was dereferenced

tailorVars == <<bench, policies, itemAttrs, valueOper, out, crashed>>

NoCall == [call |-> "none"]

\* Index of the first / last entry of seq for id, 0 if none.
FirstFor(seq, id) == SelectInSeq(seq, LAMBDA e : e.item = id)
LastFor(seq, id)  == SelectLastInSeq(seq, LAMBDA e : e.item = id)

\* xccdf_value_get_instance_by_selector: index of the instance, 0 if none.
InstanceBySelector(insts, sel) == SelectInSeq(insts, LAMBDA x : x.selector = sel)

(***************************************************************************)
(* The lookups of tailoring stop at the FIRST match.                       *)
(***************************************************************************)
\* xccdf_policy_get_refine_rules_by_rule: the first refine-rule of the item.
GetRefineRulesByRule(prof, i) ==
    IF prof = NoProfile THEN 0 ELSE FirstFor(prof.refineRules, i)

\* Mutant: the refine-values are not looked at.
GetValueOfItemSetvalueOnly(prof, v) ==
    IF prof = NoProfile THEN NullRet
    ELSE LET s == FirstFor(prof.setvalues, v)
         IN  IF s # 0 THEN prof.setvalues[s].value ELSE NullRet

\* xccdf_policy_get_value_of_item: the first setvalue's literal, else the
\* value of the instance the first refine-value selects (read through a
\* NULL instance when its selector names none), else NULL.
GetValueOfItem(prof, v) ==
    IF prof = NoProfile THEN NullRet
    ELSE LET s == FirstFor(prof.setvalues, v)
             r == FirstFor(prof.refineValues, v)
         IN  CASE s # 0 -> prof.setvalues[s].value
               [] r # 0 -> LET insts == ValueDefs[v].instances
                               k     == InstanceBySelector(insts, prof.refineValues[r].selector)
                           IN  IF k = 0 THEN Crash ELSE insts[k].value
               [] OTHER -> NullRet

\* Mutant: the refine-value's selector read for its operator.
GetRefineValueOperSelector(prof, v) ==
    LET r == IF prof = NoProfile THEN 0 ELSE FirstFor(prof.refineValues, v)
    IN  IF r = 0 THEN NoOper ELSE prof.refineValues[r].selector

\* xccdf_policy_get_refine_value_oper: the first refine-value's operator,
\* or -1 (NoOper).
GetRefineValueOper(prof, v) ==
    LET r == IF prof = NoProfile THEN 0 ELSE FirstFor(prof.refineValues, v)
    IN  IF r = 0 THEN NoOper ELSE prof.refineValues[r].oper

(***************************************************************************)
(* xccdf_policy_tailor_item.  A Rule with a refine-rule is cloned and gets *)
(* its role and severity (the isnan tests on these enums never fail) and   *)
(* its weight when defined; a Group is cloned only for a defined weight.   *)
(* A Value gets the value of the item: the clone keeps the instances of    *)
(* the selector of the LAST instance holding that value; when none holds   *)
(* it, the default instance keeps and gets the literal as its default.     *)
(* The refine-value's operator is then set on the Benchmark's Value.       *)
(***************************************************************************)
TailorValue(prof, v, oper) ==
    LET val   == GetValueOfItem(prof, v)
        insts == ValueDefs[v].instances
        hits  == SelectLastInSeq(insts, LAMBDA x : x.value = val)
        sel   == IF hits = 0 THEN NoSelector ELSE insts[hits].selector
        kept  == SelectSeq(insts, LAMBDA x : x.selector = sel)
        dflt  == InstanceBySelector(kept, NoSelector)
    IN  CASE val \in {NullRet, Crash} -> val
          [] sel # NoSelector      -> [oper |-> oper[v], instances |-> kept]
          [] dflt = 0              -> Crash
          [] OTHER -> [oper |-> oper[v], instances |-> [kept EXCEPT ![dflt].defval = val]]

TailorItem(prof, i, attrs, oper) ==
    LET k  == GetRefineRulesByRule(prof, i)
        rr == prof.refineRules[k]
    IN  CASE i \in Values -> TailorValue(prof, i, oper)
          [] i \in Rules /\ k = 0 -> attrs[i]
          [] i \in Rules ->
               [attrs[i] EXCEPT !.role = rr.role, !.severity = rr.severity,
                                    !.weight = IF rr.weight # Undefined THEN rr.weight ELSE @]
          [] i \in Groups /\ k # 0 /\ rr.weight # Undefined ->
               [attrs[i] EXCEPT !.weight = rr.weight]
          [] i \in Groups -> attrs[i]
          [] OTHER -> NullRet

\* The operators after tailoring i: the refine-value's, written on the
\* Benchmark's Value.
TailorOper(prof, i, oper) ==
    IF i \in Values /\ GetValueOfItem(prof, i) # NullRet /\ GetRefineValueOper(prof, i) # NoOper
    THEN [oper EXCEPT ![i] = GetRefineValueOper(prof, i)]
    ELSE oper

(***************************************************************************)
(* xccdf_subst_callback for XCCDF_SUBST_SUB: the plain-text of the id,     *)
(* else the first instance value of the tailored Value ("" when it has     *)
(* none), else NULL.  A NULL tailored Value is passed on to                *)
(* xccdf_value_get_instances.                                              *)
(***************************************************************************)
SubstCallback(prof, id, oper) ==
    LET t == TailorValue(prof, id, oper)
    IN  CASE id \in DOMAIN PlainTexts -> PlainTexts[id]
          [] id \in Values /\ t \in {NullRet, Crash} -> Crash
          [] id \in Values -> IF t.instances = <<>> THEN "" ELSE t.instances[1].value
          [] OTHER -> Marker

(***************************************************************************)
(* One export of xccdf_policy_check_get_value_bindings: the LAST setvalue  *)
(* as the override, the LAST refine-value's selector and operator (the     *)
(* Value's own operator without one), and the selected instance's value;   *)
(* NULL when the selector names no instance.                               *)
(***************************************************************************)
\* Mutant: the refine-value search stops at the first match.
GetRefineValueFirst(prof, v) == IF prof = NoProfile THEN 0 ELSE FirstFor(prof.refineValues, v)

\* xccdf_policy_get_setvalue / xccdf_policy_get_refine_value: last match.
GetSetvalue(prof, v)   == IF prof = NoProfile THEN 0 ELSE LastFor(prof.setvalues, v)
GetRefineValue(prof, v) == IF prof = NoProfile THEN 0 ELSE LastFor(prof.refineValues, v)

ValueBinding(prof, v, oper) ==
    LET s     == GetSetvalue(prof, v)
        r     == GetRefineValue(prof, v)
        sel   == IF r = 0 THEN NoSelector ELSE prof.refineValues[r].selector
        insts == ValueDefs[v].instances
        k     == InstanceBySelector(insts, sel)
    IN  IF k = 0 THEN NullRet
        ELSE [value    |-> insts[k].value,
              setvalue |-> IF s = 0 THEN NullRet ELSE prof.setvalues[s].value,
              operator |-> IF r = 0 THEN oper[v] ELSE prof.refineValues[r].oper]

(***************************************************************************)
(* xccdf_policy_resolve: the refine-rules in order, applied to the         *)
(* Benchmark's items themselves.  A Group refine-rule WITH a weight is     *)
(* the error (the test is inverted; its message speaks of a weight not     *)
(* specified), one without a weight sets the Group's weight to the         *)
(* refine-rule's undefined one; a Rule gets role and severity, never the   *)
(* weight.  A refine-rule naming no item is an error too.  An error        *)
(* returns false at once, the earlier refine-rules applied.                *)
(***************************************************************************)
ResolveStep(acc, rr) ==
    CASE ~acc.ok -> acc
      [] rr.item \notin Items -> [acc EXCEPT !.ok = FALSE]
      [] rr.item \in Groups /\ rr.weight # Undefined -> [acc EXCEPT !.ok = FALSE]
      [] rr.item \in Groups -> [acc EXCEPT !.attrs[rr.item].weight = rr.weight]
      [] rr.item \in Rules ->
           [acc EXCEPT !.attrs[rr.item].role = rr.role, !.attrs[rr.item].severity = rr.severity]
      [] OTHER -> acc

ResolveRefineRules(prof, attrs) ==
    FoldLeft(ResolveStep, [attrs |-> attrs, ok |-> TRUE], prof.refineRules)

(***************************************************************************)
(* xccdf_policy_model_new: a policy for a new profile whose id is set to   *)
(* NULL (the default policy), then one per Benchmark profile in order.     *)
(* xccdf_policy_new fails only when allocation does.                       *)
(***************************************************************************)
DefaultProfile == [id |-> NoId, setvalues |-> <<>>, refineValues |-> <<>>, refineRules |-> <<>>]

PolicyModelNew(profiles) == <<DefaultProfile>> \o profiles

\* xccdf_policy_get_id: the profile's id, NULL without a profile.
PolicyGetId(prof) == IF prof = NoProfile THEN NoId ELSE prof.id

\* Mutant: the id loop compares the default policy's NULL id too.
GetPolicyByIdNoSkip(pols, id) ==
    IF id = NoId THEN SelectInSeq(pols, LAMBDA pr : PolicyGetId(pr) = NoId)
    ELSE LET k == SelectInSeq(pols, LAMBDA pr : PolicyGetId(pr) \in {NoId, id})
         IN  IF k # 0 /\ PolicyGetId(pols[k]) = NoId THEN Crash ELSE k

\* xccdf_policy_model_get_policy_by_id: for NULL the first policy with a
\* NULL id; else the first policy, skipping NULL ids, whose id is id; 0 for
\* NULL.
GetPolicyById(pols, id) ==
    IF id = NoId THEN SelectInSeq(pols, LAMBDA pr : PolicyGetId(pr) = NoId)
    ELSE SelectInSeq(pols, LAMBDA pr : PolicyGetId(pr) # NoId /\ PolicyGetId(pr) = id)

-----------------------------------------------------------------------------
TailorInit ==
    /\ bench \in ProfileLists
    /\ policies = PolicyModelNew(bench)
    /\ itemAttrs = ItemAttrs
    /\ valueOper = [v \in Values |-> ValueDefs[v].oper]
    /\ out = NoCall
    /\ crashed = FALSE

\* xccdf_policy_tailor_item(policy, item).
Tailor(p, i) ==
    LET t == TailorItem(policies[p], i, itemAttrs, valueOper)
    IN  /\ ~crashed
        /\ out' = [call |-> "tailor", policy |-> p, id |-> i, result |-> t]
        /\ valueOper' = IF t = Crash THEN valueOper ELSE TailorOper(policies[p], i, valueOper)
        /\ crashed' = (t = Crash)
        /\ UNCHANGED <<bench, policies, itemAttrs>>

\* xccdf_policy_substitute(text, policy) for a text with one <sub idref>.
Substitute(p, id) ==
    LET s == SubstCallback(policies[p], id, valueOper)
    IN  /\ ~crashed
        /\ out' = [call |-> "subst", policy |-> p, id |-> id, result |-> s]
        /\ valueOper' = IF s = Crash \/ id \in DOMAIN PlainTexts THEN valueOper
                        ELSE TailorOper(policies[p], id, valueOper)
        /\ crashed' = (s = Crash)
        /\ UNCHANGED <<bench, policies, itemAttrs>>

\* xccdf_policy_resolve(policy), for a policy with a profile.
Resolve(p) ==
    LET r == ResolveRefineRules(policies[p], itemAttrs)
    IN  /\ ~crashed
        /\ policies[p] # NoProfile
        /\ itemAttrs' = r.attrs
        /\ out' = [call |-> "resolve", policy |-> p, result |-> r.ok]
        /\ UNCHANGED <<bench, policies, valueOper, crashed>>

\* A check of policy p exporting v is dispatched: its binding is built.
Bind(p, v) ==
    /\ ~crashed
    /\ out' = [call |-> "bind", policy |-> p, id |-> v,
               result |-> ValueBinding(policies[p], v, valueOper)]
    /\ UNCHANGED <<bench, policies, itemAttrs, valueOper, crashed>>

\* xccdf_policy_model_get_policy_by_id(model, id).
Lookup(id) ==
    LET k == GetPolicyById(policies, id)
    IN  /\ ~crashed
        /\ out' = [call |-> "lookup", id |-> id, result |-> k]
        /\ crashed' = (k = Crash)
        /\ UNCHANGED <<bench, policies, itemAttrs, valueOper>>

TailorNext ==
    \/ \E id \in LookupIds : Lookup(id)
    \/ \E p \in DOMAIN policies :
        \/ \E i \in Items : Tailor(p, i)
        \/ \E id \in SubstIds : Substitute(p, id)
        \/ \E v \in Values : Bind(p, v)
        \/ Resolve(p)

TailorSpec == TailorInit /\ [][TailorNext]_tailorVars

-----------------------------------------------------------------------------
(***************************************************************************)
(* Section 4.3: the binding of a Value from the last refine-value and the  *)
(* last setvalue of the profile, over the Benchmark as loaded (originals   *)
(* never mutate, section 9).                                               *)
(***************************************************************************)
SpecLast(seq, id) ==
    LET ks == {k \in DOMAIN seq : seq[k].item = id}
    IN  IF ks = {} THEN 0 ELSE CHOOSE k \in ks : \A j \in ks : j <= k

SpecBinding(prof, v) ==
    LET rvs   == IF prof = NoProfile THEN <<>> ELSE prof.refineValues
        svs   == IF prof = NoProfile THEN <<>> ELSE prof.setvalues
        r     == SpecLast(rvs, v)
        s     == SpecLast(svs, v)
        sel   == IF r = 0 THEN NoSelector ELSE rvs[r].selector
        insts == {x \in Range(ValueDefs[v].instances) : x.selector = sel}
    IN  IF insts = {} THEN NullRet
        ELSE [value    |-> (CHOOSE x \in insts : TRUE).value,
              setvalue |-> IF s = 0 THEN NullRet ELSE svs[s].value,
              operator |-> IF r = 0 THEN ValueDefs[v].oper ELSE rvs[r].oper]

\* The policy's profile names v in a setvalue or a refine-value.
ProfileNames(prof, v) ==
    prof # NoProfile /\ \E e \in Range(prof.setvalues) \cup Range(prof.refineValues) : e.item = v

-----------------------------------------------------------------------------
\* Every answer is of its call's kind, and the Values' operators are operators.
TailorTypeOK ==
    /\ valueOper \in [Values -> Opers]
    /\ crashed \in BOOLEAN
    /\ itemAttrs \in [Rules \cup Groups -> [weight : Nat \cup {Undefined},
                                            severity : STRING \cup {Undefined},
                                            role : STRING \cup {Undefined}]]
    /\ out = NoCall \/ out.call \in {"tailor", "subst", "bind", "resolve", "lookup"}
    /\ out # NoCall /\ out.call = "bind" /\ out.result # NullRet =>
           out.result \in [value : STRING, setvalue : STRING \cup {NullRet}, operator : Opers]
    /\ out # NoCall /\ out.call = "tailor" /\ out.id \in Values /\ out.result \notin {NullRet, Crash} =>
           out.result.oper \in Opers

\* The binding xccdf_policy_check_get_value_bindings builds for an export
\* carries the value of the instance the LAST refine-value selects and the
\* LAST setvalue's literal (section 4.3), or is NULL exactly when that
\* selector names no instance.
BindingValueMatchesSpec ==
    out # NoCall /\ out.call = "bind" =>
        LET spec == SpecBinding(policies[out.policy], out.id)
        IN  IF spec = NullRet THEN out.result = NullRet
            ELSE out.result # NullRet /\ out.result.value = spec.value
                 /\ out.result.setvalue = spec.setvalue

\* Value v has a default instance (an empty selector).
HasDefault(v) == \E x \in Range(ValueDefs[v].instances) : x.selector = NoSelector

\* The profile sets v, or refines v to a selector that names no instance.
ProfileSets(prof, v) == \E e \in Range(prof.setvalues) : e.item = v
RefinesToMissing(prof, v) ==
    \E e \in Range(prof.refineValues) :
        e.item = v /\ ~\E x \in Range(ValueDefs[v].instances) : x.selector = e.selector

\* A tailor or substitute call on a Value crashes only for one of three
\* causes: substituting a Value the profile is silent on (a NULL tailored
\* Value handed to xccdf_value_get_instances), reading a refine-value
\* selector that names no instance when no setvalue comes first, or
\* tailoring a Value without a default instance; a profile that names a
\* Value with a default instance and refines it only to existing selectors
\* never crashes, whatever earlier calls of any policy did.
CrashCauses ==
    out # NoCall /\ out.call \in {"tailor", "subst"} /\ out.id \in Values =>
        LET prof  == policies[out.policy]
            v     == out.id
            named == ProfileNames(prof, v)
        IN  /\ out.call = "subst" /\ ~named => out.result = Crash
            /\ out.result = Crash =>
                   \/ out.call = "subst" /\ ~named
                   \/ named /\ ~ProfileSets(prof, v) /\ RefinesToMissing(prof, v)
                   \/ named /\ ~HasDefault(v)
            /\ named /\ HasDefault(v) /\ ~RefinesToMissing(prof, v) => out.result # Crash

\* xccdf_policy_model_get_policy_by_id finds, for NULL, the default policy
\* xccdf_policy_model_new put first; for the id of a Benchmark profile, the
\* policy built for that profile (the first with the id); otherwise NULL;
\* and it never crashes on the default policy's NULL id.
PolicyLookupMatchesModel ==
    out # NoCall /\ out.call = "lookup" =>
        LET ks == {k \in DOMAIN bench : bench[k].id = out.id}
        IN  out.result = IF out.id = NoId THEN 1
                         ELSE IF ks = {} THEN 0
                         ELSE 1 + (CHOOSE k \in ks : \A j \in ks : k <= j)

\* Section 4.3 with section 9: the operator bound for a Value is the last
\* refine-value's, else the Value's own operator as loaded; tailoring by
\* another policy (or by a substitution) must not change it.
BoundOperMatchesSpec ==
    out # NoCall /\ out.call = "bind" /\ out.result # NullRet =>
        out.result.operator = SpecBinding(policies[out.policy], out.id).operator
=============================================================================

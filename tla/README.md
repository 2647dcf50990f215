# TLA+ models of the XCCDF policy-evaluation core

This directory models `src/src/XCCDF_POLICY/xccdf_policy.c`, the policy layer of
OpenSCAP's XCCDF engine. The layer turns a Benchmark plus a Profile into a TestResult.
`../spec.md` describes the intended behaviour. The modules are written from the C source.
Where the source and the spec disagree, that is reported as a finding.

## The system

A caller does four things in order:

1. It builds an `xccdf_policy_model` over a Benchmark.
2. It registers checking engines and start/output hooks (`xccdf_policy_model_register_*`).
3. It obtains an `xccdf_policy` for a Profile (`xccdf_policy_new`).
4. It calls `xccdf_policy_evaluate`.

Everything runs on the caller's thread. The only "concurrency" is re-entry through
callbacks: the start and output hooks, the engines' eval and query functions, and
the CPE/OVAL loader. Each of these may answer anything, and the hooks can cancel.

| # | Part | State | Operations | Interacts with |
|---|------|-------|------------|----------------|
| 1 | Result algebra | none (tables) | `_resolve_operation`, `_resolve_negate` | check evaluation |
| 2 | Engine registry / dispatch | `model->callbacks` (list, registration order) | `xccdf_policy_evaluate_cb`, `_xccdf_policy_get_namesfor_href` | check evaluation, rule runner |
| 3 | Selection resolution | `policy->selects`, `ht_selects` | `xccdf_policy_new`, `xccdf_policy_resolve_item`, `has_select`, `get_select_by_id` | rule runner |
| 4 | Value bindings / tailoring | the Benchmark's Values (their operator is written by tailoring), Rules and Groups (written by `xccdf_policy_resolve`) | `xccdf_policy_check_get_value_bindings`, `get_setvalue`, `get_refine_value`, `xccdf_policy_tailor_item`, `xccdf_policy_resolve` | check evaluation, substitution, every policy of the model |
| 5 | Check choice and evaluation | a cloned check | `_xccdf_policy_rule_get_applicable_check`, `xccdf_policy_check_evaluate` | 1, 2, 4 |
| 6 | Rule runner and evaluation loop | select iterator, the TestResult | `xccdf_policy_evaluate`, `_xccdf_policy_rule_evaluate`, `_xccdf_policy_report_rule_result` | hooks, 3, 5, 7 |
| 7 | CPE applicability | `model->cpe_oval_sessions` cache, CPE dicts and language models | `xccdf_policy_model_item_is_applicable` and its callbacks | rule runner |
| 8 | Rule result construction | a rule result | `_xccdf_rule_result_new_from_rule` | 6 |
| 9 | Scoring | none | `xccdf_policy_get_score`, default/flat walks | after evaluation |
| 10 | Policy-model lifecycle | policies, results | `model_new`, `get_policy_by_id`, free functions | all |
| 11 | Systems/files lists | none (fresh lists per call) | `xccdf_policy_model_get_systems_and_files`, `get_files` and their per-item and per-check walks | none |
| 12 | Substitution | none of its own | `xccdf_policy_substitute`, `xccdf_subst_callback` | 4 (it tailors the Value it substitutes) |

### What has to be right, and is hard to test

The following must hold for each part:

- **Part 1.** The tables must agree with the documented NISTIR table, and AND/OR must commute (spec §8).
- **Part 3.** A Rule is selected iff it and every enclosing Group is selected: by the profile, or by `@selected` when the profile is silent (§4.4). Every Rule gets a select.
- **Part 4.** A binding takes the last setvalue and the last refine-value (§4.3). Tailoring and substitution by one policy must not change what another policy binds, although the Benchmark is shared (§9).
- **Part 5.** Two choices must be right: which single check runs (complex first, then refine-rule selector with fallback, then the last candidate whose system has an engine), and the left fold with negation applied once.
- **Part 6:**
  - any non-zero hook return stops the evaluation at once;
  - -1 discards the TestResult;
  - the start hook re-fires between multi-check names;
  - results come one per Rule, in Benchmark pre-order (§5, §8);
  - the evaluation always returns.
- **Part 7.** The first applicable source wins. The OVAL session cache loads each file once (spec scenario 6).

The hazards, each at its source line, are listed in `PROJECT.json` under "hazards".

## Modules

| Module | Models | Kind |
|--------|--------|------|
| `XccdfResult` | part 1: the two tables transcribed, `ResolveOperation`, `ResolveNegate`; the comment table as the reference (`CommentAnd`, `CommentOr`, `AgreesWithComment`) | operators |
| `XccdfSelect` | part 3: `ResolveItem`/`ResolveContent` (mutually RECURSIVE over the tree), `PolicyNewSelects` = the profile clone followed by the tree walk, `SelectIndex` (first match); beside it the §4.4 reference `SpecSelected` and the pre-order `RulesInOrder` | operators |
| `XccdfCheck` | parts 2, 4, 5: `CallbacksFor`, `EvaluateCb` (first engine not answering NOT_CHECKED), `NamesForHref`, `RefineValueSelector` (last match), `RefineRuleSelector` (first match), `ValueBindingsOk`, `GetApplicableCheck`, RECURSIVE `CheckEvaluate`/`FoldChildren` | operators; engines are oracle functions `eval`, `query` |
| `XccdfPolicy` | part 6 (with 7 and 8 abstracted): the state machine of one `xccdf_policy_evaluate` | VARIABLES, actions |
| `XccdfCpe` | parts 7 and 10: the model's CPE dictionary and language-model lists, the OVAL session cache `sessions` and the import log `loads` as VARIABLES; `ItemApplicable` (parent first, then the four sources in order), the dictionary and language-model walks, `DictCb`, `CheckCb`; actions `AddCpeDict`, `AddCpeLangModel`, `IsApplicable`, `FreeModel`; beside them the §4.5 reference `SpecItemApplicable` | VARIABLES, actions, RECURSIVE operators |
| `XccdfEvaluation` | part 6 abstracted: what `xccdf_policy_evaluate` promises. A walk of the select list (`sel`, `done`) that skips non-Rule selects, reports one or more results per Rule select (`out`), NOT_SELECTED exactly for the rules the policy deselects and never -1, may stop at or between reports, and completes past the last select; weakly fair | VARIABLES, actions |
| `XccdfScore` | part 9: `DefaultScore`/`DefaultFold` and `FlatScore`/`FlatFold` (mutually RECURSIVE, the in-order folds of the two walks), `RuleResultById` (first result of a rule), `GetScore` for the four URIs and an unknown one; beside them the §4.9 reference `SpecScore`, written over sets of children and of counted rules with `FoldSet`/`MapThenSumSet` | operators |
| `XccdfPolicyScore` | parts 6 and 9 composed: `XccdfPolicy` followed by `AskScore`, a call of `xccdf_policy_get_score` on the TestResult the evaluation returned | VARIABLES, actions |
| `XccdfFiles` | part 11: `CheckSystemsAndFiles`/`ItemSystemsAndFiles` and `CheckFiles`/`ItemFiles` (RECURSIVE walks), `AddAbsentEntry`/`MergeAbsentEntries` and `AddAbsentName`/`MergeAbsentNames` (the `oscap_list_contains` test before every add), the comparators `FileEntryCmp` and `StrCmp`; the Rules' checks as a VARIABLE fixed by Init, actions `GetSystemsAndFiles` and `GetFiles`; beside them the §4.10 reference `SpecSystemsAndFiles`/`SpecFiles` (the flattened document-order references, first occurrences kept) | VARIABLES, actions, RECURSIVE operators |
| `XccdfTailor` | parts 3 (`xccdf_policy_resolve`), 4, 10 (`model_new`, `get_policy_by_id`) and 12 over one Benchmark shared by the model's policies: `PolicyModelNew`, `PolicyGetId`, `GetPolicyById`, `GetRefineRulesByRule`, `GetValueOfItem`, `GetRefineValueOper` (first match), `TailorValue`/`TailorItem`/`TailorOper`, `SubstCallback`, `GetSetvalue`/`GetRefineValue` (last match), `ValueBinding`, `ResolveStep`/`ResolveRefineRules`; the Rules' and Groups' attributes and the Values' operators as VARIABLES; actions `Lookup`, `Tailor`, `Substitute`, `Bind`, `Resolve`; beside them the §4.3 reference `SpecBinding` | VARIABLES, actions |
| `MCXccdfPolicy` | a five-item Benchmark and the profile sets for TLC | model |
| `MCXccdfResult` | every pair of table kinds for the table check | model |
| `MCXccdfCheck` | a complex AND of three simple checks, some without content-refs | model |
| `MCXccdfPolicyScore` | the `MCXccdfPolicy` Benchmark with weights, a few profiles, failing engines and cancelling hooks | model |
| `MCXccdfCpe` | a four-item Benchmark with platforms, an embedded and an external dictionary, an embedded and an external language model | model |
| `MCXccdfFiles` | a five-item Benchmark whose Rules take any of four check lists | model |
| `MCXccdfTailor` | a Benchmark with a Rule, a Group and two Values, and one or two of three profiles | model |

### XccdfPolicy: state and actions

The variables:

- `profile`: the Profile, with its selects, refine-rules and refine-values.
- `platOk`: for each item with platforms, whether some platform matches. This is the CPE verdict, chosen at Init.
- `selects`: `policy->selects`, computed at Init by `PolicyNewSelects`.
- `idx`: the select iterator.
- `pc`: where the code is: in the select loop, before the start hook, before the output hook, or before the re-fired start hook of the next multi-check name.
- `cur`: the Rule being evaluated.
- `pending`: the rule results computed and not yet reported.
- `results`: the TestResult's list.
- `hooks`: a log of every hook call and what it returned.
- `status`: running, complete, cancelled or discarded.

Each action runs from one user callback to the next:

| Action | Code |
|--------|------|
| `SkipSelect` | the `continue` for missing ids and Groups, and the Value case of `xccdf_policy_item_evaluate` |
| `BeginRule` | the loop hands a Rule to `xccdf_policy_item_evaluate` |
| `StartRule` | the start hook. On 0 it runs the whole body of `_xccdf_policy_rule_evaluate` up to the first report: selection, applicability, check choice, bindings, the content-ref loop and the multi-check fan-out (`RuleOutcome`, `RuleRefs`, `MultiCheckResults`). The engines' answers are chosen here, as functions over every call the check can make. |
| `ReportResult` | `_xccdf_policy_report_rule_result`: append, then the output hook. On 0 it moves to the next name (through `RestartMultiCheck`) or the next select. |
| `RestartMultiCheck` | the start hook between names |
| `ReportFatal` | `res == -1` returns -1, and the TestResult is freed |
| `EvaluateDone` | the loop ends and the result is added |

`Finish` is the break or `return NULL` of `xccdf_policy_evaluate`.

The engine answers are drawn before the reports, although the code interleaves engine calls with hooks. That is sound: the engines' answers do not depend on the hooks, and the choice is made per call, so every combination is explored.

The uninitialized `int ret` of `_xccdf_policy_rule_evaluate` (a check with no content-refs) is a choice from `UninitValues`.

### XccdfCpe: state and actions

The variables are the policy model's fields that applicability reads and writes:

- `cpeDicts`, `cpeLangModels`: the lists filled by `xccdf_policy_model_add_cpe_dict` and `add_cpe_lang_model` (ids into the constant `Dicts`, `LangModels`). The embedded dictionary and language model are the Benchmark's, fixed.
- `sessions`: the keys of `model->cpe_oval_sessions`. A key is `<<prefix, href>>`, the string `prefix/href` or `href`.
- `loads`: every call of `oval_definition_model_import`, in order, with its key. It is a history variable: the code keeps no such log.
- `defTrue`: the OVAL definitions' verdicts, chosen at Init (an oracle).
- `calls`, `last`: the number of applicability queries, and the last query's item, verdict, and the §4.5 reference verdict at that moment.
- `freed`: `xccdf_policy_model_free` has run.

`IsApplicable(item)` is one call of `xccdf_policy_model_item_is_applicable` as `_xccdf_policy_rule_evaluate` makes it. The walk is a RECURSIVE fold `FirstTrue` that threads the cache through every callback. `Step` dispatches on the walk being done (source, dictionary platform, language-model platform, fact, dictionary name, dictionary check). SANY does not allow operator arguments in RECURSIVE operators, hence the dispatch. A cache miss imports; a file that exists is added to the cache; a missing file is not, and is retried at the next reference. `FileOf` is the file an import opens: `href` relative to the working directory `.`.

### XccdfTailor: state and actions

The policies of one model share the Benchmark, and two calls write into it. So the model holds the model's policies and the parts of the Benchmark that are written:

- `bench`: the Benchmark's profiles, in document order, chosen by Init.
- `policies`: the profile of each policy, as `xccdf_policy_model_new` builds the list (`PolicyModelNew`): first the default policy, whose profile is a new, empty profile with its id set to NULL (`DefaultProfile`, lines 1846-1853), then one policy per Benchmark profile. `xccdf_policy_new` returns NULL only when allocation fails, which is not modelled.

- `itemAttrs`: each Rule's and Group's weight, severity and role. `xccdf_policy_resolve` changes them; tailoring clones them.
- `valueOper`: each Value's operator. `xccdf_policy_tailor_item` writes a refine-value's operator here, on the Benchmark's Value (line 2379), after it has cloned it.
- `out`: the last call, its policy, its id and its answer (a clone, a string, a binding, or resolve's boolean).
- `crashed`: a call dereferenced NULL. No call follows.

The actions are the public calls, by either policy on any id:

| Action | Code |
|--------|------|
| `Lookup(id)` | `xccdf_policy_model_get_policy_by_id`: for NULL the first policy whose `xccdf_policy_get_id` is NULL; otherwise the first policy, skipping NULL ids, whose id `strcmp`s equal; NULL when none does. |
| `Tailor(p, i)` | `xccdf_policy_tailor_item`. A Rule is cloned with its first refine-rule's role and severity (the `isnan` tests on these enums never fail) and its weight when defined. A Group is cloned only for a defined weight. A Value gets the first setvalue's literal, else the value of the first refine-value's instance (`GetValueOfItem`; a selector naming no instance is read through NULL, a crash, line 2289). With none it is NULL. The clone keeps the instances of the selector of the last instance holding that literal; when none holds it, the default instance gets the literal as its default, and a Value without one crashes. Then the first refine-value's operator is written on the Benchmark's Value. |
| `Substitute(p, id)` | `xccdf_policy_substitute` on a text with one `<sub idref>`: the plain-text of the id, else the first instance of the tailored Value (whose tailoring writes the operator as above), else the marker is kept. A NULL tailored Value is handed to `xccdf_value_get_instances`: a crash. |
| `Bind(p, v)` | one export in `xccdf_policy_check_get_value_bindings`: the last setvalue, the last refine-value's selector and operator (the Value's current operator without one), the instance of that selector, or NULL when there is none. |
| `Resolve(p)` | `xccdf_policy_resolve` (the default policy's empty profile resolves with no change): the refine-rules in order on the Benchmark's items. A Group refine-rule with a weight is an error (the test at line 2085 is inverted), one without sets the weight to the undefined one. A Rule gets role and severity, never its weight. An id naming no item is an error. An error returns false with the earlier refine-rules applied. |

The text splicing of `oscap_text_xccdf_substitute` is not in the repository, so a text is one marker.

### The refinement

`XccdfPolicy` declares `Evaluation == INSTANCE XccdfEvaluation WITH ...` and checks `EvaluationRefined == Evaluation!AbsSpec` as a PROPERTY of the protocol run. The mapping:

- `sel` is `selects`;
- `out` is `results` without the checked name;
- `done` is `idx - 1`;
- `state` is `status`;
- the result values are the nine kinds, 0 and the uninitialized values.

`BeginRule`, `StartRule` with hook 0, and `RestartMultiCheck` with hook 0 report nothing, so they are abstract stuttering steps. `ReportResult` is an abstract `Report` that stays on the Rule, moves past it, or stops, depending on the pending names and the hook's return. `SkipSelect` is `Skip`, `EvaluateDone` is `Complete`, and a hook's or an engine's stop with nothing reported is `Stop`. The abstract spec is weakly fair, so the refinement includes termination: every behaviour of the detailed spec reaches the abstract `Complete` or `Stop`. No separate termination property is checked, since every action of the detailed spec uses up a finite select index or pending list.

What the refinement adds to the invariants: results follow the select list (not the Benchmark order of §5, see finding 3), and each Rule select gets at least one result before the loop moves on. It also checks that a stop is final and that "complete" means every select was walked.

## Runs

| Run | cfg | Expect | Checks |
|-----|-----|--------|--------|
| `policy_protocol` | `MCXccdfPolicyProtocol.cfg` | pass | `TypeOK`, `NoHookAfterCancel`, `StartPrecedesOutput`, `EvaluationRefined` |
| `policy_order` | `MCXccdfPolicyOrder.cfg` | violation | `ResultsInBenchmarkOrder` |
| `result_table` | `MCXccdfResult.cfg` | violation | `ResolveAgreesWithComment` |
| `complex_and_fold` | `MCXccdfCheck.cfg` | violation | `AndWithFailingChildFails` |
| `policy_score` | `MCXccdfPolicyScore.cfg` | pass | `ScoreTypeOK`, `ScoreMatchesSpec`, `AllPassScoresMax`, `GateOutcome`, `EveryRuleReported` |
| `policy_score_zero_weight` | `MCXccdfPolicyScoreZeroWeight.cfg` | violation | `AllPassScoresMax` |
| `policy_uninit_result` | `MCXccdfPolicyUninit.cfg` | violation | `ResultsAreResultKinds` |
| `cpe_applicability` | `MCXccdfCpe.cfg` | pass | `TypeOK`, `ApplicabilityMatchesSpec`, `ImportOncePerKey` |
| `cpe_dict_elsewhere` | `MCXccdfCpeElsewhere.cfg` | violation | `ApplicabilityMatchesSpec` |
| `files_lists` | `MCXccdfFiles.cfg` | pass | `FilesTypeOK`, `SystemsAndFilesMatchSpec`, `FilesMatchSpec` |
| `tailor_subst_bind` | `MCXccdfTailor.cfg` | pass | `TailorTypeOK`, `BindingValueMatchesSpec`, `CrashCauses`, `PolicyLookupMatchesModel` |
| `tailor_oper_leak` | `MCXccdfTailorOperLeak.cfg` | violation | `BoundOperMatchesSpec` |

Each passing property comes with a mutant in `PROJECT.json`: a plausible bug in the mapped definition that TLC must catch.

- Dropping the parent's FALSE in `ResolveItem` breaks `GateOutcome`.
- Ending the loop one select early breaks `EveryRuleReported`.
- Ignoring the output hook's return breaks `NoHookAfterCancel`.
- Not re-firing the start hook between names breaks `StartPrecedesOutput`. Its second half, that a start hook returning 0 is followed by that rule's output hook, catches the opposite slip: a start hook re-fired after a rule's last name.
- Moving the select loop on after every rule result (not after the last name of a multi-check) breaks `EvaluationRefined`.
- Dividing by the accumulator when nothing was folded breaks `ScoreTypeOK` (a zero denominator).
- Accumulating one per folded child instead of its weight breaks `ScoreMatchesSpec`.
- Scoring a rule's last result instead of its first breaks `AllPassScoresMax`.
- Taking the origin file for its directory in the dictionary prefix breaks `TypeOK` of `XccdfCpe`.
- Not adding an imported session to the cache breaks `ImportOncePerKey`.
- Skipping the parent in `ItemApplicable` breaks `ApplicabilityMatchesSpec`.
- Building a file entry with system and href swapped breaks `FilesTypeOK`.
- Comparing file entries by file only (one href under two systems collapses) breaks `SystemsAndFilesMatchSpec`.
- A container concatenating its children's href lists without the contains test breaks `FilesMatchSpec`. The same slip inside one check's content-refs would not: the Rule level deduplicates again, so the model shows that per-check test to be redundant.
- Reading the refine-value's selector for its operator breaks `TailorTypeOK`.
- A refine-value search in the bindings that stops at the first match breaks `BindingValueMatchesSpec`.
- A `get_value_of_item` that does not look at refine-values breaks `CrashCauses`: a Value the profile only refines crashes substitution.
- A `get_policy_by_id` whose id loop does not skip NULL ids breaks `PolicyLookupMatchesModel`: every lookup of a profile id `strcmp`s the default policy's NULL id.

### Bounds

The Benchmark is `bench{g1{r1, g2{r2, v1}}, r3}`:

- `r3` is deselected by default.
- `g2` and `r3` carry platforms.
- `r1` has a multi-check on an engine with a query function, plus a selector-tagged negated check exporting `v1`.
- `r2` has a negated complex AND of two checks.
- `r3` has a check with two alternative content-refs, plus a check for an unregistered system.
- Two `oval` engines are registered, so the first-answer rule of `xccdf_policy_evaluate_cb` matters.

This is the smallest tree with the following:

- a Group inside a Group, so that a deselection three levels up must reach `r2`;
- a Value in content;
- a Rule at top level;
- all three check paths.

The **selection profiles** (`MCSelectionProfiles`) are every profile of up to two selects over `g1`, `r1`, `r2` and a missing id `x`. That includes duplicates, contradictory selects and selects out of tree order. Together with every platform verdict, they are checked in the score run (below) for `GateOutcome` and `EveryRuleReported`. `GateOutcome` constrains only the Rules for which the profile does not both select and deselect the Rule or one of its Groups (`Unambiguous`). §4.4 speaks of the profile's select "if present" and does not say which of two contradictory selects wins, so the outcome of such a Rule is left open, and the contradictory profiles only exercise the other properties. Its NOT_APPLICABLE half reads the same platform verdicts `platOk` the model gives the code. The same profiles are also checked, with hooks returning 0 and engines PASS, in `policy_order`.

The **protocol run** fixes a few profiles:

- no selects, or a missing id `x`, the Group `g2` and `r2` selected first (so results are out of Benchmark order and the loop skips two selects);
- refine-rule of `r1` to `s1` or to an unmatched `s9`;
- refine-value of `v1` to a missing `lo`, or `lo` then `hi`.

For each of these it takes every hook return in {0, 1, -1}, every engine answer in {PASS, FAIL, ERROR, NOT_CHECKED, -1}, and query answers of no names, two names or NULL.

The protocol run takes about 2 minutes (most of it the liveness and refinement checks), with 49 858 distinct states.

The **score runs** evaluate the same Benchmark under the selection profiles and three more (default, `g1` deselected, `r3` selected), with engine answers PASS, FAIL and NOT_CHECKED and hooks returning 0 or 1, so TestResults are complete or cut short, hold multi-check results, NOT_SELECTED and NOT_APPLICABLE rules. After the evaluation every scoring URI is asked, and an unknown one. The weights are 1 and 2 (`r1`, `g2` weigh 2), so that weighted and unweighted, normalised and not, differ; the zero-weight run gives `r2` weight 0. `policy_score` has 301 492 distinct states and takes about 75 s. Weights are integers and scores exact fractions: the code's doubles add the same terms in the same order on both sides of the absolute score's `==`, and rounding in the default score's division is not modelled.

The **CPE runs** use `bench{g[#p1]{r1[cpe:/o:y, #p2]}, r2[cpe:/o:y], r3[#p2]}`. The embedded dictionary `DE` (in `.`) maps `x` to `a.xml#d1` and `y` to `missing.xml#d1` then `a.xml#d2`; the external `D1` maps `y` to `b.xml#d1` and `z` to `b.xml#d2`. The embedded language model's `p1` is `x AND b.xml#d2`; the external one's `p2` is `z`. Every OVAL verdict is enumerated, and up to three queries interleave with adding `D1` and the external model at any point. So the cases happen: a missing file retried, a name found only in the external dictionary, a platform reached through the language model that ends in a dictionary check, and a group that vetoes its rule. `cpe_applicability` places `D1` in `.` (4 934 distinct states); `cpe_dict_elsewhere` places it in `dicts`.

The **files run** uses `bench{g1{r1, g2{r2}}, r3}` and lets each Rule take any of four check lists: none; an `oval` check of `h1`, `h2`; an `sce` check of `h1` then a complex check; or the complex check then the `oval` check. The complex check nests a complex check of an `oval` `h2` and the `sce` `h1`, then an `oval` `h3`. So an href repeats within a Rule, across Rules, across Groups, at two depths of complex checks and under two systems. That is all 64 Benchmarks of that shape, 256 distinct states, in about a second. The tree has no Value (see the hazard at line 1584).

The **tailor runs** use `bench{g1{r1, v1}, v2}` and the plain-text `t1`. `v1` has a default instance `5` and a `hi` instance `9`, operator `equals`; `v2` has only a `lo` instance. Three profiles:

- `P1` refines `v1` to `hi` with operator `less`, and refines `r1`'s weight and then an id naming no item.
- `P2` sets `v1` to `7` then `9`, refines it to the default then `hi`, and refines `g1` without a weight.
- `P3` sets `v2` to `3`, refines `v1` to `zz`, a selector naming no instance, and refines `g1`'s weight.

Each profile has an id (`p1`, `p2`, `p3`). The Benchmark holds one or two of them in either order (9 initial states), so the model has two or three policies, the default one first, and a profile id may be absent. Lookups take NULL and the three ids. The policies call tailor on every item, substitute `v1`, `v2`, `t1` and `r1`, bind `v1` and `v2`, and resolve, in any order. So the first and last match differ (`P2`), a literal matches an instance, matches none, or has no default instance to go to (`P3` on `v2`), resolve fails before and after changing the Benchmark, a refine-value names a missing selector (`P3` on `v1`), and one policy's tailoring precedes the other's binding. The run covers 1 643 distinct states in 2 s.

### Fairness

`Spec` has weak fairness on `Next`. The evaluation is a single thread that never waits on anything but the callbacks it calls. So whenever a step is enabled, it is taken.

`ScoreSpec` keeps the evaluation's weak fairness and adds none for `AskScore`: the caller may never ask for a score. Its run checks deadlock: after a complete or cancelled evaluation a score can always be asked for, and no engine or hook in that run returns -1.

`XccdfEvaluation`'s `AbsSpec` is weakly fair on its whole next-state relation: `xccdf_policy_evaluate` returns to its caller.

`FilesSpec` has no fairness and needs none: its properties are invariants. Both calls are always enabled, so its run checks deadlock.

`XccdfCpe` has no fairness: nothing in the model must happen, and its cfg has `CHECK_DEADLOCK FALSE` because after `xccdf_policy_model_free` nothing may be called.

`TailorSpec` has no fairness: every property of its runs is an invariant. Its cfgs have `CHECK_DEADLOCK FALSE` because a call that dereferences NULL ends the process, so no call follows it; any state without a crash can always take a `Bind`.

`CHECK_DEADLOCK FALSE` appears in the policy runs because `xccdf_policy_evaluate` returns: the state with `pc = "done"` has no successor by design.

## Findings

1. **`_resolve_operation` disagrees with its comment.** The tables' rows for ERROR(3) and UNKNOWN(4) are swapped relative to the comment above them; the table header reads `P F E U`. So AND(ERROR, PASS) = UNKNOWN while AND(PASS, ERROR) = ERROR. (`result_table`)
2. **A fold can lose a FAIL.** A simple check without content-refs evaluates to 0. In a complex check's fold, `_resolve_operation(x, 0)` returns 0, and the next child restarts the fold. So And(Fail, no-refs, Pass) = Pass. (`complex_and_fold`)
3. **Results are not in Benchmark pre-order.** They follow `policy->selects`, which holds the profile's selects first. (`policy_order`)
4. **A dictionary reached through a language model loses its directory.** `_xccdf_policy_cpe_dict_cb` hands the language model's `usr` (with `dict = NULL`) on to the dictionary walk, so `_xccdf_policy_cpe_check_cb` takes its "FIXME: STUB" branch and uses the dictionary's check href unprefixed (line 829). §4.5 resolves it against the dictionary's directory. With the external dictionary in `dicts`, `r3` (platform `#p2` = name `z`, found in `D1`) is judged not applicable, while the spec says applicable. (`cpe_dict_elsewhere`) The same line also keys one file twice when the dictionary lies in `.` (`./a.xml` when the dictionary is walked directly, `a.xml` through a language model), so the file is imported twice, against spec scenario 6. An earlier run showed this; it was retired to keep the number of runs bounded and is not checked now.
5. **A rule of weight 0 lowers the default score.** `xccdf_item_get_default_score` skips a child only when its count is 0 (line 1260). A passing rule of weight 0 has count 1, so its Group counts it, keeps the unnormalised score 0 (accumulator 0) and is folded by its parent with the Group's own weight. §4.9 drops children that add nothing to the accumulator, and §8 says an all-pass TestResult scores the maximum; with `r1`, `r2` passing and `r2` of weight 0 the default score is 100/3. (`policy_score_zero_weight`)
6. **A check without content-refs reports an uninitialized value.** In `_xccdf_policy_rule_evaluate`, `int ret` (line 1080) is assigned only inside the content-ref loop. For a simple check with no content-refs, the `NOT_CHECKED` test after the loop reads garbage, and the garbage, negated or not, becomes the rule's result. §4.7 makes a check whose refs all yield NotChecked (vacuously, none) NotChecked. The run gives `r1` checks without refs and lets the uninitialized int be 0, PASS or 42; the TestResult then holds a result 0. (`policy_uninit_result`)

7. **Tailoring one policy changes another policy's bindings.** `xccdf_policy_tailor_item` writes a refine-value's operator with `xccdf_value_set_oper(item, ...)` (line 2379): on the Benchmark's Value, which every policy of the model shares, not on the clone it returns. The clone keeps the old operator. After a policy with `P1` (refine `v1` to `hi`, operator `less`) tailors or substitutes `v1`, the default policy's binding of `v1` carries `less` (line 589 reads the Value's operator). §4.3 says a binding without a refine-value has the Value's own operator, and §9 says originals never mutate. (`tailor_oper_leak`)

### Observations without a run

The runs are kept to a fixed budget. These divergences were met while modelling. The model reaches each of them, but no run states it:

- **A rule selected twice is reported twice.** `xccdf_policy_new` clones every profile select, duplicates included, and the loop evaluates each copy; §8 says one result per Rule.
- **`xccdf_policy_resolve` rejects exactly the Group refine-rules it should apply.** The test at line 2085 is inverted: a Group refine-rule with a weight returns false, and its message speaks of a weight not specified. One without a weight sets the Group's weight to the undefined one. A Rule's refined weight is never applied, and an error leaves the earlier refine-rules applied.
- **Tailoring and substitution take the first setvalue and refine-value, where bindings take the last** (§4.3, and the note on last match in §9). With `P2` the binding of `v1` is the `hi` instance `9` with setvalue `9`. Substitution instead tailors by the first setvalue `7`: it matches no instance, goes to the default instance's default, and the callback returns that instance's value `5`.
- **Substituting a Value the profile does not name crashes**, as does every Value substitution under the default policy: `xccdf_policy_tailor_item` returns NULL and `xccdf_subst_callback` passes it to `xccdf_value_get_instances`. So does a Value whose literal matches no instance and which has no default instance (line 2374), and a Value whose first refine-value names no instance when no setvalue comes first (line 2289). `CrashCauses` checks that these three are the only causes, and that a profile naming a Value with a default instance and existing selectors never crashes.
- **Refine-rule role and severity are applied even when absent.** The `isnan` tests (lines 2328-2331) are applied to enums and never fail, where §4.10 applies only the overrides whose `refine_rule_*_defined` is true.

## Not modelled yet, and the plan

Later work, in order of importance:

1. **`xccdf_policy_set_selected`.** `set_selected` (lines 2005-2023) leaves an existing select alone and, for an unknown id, appends a NULL select (`//TODO: sel = xccdf_select_new`). The evaluation loop (line 2177) and `xccdf_policy_filter_select` then dereference that NULL. A faithful model therefore has to represent a crash of the evaluation in `XccdfPolicy`. That would multiply the state space of every policy run, and checking it needs a run of its own, which the budget does not have.
2. **A property on the results of the rule runner.** Each reported result, given the chosen engine answers, equals a §4.7 reference evaluation of the chosen check.

Not modelled at all:

- the text splicing of `oscap_text_xccdf_substitute` (not in the repository) and the substitution kinds other than `XCCDF_SUBST_SUB`, which the callback answers with NULL;
- memory management, time stamps and TestResult ids;
- messages, idents, fixes and weights of rule results;
- the engines' and OVAL's own semantics, which are oracles here.

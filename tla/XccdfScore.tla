----------------------------- MODULE XccdfScore -----------------------------
(***************************************************************************)
(* Scoring of xccdf_policy.c: xccdf_item_get_default_score and             *)
(* xccdf_item_get_flat_score, the post-order walks over the Benchmark      *)
(* tree, and xccdf_policy_get_score, which runs one of them on a           *)
(* TestResult for a scoring-system URI.  Beside them, the scores section   *)
(* 4.9 of the specification defines, stated over sets of children and of   *)
(* rules rather than as the code's sequential folds.                       *)
(*                                                                         *)
(* Weights are natural numbers here and scores exact fractions; the code   *)
(* computes in double (see the README on what that leaves out).            *)
(***************************************************************************)
EXTENDS XccdfResult, XccdfSelect

CONSTANT Weight   \* [Rules \cup Groups \cup {Root} -> Nat]: xccdf_item_get_weight

DEFAULT         == "urn:xccdf:scoring:default"
FLAT            == "urn:xccdf:scoring:flat"
FLAT_UNWEIGHTED == "urn:xccdf:scoring:flat-unweighted"
ABSOLUTE        == "urn:xccdf:scoring:absolute"

\* A score value: the fraction num / den, den > 0.
Frac(n, d)      == [num |-> n, den |-> d]
FracAdd(a, b)   == Frac(a.num * b.den + b.num * a.den, a.den * b.den)
FracMul(a, k)   == Frac(a.num * k, a.den)
FracDiv(a, k)   == Frac(a.num, a.den * k)
FracEq(a, b)    == a.num * b.den = b.num * a.den
Zero            == Frac(0, 1)

\* The NULL a walk returns for an item it does not score.
NULL == [null |-> TRUE]
IsNull(s) == DOMAIN s = {"null"}

\* The result xccdf_result_get_rule_result_by_id finds: the first rule
\* result with the id, NoRuleResult when there is none.
NoRuleResult == -2

\* Mutant: the lookup keeps the last rule result of the id.
RuleResultByIdLast(tr, id) ==
    LET k == SelectLastInSeq(tr, LAMBDA rr : rr.idref = id)
    IN  IF k = 0 THEN NoRuleResult ELSE tr[k].result

RuleResultById(tr, id) ==
    LET k == SelectInSeq(tr, LAMBDA rr : rr.idref = id)
    IN  IF k = 0 THEN NoRuleResult ELSE tr[k].result

\* Results a walk leaves out, and results that score as a pass.
IgnoredResults == {XCCDF_RESULT_NOT_SELECTED, XCCDF_RESULT_NOT_APPLICABLE,
                   XCCDF_RESULT_INFORMATIONAL, XCCDF_RESULT_NOT_CHECKED}
PassResults    == {XCCDF_RESULT_PASS, XCCDF_RESULT_FIXED}

\* A Rule a walk scores: it has a rule result, and not an ignored one.
Scored(tr, r) == RuleResultById(tr, r) \notin IgnoredResults \cup {NoRuleResult}

(***************************************************************************)
(* xccdf_item_get_default_score.  A Rule scores 100 or 0 with count 1; a   *)
(* container folds its content in order, skipping NULL and count-0         *)
(* children, adding each child's weight_score and its weight, and divides  *)
(* by the accumulated weight when both count and accumulator are non-zero. *)
(***************************************************************************)
RECURSIVE DefaultScore(_, _), DefaultFold(_, _, _), DefaultFoldByCount(_, _, _)

\* Mutant: every child folded counts one, whatever its weight.
DefaultFoldByCount(tr, items, acc) ==
    IF items = <<>> THEN acc
    ELSE LET ch == DefaultScore(Head(items), tr)
         IN  DefaultFoldByCount(tr, Tail(items),
               IF IsNull(ch) \/ ch.count = 0 THEN acc
               ELSE [count |-> acc.count + 1,
                     score |-> FracAdd(acc.score, ch.weight_score),
                     accumulator |-> acc.accumulator + 1])

DefaultFold(tr, items, acc) ==
    IF items = <<>> THEN acc
    ELSE LET ch == DefaultScore(Head(items), tr)
         IN  DefaultFold(tr, Tail(items),
               IF IsNull(ch) \/ ch.count = 0 THEN acc
               ELSE [count |-> acc.count + 1,
                     score |-> FracAdd(acc.score, ch.weight_score),
                     accumulator |-> acc.accumulator + Weight[Head(items)]])

\* Mutant: a container always divides by its accumulated weight.
DefaultScoreAlwaysNormalised(item, tr) ==
    CASE item \in Rules ->
           IF ~Scored(tr, item) THEN NULL
           ELSE LET s == IF RuleResultById(tr, item) \in PassResults
                         THEN Frac(100, 1) ELSE Zero
                IN  [count |-> 1, score |-> s, weight_score |-> FracMul(s, Weight[item])]
      [] item \in Containers ->
           LET f == DefaultFold(tr, Content[item], [count |-> 0, score |-> Zero, accumulator |-> 0])
               s == FracDiv(f.score, f.accumulator)
           IN  [count |-> f.count, score |-> s, weight_score |-> FracMul(s, Weight[item])]
      [] OTHER -> NULL

DefaultScore(item, tr) ==
    CASE item \in Rules ->
           IF ~Scored(tr, item) THEN NULL
           ELSE LET s == IF RuleResultById(tr, item) \in PassResults
                         THEN Frac(100, 1) ELSE Zero
                IN  [count |-> 1, score |-> s, weight_score |-> FracMul(s, Weight[item])]
      [] item \in Containers ->
           LET f == DefaultFold(tr, Content[item], [count |-> 0, score |-> Zero, accumulator |-> 0])
               s == IF f.count # 0 /\ f.accumulator # 0
                    THEN FracDiv(f.score, f.accumulator) ELSE f.score
           IN  [count |-> f.count, score |-> s, weight_score |-> FracMul(s, Weight[item])]
      [] OTHER -> NULL

(***************************************************************************)
(* xccdf_item_get_flat_score.  A Rule weighs its weight (1 when            *)
(* unweighted) and scores it on a pass; a container sums its children,     *)
(* skipping NULL and weight-0 ones.                                        *)
(***************************************************************************)
RECURSIVE FlatScore(_, _, _), FlatFold(_, _, _, _)

FlatFold(tr, unweighted, items, acc) ==
    IF items = <<>> THEN acc
    ELSE LET ch == FlatScore(Head(items), tr, unweighted)
         IN  FlatFold(tr, unweighted, Tail(items),
               IF IsNull(ch) \/ ch.weight = 0 THEN acc
               ELSE [score |-> acc.score + ch.score, weight |-> acc.weight + ch.weight])

FlatScore(item, tr, unweighted) ==
    CASE item \in Rules ->
           IF ~Scored(tr, item) THEN NULL
           ELSE LET w == IF unweighted THEN 1 ELSE Weight[item]
                IN  [weight |-> w,
                     score  |-> IF RuleResultById(tr, item) \in PassResults THEN w ELSE 0]
      [] item \in Containers ->
           FlatFold(tr, unweighted, Content[item], [score |-> 0, weight |-> 0])
      [] OTHER -> NULL

(***************************************************************************)
(* xccdf_policy_get_score: the walk from the Benchmark for the system's    *)
(* URI; the maximum is set for the flat systems only; an unknown URI       *)
(* frees the score and returns NULL.                                       *)
(***************************************************************************)
NotSet == -1    \* the maximum of a score xccdf_policy_get_score leaves unset

GetScore(tr, scsystem) ==
    LET flat(u) == FlatScore(Root, tr, u)
    IN  CASE scsystem = DEFAULT ->
               [system |-> scsystem, score |-> DefaultScore(Root, tr).score, maximum |-> NotSet]
          [] scsystem \in {FLAT, FLAT_UNWEIGHTED} ->
               [system |-> scsystem, score |-> Frac(flat(scsystem = FLAT_UNWEIGHTED).score, 1),
                maximum |-> flat(scsystem = FLAT_UNWEIGHTED).weight]
          [] scsystem = ABSOLUTE ->
               [system |-> scsystem,
                score |-> Frac(IF flat(FALSE).score = flat(FALSE).weight THEN 1 ELSE 0, 1),
                maximum |-> flat(FALSE).weight]
          [] OTHER -> NULL

-----------------------------------------------------------------------------
(***************************************************************************)
(* Section 4.9.  A Rule counts when its result is not ignored; a child     *)
(* whose weight is 0 contributes nothing to the accumulator and is dropped *)
(* (not folded); a container counts when it folds some child.  The         *)
(* default score of a container is the weighted mean of its folded         *)
(* children, 0 when there are none; the flat score sums over the counted   *)
(* rules.                                                                  *)
(***************************************************************************)
\* The rule result the specification scores: the first one of the rule.
SpecResult(tr, r) ==
    LET ks == {k \in DOMAIN tr : tr[k].idref = r}
    IN  IF ks = {} THEN NoRuleResult ELSE tr[Min(ks)].result

SpecCounted(tr, r) == r \in Rules /\ SpecResult(tr, r) \notin IgnoredResults \cup {NoRuleResult}

RECURSIVE SpecHasCount(_, _)
SpecHasCount(tr, i) ==
    IF i \in Rules THEN SpecCounted(tr, i)
    ELSE i \in Containers /\ \E k \in DOMAIN Content[i] :
             SpecHasCount(tr, Content[i][k]) /\ Weight[Content[i][k]] > 0

\* The children a container folds.
SpecFolded(tr, c) == {Content[c][k] : k \in {k \in DOMAIN Content[c] :
                         SpecHasCount(tr, Content[c][k]) /\ Weight[Content[c][k]] > 0}}

RECURSIVE SpecDefault(_, _)
SpecDefault(tr, i) ==
    IF i \in Rules
    THEN IF SpecResult(tr, i) \in PassResults THEN Frac(100, 1) ELSE Zero
    ELSE LET kids == SpecFolded(tr, i)
         IN  IF kids = {} THEN Zero
             ELSE FracDiv(FoldSet(LAMBDA c, acc : FracAdd(FracMul(SpecDefault(tr, c), Weight[c]), acc),
                                  Zero, kids),
                          MapThenSumSet(LAMBDA c : Weight[c], kids))

SpecCountedRules(tr) == {r \in Rules : SpecCounted(tr, r)}
SpecFlatWeight(tr, u) == MapThenSumSet(LAMBDA r : IF u THEN 1 ELSE Weight[r], SpecCountedRules(tr))
SpecFlatScore(tr, u)  == MapThenSumSet(LAMBDA r : IF u THEN 1 ELSE Weight[r],
                             {r \in SpecCountedRules(tr) : SpecResult(tr, r) \in PassResults})

\* The score section 4.9 gives for the system.
SpecScore(tr, sys) ==
    CASE sys = DEFAULT -> SpecDefault(tr, Root)
      [] sys \in {FLAT, FLAT_UNWEIGHTED} -> Frac(SpecFlatScore(tr, sys = FLAT_UNWEIGHTED), 1)
      [] sys = ABSOLUTE ->
           Frac(IF SpecFlatScore(tr, FALSE) = SpecFlatWeight(tr, FALSE) THEN 1 ELSE 0, 1)
=============================================================================

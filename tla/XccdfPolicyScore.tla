-------------------------- MODULE XccdfPolicyScore --------------------------
(***************************************************************************)
(* An evaluation followed by scoring: xccdf_policy_evaluate produces the   *)
(* TestResult (XccdfPolicy), and the caller then asks                      *)
(* xccdf_policy_get_score for it under any scoring-system URI.             *)
(***************************************************************************)
EXTENDS XccdfPolicy, XccdfScore

CONSTANT ScoringSystems   \* URIs a caller may pass, supported or not

VARIABLE score   \* the last score returned, NoScore before the first call

NoScore == [system |-> "", score |-> Zero, maximum |-> NotSet]

allVars == <<vars, score>>

ScoreInit == Init /\ score = NoScore

\* A step of the evaluation; the score is not asked for meanwhile.
Evaluate == Next /\ UNCHANGED score

\* xccdf_policy_get_score on the TestResult xccdf_policy_evaluate
\* returned: after a complete or a cancelled run (a -1 returns NULL).
AskScore(scsystem) ==
    /\ pc = "done"
    /\ status \in {"complete", "cancelled"}
    /\ score' = GetScore(results, scsystem)
    /\ UNCHANGED vars

ScoreNext ==
    \/ Evaluate
    \/ \E s \in ScoringSystems : AskScore(s)

ScoreSpec == ScoreInit /\ [][ScoreNext]_allVars /\ WF_vars(Next)

-----------------------------------------------------------------------------
ScoreTypeOK ==
    /\ TypeOK
    /\ score \in [system : ScoringSystems \cup {""},
                  score : [num : Nat, den : Nat \ {0}],
                  maximum : Nat \cup {NotSet}] \cup {NULL}

\* Every score xccdf_policy_get_score returns for the TestResult of an
\* evaluation is the one section 4.9 defines for its system: the code's
\* in-order folds (first rule result by id, skipped and ignored children,
\* the normalisation guard) agree with the set-based definitions.
ScoreMatchesSpec ==
    score \notin {NoScore, NULL} => FracEq(score.score, SpecScore(results, score.system))

\* Section 8 round trip: when every rule that counts passed, and some rule
\* counts with a non-zero weight, each scoring system yields its maximum
\* (100 for the default score, the maximum for the flat ones, 1 absolute).
AllPassScoresMax ==
    LET counted == SpecCountedRules(results)
    IN  (/\ score \notin {NoScore, NULL}
         /\ \A r \in counted : SpecResult(results, r) \in PassResults
         /\ \E r \in counted : Weight[r] > 0)
        => FracEq(score.score, IF score.system = DEFAULT THEN Frac(100, 1)
                               ELSE IF score.system = ABSOLUTE THEN Frac(1, 1)
                               ELSE Frac(score.maximum, 1))
=============================================================================

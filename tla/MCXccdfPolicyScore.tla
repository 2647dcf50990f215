------------------------- MODULE MCXccdfPolicyScore -------------------------
(***************************************************************************)
(* The Benchmark of MCXccdfPolicy with weights, evaluated under a few      *)
(* profiles with engines that pass, fail or do not check and hooks that    *)
(* may cancel, then scored under every system and an unknown one.          *)
(***************************************************************************)
EXTENDS XccdfPolicyScore, MCXccdfPolicy

\* Every weight non-zero; the Benchmark's own weight is never folded.
MCWeights == [i \in {"bench", "g1", "g2", "r1", "r2", "r3"} |->
                 CASE i \in {"r1", "g2"} -> 2 [] OTHER -> 1]

\* r2 weighs 0: g2 then folds a counted child that adds no weight.
MCZeroWeights == [i \in {"bench", "g1", "g2", "r1", "r2", "r3"} |->
                     CASE i = "g2" -> 2 [] i = "r2" -> 0 [] OTHER -> 1]

\* The default profile, g1 deselected, and r3 selected.
MCScoreProfiles ==
    [selects      : { <<>>, <<[item |-> "g1", selected |-> FALSE]>>,
                      <<[item |-> "r3", selected |-> TRUE]>> },
     refineRules  : {<<>>},
     refineValues : {<<>>}]

\* Every profile of the selection run, and the score profiles.
MCSelectionScoreProfiles == MCSelectionProfiles \cup MCScoreProfiles

MCScoringSystems == {DEFAULT, FLAT, FLAT_UNWEIGHTED, ABSOLUTE, "urn:xccdf:scoring:spam"}
MCCancelHookReturns == {0, 1}
MCScoreEngineResults == {XCCDF_RESULT_PASS, XCCDF_RESULT_FAIL, XCCDF_RESULT_NOT_CHECKED}
=============================================================================

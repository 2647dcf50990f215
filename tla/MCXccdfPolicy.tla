--------------------------- MODULE MCXccdfPolicy ---------------------------
(***************************************************************************)
(* A Benchmark for checking XccdfPolicy:                                   *)
(*                                                                         *)
(*   bench                                                                 *)
(*   +- g1                (selected)                                       *)
(*   |  +- r1             (selected)  multi-check on "mc"; check "s1" on   *)
(*   |  |                             "oval", negated, exporting v1        *)
(*   |  +- g2             (selected, has a platform)                       *)
(*   |     +- r2          (selected)  negated AND complex-check of two     *)
(*   |     +- v1                      oval checks                          *)
(*   +- r3                (unselected, has a platform)                     *)
(*                                    a "sce" check (no engine) and an     *)
(*                                    oval check with two content-refs     *)
(*                                                                         *)
(* Two sets of profiles: one for the selection questions (many selects,    *)
(* no refinements), one for the hook and check protocol (refinements of   *)
(* the check and value selectors).                                         *)
(***************************************************************************)
EXTENDS XccdfPolicy

MCRoot == "bench"
MCRules == {"r1", "r2", "r3"}
MCGroups == {"g1", "g2"}
MCValues == {"v1"}
MCContent == [c \in {"bench", "g1", "g2"} |->
                 CASE c = "bench" -> <<"g1", "r3">>
                   [] c = "g1"    -> <<"r1", "g2">>
                   [] c = "g2"    -> <<"r2", "v1">>]
MCDefaultSelected == [i \in {"g1", "g2", "r1", "r2", "r3"} |-> i # "r3"]

MCNoName == "(no name)"
MCNoSelector == "(no selector)"

MCEngines == << [system |-> "oval", query |-> FALSE],
                [system |-> "mc",   query |-> TRUE],
                [system |-> "oval", query |-> FALSE] >>
MCValueIds == {"v1", "vx"}
MCValueInstances == [v \in {"v1"} |-> {MCNoSelector, "hi"}]

Simple(sys, sel, neg, multi, refs, exports) ==
    [complex |-> FALSE, oper |-> XCCDF_OPERATOR_AND, negate |-> neg,
     multicheck |-> multi, system |-> sys, selector |-> sel,
     children |-> <<>>, refs |-> refs, exports |-> exports]
Ref(h, n) == [href |-> h, name |-> n]

MCRuleChecks == [r \in {"r1", "r2", "r3"} |->
    CASE r = "r1" -> << Simple("mc", MCNoSelector, FALSE, TRUE, <<Ref("h1", MCNoName)>>, <<>>),
                        Simple("oval", "s1", TRUE, FALSE, <<Ref("h1", "d1")>>, <<"v1">>) >>
      [] r = "r2" -> <<>>
      [] r = "r3" -> << Simple("oval", MCNoSelector, FALSE, FALSE,
                               <<Ref("h2", "d1"), Ref("h1", "d2")>>, <<>>),
                        Simple("sce", MCNoSelector, FALSE, FALSE, <<Ref("s.sh", MCNoName)>>, <<>>) >>]

\* r1 with checks that have lost their content-refs.
MCRuleChecksNoRefs == [MCRuleChecks EXCEPT !["r1"] =
                          [k \in DOMAIN @ |-> [@[k] EXCEPT !.refs = <<>>]]]

MCRuleComplexChecks == [r \in {"r1", "r2", "r3"} |->
    IF r = "r2"
    THEN << [complex |-> TRUE, oper |-> XCCDF_OPERATOR_AND, negate |-> TRUE,
             multicheck |-> FALSE, system |-> "", selector |-> MCNoSelector,
             children |-> << Simple("oval", MCNoSelector, FALSE, FALSE, <<Ref("h2", "d2")>>, <<"v1">>),
                             Simple("oval", MCNoSelector, FALSE, FALSE, <<Ref("h1", "d1")>>, <<>>) >>,
             refs |-> <<>>, exports |-> <<>>] >>
    ELSE <<>>]

\* Selection: every profile of up to two selects of g1, r1, r2 and the
\* missing id "x", without refinements.
MCSelectionProfiles ==
    [selects      : BoundedSeq([item : {"g1", "r1", "r2", "x"}, selected : BOOLEAN], 2),
     refineRules  : {<<>>},
     refineValues : {<<>>}]

\* Protocol: no selects, or r2 selected first (out of Benchmark order)
\* after a missing id and a Group, with every refinement of r1's check
\* selector and of v1's selector.
MCProtocolProfiles ==
    [selects      : { <<>>,
                      <<[item |-> "x", selected |-> TRUE], [item |-> "g2", selected |-> TRUE],
                        [item |-> "r2", selected |-> TRUE]>> },
     refineRules  : { <<>>, <<[item |-> "r1", selector |-> "s1"]>>,
                      <<[item |-> "r1", selector |-> "s9"]>> },
     refineValues : { <<>>, <<[item |-> "v1", selector |-> "lo"]>>,
                      <<[item |-> "v1", selector |-> "lo"], [item |-> "v1", selector |-> "hi"]>> }]

MCPlatformItems == {"g2", "r3"}
MCHookReturns == {0, 1, FATAL}
MCEngineResults == {XCCDF_RESULT_PASS, XCCDF_RESULT_FAIL, XCCDF_RESULT_ERROR,
                    XCCDF_RESULT_NOT_CHECKED, FATAL}
\* For the selection run: hooks that never cancel and engines that pass.
MCQuietHookReturns == {0}
MCPassingEngineResults == {XCCDF_RESULT_PASS}
MCNameLists == { <<>>, <<"d1", "d2">> }
MCUninitValues == {0}
\* What a never-assigned int on the stack may hold: 0, a leftover valid
\* result, or anything else.
MCGarbageValues == {0, XCCDF_RESULT_PASS, 42}
=============================================================================

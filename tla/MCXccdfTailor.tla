---------------------------- MODULE MCXccdfTailor ----------------------------
(***************************************************************************)
(* A Benchmark for tailoring, substitution and value bindings:             *)
(*                                                                         *)
(*   bench                                                                 *)
(*   +- g1                                                                 *)
(*   |  +- r1                                                              *)
(*   |  +- v1   instances: default "5", selector hi "9"; operator equals   *)
(*   +- v2      instances: selector lo "1" only (no default instance)      *)
(*                                                                         *)
(* and the plain-text t1.  Three profiles: P1 refines v1 to "hi" with      *)
(* operator less, refines r1's weight and then an id that names no item    *)
(* (resolve fails after changing r1); P2 sets v1 twice and refines it      *)
(* twice (first and last match differ) and refines g1 without a weight; P3 *)
(* sets v2, refines v1 to "zz", a selector that names no instance, and    *)
(* refines g1's weight (resolve fails on it).  The Benchmark holds one or  *)
(* two of the profiles; xccdf_policy_model_new puts the default policy,    *)
(* with an empty profile and a NULL id, before their policies.             *)
(***************************************************************************)
EXTENDS XccdfTailor

MCRoot == "bench"
MCRules == {"r1"}
MCGroups == {"g1"}
MCValues == {"v1", "v2"}
MCContent == [c \in {"bench", "g1"} |->
                 IF c = "bench" THEN <<"g1", "v2">> ELSE <<"r1", "v1">>]
MCDefaultSelected == [i \in {"g1", "r1"} |-> TRUE]

MCOpers == {"equals", "less", "greater"}
MCItemAttrs == [i \in {"g1", "r1"} |-> [weight |-> 1, severity |-> "medium", role |-> "full"]]
MCValueDefs ==
    [v \in MCValues |->
        IF v = "v1"
        THEN [oper |-> "equals",
              instances |-> <<[selector |-> NoSelector, value |-> "5", defval |-> "5"],
                              [selector |-> "hi", value |-> "9", defval |-> "9"]>>]
        ELSE [oper |-> "equals",
              instances |-> <<[selector |-> "lo", value |-> "1", defval |-> "1"]>>]]
MCPlainTexts == [t \in {"t1"} |-> "text one"]
MCSubstIds == {"v1", "v2", "t1", "r1"}

SV(i, val) == [item |-> i, value |-> val]
RV(i, sel, op) == [item |-> i, selector |-> sel, oper |-> op]
RR(i, w) == [item |-> i, weight |-> w, severity |-> Undefined, role |-> Undefined]

P1 == [id |-> "p1", setvalues |-> <<>>,
       refineValues |-> <<RV("v1", "hi", "less")>>,
       refineRules |-> <<RR("r1", 2), RR("rx", Undefined)>>]
P2 == [id |-> "p2", setvalues |-> <<SV("v1", "7"), SV("v1", "9")>>,
       refineValues |-> <<RV("v1", NoSelector, "greater"), RV("v1", "hi", "less")>>,
       refineRules |-> <<RR("g1", Undefined)>>]
P3 == [id |-> "p3", setvalues |-> <<SV("v2", "3")>>,
       refineValues |-> <<RV("v1", "zz", "less")>>,
       refineRules |-> <<RR("g1", 3)>>]

\* Benchmarks with one or two of the profiles, in either order.
MCProfileLists ==
    {<<a>> : a \in {P1, P2, P3}} \cup {<<a, b>> \in {P1, P2, P3} \X {P1, P2, P3} : a # b}
MCLookupIds == {NoId, "p1", "p2", "p3"}
=============================================================================

---------------------------- MODULE MCXccdfFiles ----------------------------
(***************************************************************************)
(* A Benchmark for the files lists:                                        *)
(*                                                                         *)
(*   bench                                                                 *)
(*   +- g1                                                                 *)
(*   |  +- r1                                                              *)
(*   |  +- g2                                                              *)
(*   |     +- r2                                                           *)
(*   +- r3                                                                 *)
(*                                                                         *)
(* Each Rule takes one of four check lists, built from an oval check of    *)
(* two hrefs, an sce check of h1 (the same href under another system), and *)
(* a complex check nesting a complex check, so that hrefs repeat within a  *)
(* check list, across Rules, across Groups and across systems.             *)
(***************************************************************************)
EXTENDS XccdfFiles

MCRoot == "bench"
MCRules == {"r1", "r2", "r3"}
MCGroups == {"g1", "g2"}
MCValues == {}
MCContent == [c \in {"bench", "g1", "g2"} |->
                 CASE c = "bench" -> <<"g1", "r3">>
                   [] c = "g1"    -> <<"r1", "g2">>
                   [] c = "g2"    -> <<"r2">>]
MCDefaultSelected == [i \in {"g1", "g2", "r1", "r2", "r3"} |-> TRUE]

FSimple(sys, hrefs) ==
    [complex |-> FALSE, system |-> sys, children |-> <<>>,
     refs |-> [k \in DOMAIN hrefs |-> [href |-> hrefs[k]]]]
FComplex(kids) ==
    [complex |-> TRUE, system |-> "", children |-> kids, refs |-> <<>>]

OvalA == FSimple("oval", <<"h1", "h2">>)
SceB  == FSimple("sce", <<"h1">>)
CplxC == FComplex(<<FComplex(<<FSimple("oval", <<"h2">>), SceB>>), FSimple("oval", <<"h3">>)>>)

MCCheckLists == {<<>>, <<OvalA>>, <<SceB, CplxC>>, <<CplxC, OvalA>>}
MCCheckChoices == [MCRules -> MCCheckLists]
MCSystems == {"oval", "sce"}
MCHrefs == {"h1", "h2", "h3"}
=============================================================================

----------------------------- MODULE MCXccdfCpe -----------------------------
(***************************************************************************)
(* A Benchmark with platforms for checking XccdfCpe:                       *)
(*                                                                         *)
(*   bench                                                                 *)
(*   +- g    platforms #p1                                                 *)
(*   |  +- r1  platforms cpe:/o:y, #p2                                     *)
(*   +- r2   platforms cpe:/o:y                                            *)
(*   +- r3   platforms #p2                                                 *)
(*                                                                         *)
(* Embedded dictionary DE (origin in "."): x -> a.xml#d1;                  *)
(*   y -> missing.xml#d1, a.xml#d2.                                        *)
(* External dictionary D1 (origin in MCDictDir): y -> b.xml#d1,            *)
(*   z -> b.xml#d2.                                                        *)
(* Embedded language model LE: p1 = name x, or check b.xml#d2.             *)
(* External language model L1: p2 = name z.                                *)
(* So a file is reached by a dictionary directly and through a language   *)
(* model, one href is missing, and r1 depends on its Group's platform.     *)
(***************************************************************************)
EXTENDS XccdfCpe

MCRoot == "bench"
MCRules == {"r1", "r2", "r3"}
MCGroups == {"g"}
MCContent == [c \in {"bench", "g"} |-> IF c = "bench" THEN <<"g", "r2", "r3">> ELSE <<"r1">>]
MCDefaultSelected == [i \in {"g", "r1", "r2", "r3"} |-> TRUE]

Plat(h, id) == [hash |-> h, id |-> id]
MCPlatforms == [i \in {"bench", "g", "r1", "r2", "r3"} |->
    CASE i = "g"  -> <<Plat(TRUE, "p1")>>
      [] i = "r1" -> <<Plat(FALSE, "cpe:/o:y"), Plat(TRUE, "p2")>>
      [] i = "r2" -> <<Plat(FALSE, "cpe:/o:y")>>
      [] i = "r3" -> <<Plat(TRUE, "p2")>>
      [] OTHER    -> <<>>]
MCCpeNames == {"cpe:/o:x", "cpe:/o:y", "cpe:/o:z"}
MCPlatformIds == {"p1", "p2"}

Chk(h, d) == [href |-> h, def |-> d]

\* Where the external dictionary's file lies: "." (the working directory)
\* or "dicts".
MCDictDirHere == "."
MCDictDirElsewhere == "dicts"

Dictionaries(dir) ==
    [d \in {"DE", "D1"} |->
        IF d = "DE"
        THEN [origin |-> [dir |-> ".", file |-> "bench.xml"],
              entries |-> [n \in {"cpe:/o:x", "cpe:/o:y"} |->
                             IF n = "cpe:/o:x" THEN <<Chk("a.xml", "d1")>>
                             ELSE <<Chk("missing.xml", "d1"), Chk("a.xml", "d2")>>]]
        ELSE [origin |-> [dir |-> dir, file |-> "dict.xml"],
              entries |-> [n \in {"cpe:/o:y", "cpe:/o:z"} |->
                             IF n = "cpe:/o:y" THEN <<Chk("b.xml", "d1")>>
                             ELSE <<Chk("b.xml", "d2")>>]]]
MCDictsHere == Dictionaries(MCDictDirHere)
MCDictsElsewhere == Dictionaries(MCDictDirElsewhere)

MCLangModels ==
    [m \in {"LE", "L1"} |->
        IF m = "LE"
        THEN [p \in {"p1"} |-> << [kind |-> "name", name |-> "cpe:/o:x"],
                                   [kind |-> "check", href |-> "b.xml", def |-> "d2"] >>]
        ELSE [p \in {"p2"} |-> << [kind |-> "name", name |-> "cpe:/o:z"] >>]]

\* The OVAL files on disk: next to the dictionaries.
MCFilesHere == {<<".", "a.xml">>, <<".", "b.xml">>}
MCFilesElsewhere == {<<".", "a.xml">>, <<"dicts", "b.xml">>}

MCDefs == {"d1", "d2"}
=============================================================================

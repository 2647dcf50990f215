------------------------------ MODULE XccdfCpe ------------------------------
(***************************************************************************)
(* CPE applicability of xccdf_policy.c: xccdf_policy_model_item_is_applicable *)
(* over its four sources (embedded language model, external language       *)
(* models, embedded dictionary, external dictionaries), the dictionary and *)
(* language-model walks over an item's platforms, and the OVAL session     *)
(* cache of _xccdf_policy_cpe_check_cb, keyed by the (prefixed) href.      *)
(*                                                                         *)
(* One call of xccdf_policy_model_item_is_applicable is one step: it runs  *)
(* to completion on the caller's thread.  The cache and the log of OVAL    *)
(* imports are threaded through the walk as a record st = [sessions,      *)
(* loads]; every walk returns [val, st].                                   *)
(*                                                                         *)
(* The CPE library (name matching in a dictionary, platform tests of a     *)
(* language model) is not in this repository: it is modelled from the     *)
(* specification, as "the first matching check / fact that is true, in     *)
(* order".  What the target's OVAL definitions evaluate to is an oracle    *)
(* fixed at Init (defTrue).                                                *)
(***************************************************************************)
EXTENDS XccdfSelect

CONSTANTS
    Platforms,      \* [Items \cup {Root} -> Seq([hash : BOOLEAN, id])]: @platform values in order
    CpeNames,       \* platform strings that are valid CPE names
    PlatformIds,    \* ids of language-model platforms
    Dicts,          \* [dict id -> [origin : [dir, file], entries : [names -> Seq([href, def])]]]
    LangModels,     \* [model id -> [platform ids -> Seq(fact)]], fact = [kind, name] or [kind, href, def]
    EmbeddedDict,   \* the Benchmark's dictionary id, or NoSource
    EmbeddedLangModel, \* the Benchmark's language model id, or NoSource
    NoSource,
    OvalFiles,      \* files that exist: <<dir, href>>
    Defs,           \* OVAL definition ids
    MaxCalls,       \* bound on the calls of xccdf_policy_model_item_is_applicable
    MaxSources      \* bound on the external dictionaries / language models added

VARIABLES
    cpeDicts,       \* model->cpe_dicts
    cpeLangModels,  \* model->cpe_lang_models
    sessions,       \* keys of model->cpe_oval_sessions
    loads,          \* every oval_definition_model_import, in order (history)
    defTrue,        \* [OvalFiles \X Defs -> BOOLEAN]: the target's definition results
    calls,          \* applicability calls made
    last            \* [item, val] of the last call

vars == <<cpeDicts, cpeLangModels, sessions, loads, defTrue, calls, last>>

\* Mutant: the origin file itself used as the directory.
OriginAsDir(origin) == origin.file

\* dirname() of a dictionary's origin file; "." for none.
DirName(origin) == origin.dir

\* A cache key: the href joined to a directory, "" when used as given.
Key(prefix, href) == <<prefix, href>>

\* The file a key opens: an href used as given is relative to the working
\* directory ".", so "./h" and "h" name the same file.
FileOf(key) == <<IF key[1] = "" THEN "." ELSE key[1], key[2]>>

Val(v, st) == [val |-> v, st |-> st]

\* The "while (!ret && has_more)" / "if (applicable) break" loops: the first
\* element of xs that is true, the state threaded along.  ctx names the
\* walk (the loop body) and its fixed arguments; Step runs one body.
RECURSIVE FirstTrue(_, _, _)

(***************************************************************************)
(* _xccdf_policy_cpe_check_cb: look the key up in the session cache; on a  *)
(* miss import the file, and cache the session only if the import worked. *)
(* The definition's result is then read from the session.                  *)
(***************************************************************************)
\* Mutant: the imported session is not added to the table.
CheckCbNoCache(st, key, def) ==
    IF key \in st.sessions THEN Val(defTrue[FileOf(key), def], st)
    ELSE LET st2 == [st EXCEPT !.loads = Append(@, key)]
         IN  IF FileOf(key) \in OvalFiles THEN Val(defTrue[FileOf(key), def], st2)
             ELSE Val(FALSE, st2)

CheckCb(st, key, def) ==
    IF key \in st.sessions THEN Val(defTrue[FileOf(key), def], st)
    ELSE LET st2 == [st EXCEPT !.loads = Append(@, key)]
         IN  IF FileOf(key) \in OvalFiles
             THEN Val(defTrue[FileOf(key), def], [st2 EXCEPT !.sessions = @ \cup {key}])
             ELSE Val(FALSE, st2)

\* cpe_name_applicable_dict (CPE library): the checks of the dictionary's
\* entry for the name, in order, until one is true; prefix is the usr's
\* "dict" (its directory) or "" when usr carries a language model.
DictApplicable(st, d, name, prefix) ==
    IF name \notin DOMAIN Dicts[d].entries THEN Val(FALSE, st)
    ELSE FirstTrue(st, Dicts[d].entries[name], [walk |-> "check", prefix |-> prefix])

\* The embedded dictionary, if any, then the external ones.
AllDicts == (IF EmbeddedDict = NoSource THEN <<>> ELSE <<EmbeddedDict>>) \o cpeDicts

\* _xccdf_policy_cpe_dict_cb: a CPE name inside a language-model test, with
\* the usr of the language model (dict = NULL).
DictCb(st, name) == FirstTrue(st, AllDicts, [walk |-> "dict", name |-> name])

\* cpe_platform_applicable_lang_model (CPE library): the platform's facts in
\* order until one is true; a name goes to the dictionary callback, a check
\* to the check callback with the language model's usr.
Fact(st, f) ==
    IF f.kind = "name" THEN DictCb(st, f.name)
    ELSE CheckCb(st, Key("", f.href), f.def)

PlatformApplicableLang(st, lm, pid) ==
    IF pid \notin DOMAIN LangModels[lm] THEN Val(FALSE, st)
    ELSE FirstTrue(st, LangModels[lm][pid], [walk |-> "fact"])

\* cpe_name_check: only a platform without '#' can be a CPE name.
IsCpeName(p) == ~p.hash /\ p.id \in CpeNames

\* xccdf_policy_model_item_is_applicable_dict: each platform that is a CPE
\* name against the dictionary, usr = this dictionary.
ItemApplicableDict(st, d, item) ==
    FirstTrue(st, SelectSeq(Platforms[item], IsCpeName), [walk |-> "dictplatform", dict |-> d])

\* xccdf_policy_model_item_is_applicable_lang_model: each platform, its '#'
\* skipped, as a platform of the language model.
ItemApplicableLang(st, lm, item) ==
    FirstTrue(st, Platforms[item], [walk |-> "langplatform", lm |-> lm])

\* The four sources in the order the code tries them.
LangSources == (IF EmbeddedLangModel = NoSource THEN <<>> ELSE <<EmbeddedLangModel>>) \o cpeLangModels

Sources ==
    [k \in DOMAIN LangSources |-> [kind |-> "lang", id |-> LangSources[k]]]
    \o [k \in DOMAIN AllDicts |-> [kind |-> "dict", id |-> AllDicts[k]]]

Source(st, item, s) ==
    IF s.kind = "lang" THEN ItemApplicableLang(st, s.id, item)
    ELSE ItemApplicableDict(st, s.id, item)

\* One body of a FirstTrue loop.
Step(st, x, ctx) ==
    CASE ctx.walk = "check"        -> CheckCb(st, Key(ctx.prefix, x.href), x.def)
      [] ctx.walk = "dict"         -> DictApplicable(st, x, ctx.name, "")
      [] ctx.walk = "fact"         -> Fact(st, x)
      [] ctx.walk = "dictplatform" -> DictApplicable(st, ctx.dict, x.id, DirName(Dicts[ctx.dict].origin))
      [] ctx.walk = "langplatform" -> PlatformApplicableLang(st, ctx.lm, x.id)
      [] ctx.walk = "source"       -> Source(st, ctx.item, x)

FirstTrue(st, xs, ctx) ==
    IF xs = <<>> THEN Val(FALSE, st)
    ELSE LET r == Step(st, Head(xs), ctx)
         IN  IF r.val THEN r ELSE FirstTrue(r.st, Tail(xs), ctx)

(***************************************************************************)
(* xccdf_policy_model_item_is_applicable: the parent first (the Benchmark  *)
(* has none); an item without platforms is applicable; else the first     *)
(* source that finds a platform applicable.                                *)
(***************************************************************************)
\* Mutant: the parent's applicability is not consulted.
ItemApplicableNoParent(st, item) ==
    IF Platforms[item] = <<>> THEN Val(TRUE, st)
    ELSE FirstTrue(st, Sources, [walk |-> "source", item |-> item])

RECURSIVE ItemApplicable(_, _)
ItemApplicable(st, item) ==
    LET pr == IF item = Root THEN Val(TRUE, st) ELSE ItemApplicable(st, Parent(item))
    IN  CASE ~pr.val                 -> pr
          [] Platforms[item] = <<>>  -> Val(TRUE, pr.st)
          [] OTHER                   -> FirstTrue(pr.st, Sources, [walk |-> "source", item |-> item])

-----------------------------------------------------------------------------
(***************************************************************************)
(* Specification 4.5: an item is applicable iff its parent is and it has  *)
(* no platform or some platform resolves to true in some source; a check  *)
(* of a dictionary is found relative to the dictionary's directory, a      *)
(* check of a language model as given.  No cache: a check is true iff    *)
(* its file exists and the definition is true on the target.              *)
(***************************************************************************)
SpecCheck(key, def) == FileOf(key) \in OvalFiles /\ defTrue[FileOf(key), def]

SpecNameInDict(d, name) ==
    /\ name \in DOMAIN Dicts[d].entries
    /\ \E c \in Range(Dicts[d].entries[name]) :
          SpecCheck(Key(DirName(Dicts[d].origin), c.href), c.def)

SpecFact(f) ==
    IF f.kind = "name" THEN \E d \in Range(AllDicts) : SpecNameInDict(d, f.name)
    ELSE SpecCheck(Key("", f.href), f.def)

SpecPlatform(p) ==
    \/ \E lm \in Range(LangSources) :
          /\ p.id \in DOMAIN LangModels[lm]
          /\ \E f \in Range(LangModels[lm][p.id]) : SpecFact(f)
    \/ IsCpeName(p) /\ \E d \in Range(AllDicts) : SpecNameInDict(d, p.id)

RECURSIVE SpecItemApplicable(_)
SpecItemApplicable(item) ==
    /\ item = Root \/ SpecItemApplicable(Parent(item))
    /\ Platforms[item] = <<>> \/ \E p \in Range(Platforms[item]) : SpecPlatform(p)

-----------------------------------------------------------------------------
VARIABLE freed   \* xccdf_policy_model_free has run

allVars == <<vars, freed>>

\* xccdf_policy_model_new: empty source lists and an empty session table.
Init ==
    /\ cpeDicts = <<>>
    /\ cpeLangModels = <<>>
    /\ sessions = {}
    /\ loads = <<>>
    /\ defTrue \in [OvalFiles \X Defs -> BOOLEAN]
    /\ calls = 0
    /\ last = [item |-> Root, val |-> TRUE, spec |-> TRUE]
    /\ freed = FALSE

\* xccdf_policy_model_add_cpe_dict: the imported dictionary is appended.
AddCpeDict(d) ==
    /\ ~freed
    /\ Len(cpeDicts) < MaxSources
    /\ cpeDicts' = Append(cpeDicts, d)
    /\ UNCHANGED <<cpeLangModels, sessions, loads, defTrue, calls, last, freed>>

\* xccdf_policy_model_add_cpe_lang_model
AddCpeLangModel(lm) ==
    /\ ~freed
    /\ Len(cpeLangModels) < MaxSources
    /\ cpeLangModels' = Append(cpeLangModels, lm)
    /\ UNCHANGED <<cpeDicts, sessions, loads, defTrue, calls, last, freed>>

\* One call of xccdf_policy_model_item_is_applicable, as the rule runner
\* makes it for a Rule; last.spec records the specification's verdict.
IsApplicable(item) ==
    /\ ~freed
    /\ calls < MaxCalls
    /\ LET r == ItemApplicable([sessions |-> sessions, loads |-> loads], item)
       IN  /\ sessions' = r.st.sessions
           /\ loads' = r.st.loads
           /\ last' = [item |-> item, val |-> r.val, spec |-> SpecItemApplicable(item)]
    /\ calls' = calls + 1
    /\ UNCHANGED <<cpeDicts, cpeLangModels, defTrue, freed>>

\* xccdf_policy_model_free: the sessions are destroyed with the model.
FreeModel ==
    /\ ~freed
    /\ freed' = TRUE
    /\ sessions' = {}
    /\ cpeDicts' = <<>>
    /\ cpeLangModels' = <<>>
    /\ UNCHANGED <<loads, defTrue, calls, last>>

Next ==
    \/ \E d \in DOMAIN Dicts \ {EmbeddedDict} : AddCpeDict(d)
    \/ \E lm \in DOMAIN LangModels \ {EmbeddedLangModel} : AddCpeLangModel(lm)
    \/ \E r \in Rules : IsApplicable(r)
    \/ FreeModel

Spec == Init /\ [][Next]_allVars

-----------------------------------------------------------------------------
Keys == {"", "."} \cup {Dicts[d].origin.dir : d \in DOMAIN Dicts}

TypeOK ==
    /\ cpeDicts \in Seq(DOMAIN Dicts)
    /\ cpeLangModels \in Seq(DOMAIN LangModels)
    /\ \A k \in sessions : k[1] \in Keys /\ k[2] \in STRING
    /\ \A k \in DOMAIN loads : loads[k][1] \in Keys /\ loads[k][2] \in STRING
    /\ calls \in 0..MaxCalls
    /\ last.item \in Items \cup {Root} /\ last.val \in BOOLEAN
    /\ freed \in BOOLEAN

\* The verdict of xccdf_policy_model_item_is_applicable, through the four
\* sources, the two walks, the language model's dictionary callback and
\* the session cache, is the one section 4.5 defines.
ApplicabilityMatchesSpec == last.val = last.spec

\* The session cache of _xccdf_policy_cpe_check_cb works per key: an href
\* whose import succeeded is never imported again; only failed imports
\* (never cached) are repeated.
ImportOncePerKey ==
    \A i, j \in DOMAIN loads :
        i < j /\ loads[i] = loads[j] => FileOf(loads[i]) \notin OvalFiles

=============================================================================

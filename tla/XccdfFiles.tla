----------------------------- MODULE XccdfFiles -----------------------------
(***************************************************************************)
(* The lists of files a Benchmark refers to, in xccdf_policy.c:            *)
(* xccdf_policy_model_get_systems_and_files (system/href pairs) and        *)
(* xccdf_policy_model_get_files (hrefs).  Both walk the Benchmark tree;    *)
(* every level builds a fresh list and copies into it, in order, each      *)
(* entry of its children's lists that it does not contain yet.  Beside     *)
(* them, the list section 4.10 describes: the pairs the Benchmark refers   *)
(* to in document order, deduplicated keeping first occurrences.           *)
(*                                                                         *)
(* The Rules' checks are a variable fixed by Init: any Benchmark of the    *)
(* given shape, with checks drawn from CheckChoices.                       *)
(***************************************************************************)
EXTENDS XccdfSelect

CONSTANTS
    CheckChoices,  \* a set of [Rules -> Seq(check)]: xccdf_rule_get_checks
    Systems,       \* the check systems the checks name
    Hrefs          \* the content-ref hrefs the checks name

VARIABLES
    checks,     \* the Benchmark's xccdf_rule_get_checks, per Rule
    sysFiles,   \* the last list get_systems_and_files returned, or NotAsked
    files       \* the last list get_files returned, or NotAsked

fileVars == <<checks, sysFiles, files>>

NotAsked == <<"not asked">>

\* Mutant: the entry built with its two strings swapped.
FileEntrySwapped(system, href) == [system |-> href, file |-> system]

\* An oscap_file_entry: the check's system name and a content-ref href.
FileEntry(system, href) == [system |-> system, file |-> href]

\* Mutant: entries compared by file only.
FileEntryCmpFileOnly(e1, e2) == e1.file = e2.file

\* xccdf_file_entry_cmp_func: equal system names and equal files.
FileEntryCmp(e1, e2) == e1.system = e2.system /\ e1.file = e2.file

\* xccdf_cmp_func: equal strings.
StrCmp(s1, s2) == s1 = s2

\* oscap_list_contains with xccdf_file_entry_cmp_func, then oscap_list_add
\* when the entry is absent.
AddAbsentEntry(list, e) ==
    IF \E k \in DOMAIN list : FileEntryCmp(list[k], e) THEN list ELSE Append(list, e)

\* The inner loop of every level: each entry of a child's list, in order.
MergeAbsentEntries(list, sub) == FoldLeft(AddAbsentEntry, list, sub)

\* oscap_list_contains with xccdf_cmp_func, then oscap_stringlist_add_string.
AddAbsentName(list, href) ==
    IF \E k \in DOMAIN list : StrCmp(list[k], href) THEN list ELSE Append(list, href)

MergeAbsentNames(list, sub) == FoldLeft(AddAbsentName, list, sub)

(***************************************************************************)
(* xccdf_check_get_systems_and_files / xccdf_item_get_systems_and_files.   *)
(* A complex check merges its children's lists; a simple one adds a pair   *)
(* per content-ref.  A Rule merges its checks' lists, the Benchmark and a  *)
(* Group their content's; any other item yields NULL.                      *)
(***************************************************************************)
NULL == <<"NULL">>

RECURSIVE CheckSystemsAndFiles(_), ItemSystemsAndFiles(_, _)

CheckSystemsAndFiles(check) ==
    IF check.complex
    THEN FoldLeft(LAMBDA acc, ch : MergeAbsentEntries(acc, CheckSystemsAndFiles(ch)),
                  <<>>, check.children)
    ELSE FoldLeft(LAMBDA acc, ref : AddAbsentEntry(acc, FileEntry(check.system, ref.href)),
                  <<>>, check.refs)

ItemSystemsAndFiles(rc, item) ==
    CASE item \in Rules ->
           FoldLeft(LAMBDA acc, c : MergeAbsentEntries(acc, CheckSystemsAndFiles(c)),
                    <<>>, rc[item])
      [] item \in Containers ->
           FoldLeft(LAMBDA acc, ch : MergeAbsentEntries(acc, ItemSystemsAndFiles(rc, ch)),
                    <<>>, Content[item])
      [] OTHER -> NULL

(***************************************************************************)
(* xccdf_check_get_files / xccdf_item_get_files: the same walk over hrefs. *)
(***************************************************************************)
RECURSIVE CheckFiles(_), ItemFiles(_, _), ItemFilesConcat(_, _)

CheckFiles(check) ==
    IF check.complex
    THEN FoldLeft(LAMBDA acc, ch : MergeAbsentNames(acc, CheckFiles(ch)),
                  <<>>, check.children)
    ELSE FoldLeft(LAMBDA acc, ref : AddAbsentName(acc, ref.href), <<>>, check.refs)

\* Mutant: a container appends its children's lists without the check.
ItemFilesConcat(rc, item) ==
    CASE item \in Rules ->
           FoldLeft(LAMBDA acc, c : MergeAbsentNames(acc, CheckFiles(c)), <<>>, rc[item])
      [] item \in Containers ->
           FoldLeft(LAMBDA acc, ch : acc \o ItemFilesConcat(rc, ch), <<>>, Content[item])
      [] OTHER -> NULL

ItemFiles(rc, item) ==
    CASE item \in Rules ->
           FoldLeft(LAMBDA acc, c : MergeAbsentNames(acc, CheckFiles(c)), <<>>, rc[item])
      [] item \in Containers ->
           FoldLeft(LAMBDA acc, ch : MergeAbsentNames(acc, ItemFiles(rc, ch)),
                    <<>>, Content[item])
      [] OTHER -> NULL

FilesInit ==
    /\ checks \in CheckChoices
    /\ sysFiles = NotAsked
    /\ files = NotAsked

\* xccdf_policy_model_get_systems_and_files: the walk from the Benchmark.
GetSystemsAndFiles ==
    /\ sysFiles' = ItemSystemsAndFiles(checks, Root)
    /\ UNCHANGED <<checks, files>>

\* xccdf_policy_model_get_files: the walk from the Benchmark.
GetFiles ==
    /\ files' = ItemFiles(checks, Root)
    /\ UNCHANGED <<checks, sysFiles>>

FilesNext == GetSystemsAndFiles \/ GetFiles

FilesSpec == FilesInit /\ [][FilesNext]_fileVars

-----------------------------------------------------------------------------
(***************************************************************************)
(* Section 4.10: the pairs the Benchmark refers to, in document order      *)
(* (pre-order over items, checks in order, a complex check's children in   *)
(* order, content-refs in order), without repeats, first occurrence kept.  *)
(***************************************************************************)
RECURSIVE SpecCheckRefs(_), SpecItemRefs(_, _)

SpecCheckRefs(check) ==
    IF check.complex
    THEN FlattenSeq([k \in DOMAIN check.children |-> SpecCheckRefs(check.children[k])])
    ELSE [k \in DOMAIN check.refs |-> FileEntry(check.system, check.refs[k].href)]

SpecItemRefs(rc, item) ==
    CASE item \in Rules -> FlattenSeq([k \in DOMAIN rc[item] |-> SpecCheckRefs(rc[item][k])])
      [] item \in Containers ->
           FlattenSeq([k \in DOMAIN Content[item] |-> SpecItemRefs(rc, Content[item][k])])
      [] OTHER -> <<>>

\* The entries of w whose value has not occurred earlier, in order.
FirstOccurrences(w) ==
    LET firsts == SetToSortSeq({k \in DOMAIN w : \A j \in 1..(k - 1) : w[j] # w[k]}, <)
    IN  [i \in DOMAIN firsts |-> w[firsts[i]]]

SpecSystemsAndFiles(rc) == FirstOccurrences(SpecItemRefs(rc, Root))

SpecFiles(rc) ==
    LET w == SpecItemRefs(rc, Root)
    IN  FirstOccurrences([k \in DOMAIN w |-> w[k].file])

-----------------------------------------------------------------------------
\* The Benchmark's checks stay those of Init; the lists hold pairs and hrefs
\* the checks name.
FilesTypeOK ==
    /\ checks \in CheckChoices
    /\ sysFiles = NotAsked \/ \A k \in DOMAIN sysFiles : sysFiles[k] \in [system : Systems, file : Hrefs]
    /\ files = NotAsked \/ \A k \in DOMAIN files : files[k] \in Hrefs

\* get_systems_and_files returns every pair the Benchmark refers to once, in
\* the order of first reference: the per-level lists, each deduplicated
\* against itself only, compose to the global first-occurrence order, and
\* one href under two systems stays two entries.
SystemsAndFilesMatchSpec ==
    sysFiles # NotAsked => sysFiles = SpecSystemsAndFiles(checks)

\* get_files returns every href the Benchmark refers to once, in the order
\* of first reference, across checks, complex checks, Rules and Groups.
FilesMatchSpec ==
    files # NotAsked => files = SpecFiles(checks)
=============================================================================

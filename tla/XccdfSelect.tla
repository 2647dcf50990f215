---------------------------- MODULE XccdfSelect ----------------------------
(***************************************************************************)
(* Selection resolution of xccdf_policy.c: the list of selects a policy    *)
(* builds in xccdf_policy_new (the profile's selects cloned in profile     *)
(* order, then xccdf_policy_resolve_item over the Benchmark tree), and the *)
(* lookups made on it.  Beside it, the selection the specification         *)
(* (section 4.4) defines from the tree alone.                              *)
(***************************************************************************)
EXTENDS Integers, Sequences, SequencesExt

CONSTANTS
    Root,            \* the Benchmark item
    Rules,           \* ids of Rule items
    Groups,          \* ids of Group items
    Values,          \* ids of Value items
    Content,         \* [Root \cup Groups -> Seq(item id)]: children in order
    DefaultSelected  \* [Rules \cup Groups -> BOOLEAN]: @selected of the item

Items      == Rules \cup Groups \cup Values
Containers == {Root} \cup Groups

\* A profile <select idref selected/>, and a list of them.
SelectEntry == [item : Items, selected : BOOLEAN]

\* The container whose content lists item i (xccdf_item_get_parent).
Parent(i) == CHOOSE c \in Containers : \E k \in DOMAIN Content[c] : Content[c][k] = i

\* Index of the first select of sels for id, 0 if none: the linear search
\* of xccdf_policy_has_select / xccdf_policy_get_select_by_id, and the hash
\* table lookup, whose oscap_htable_add keeps the first select of a key.
SelectIndex(sels, id) == SelectInSeq(sels, LAMBDA s : s.item = id)

HasSelect(sels, id) == SelectIndex(sels, id) # 0

(***************************************************************************)
(* xccdf_policy_resolve_item: a Rule gets (or updates) its select to       *)
(* "parent selected AND own select"; a Group passes FALSE down when its    *)
(* parent is unselected, else its profile select or its @selected.         *)
(***************************************************************************)
RECURSIVE ResolveItem(_, _, _), ResolveContent(_, _, _), ResolveItemIgnoringParent(_, _, _)

ResolveContent(sels, items, selected) ==
    IF items = <<>> THEN sels
    ELSE ResolveContent(ResolveItem(sels, Head(items), selected), Tail(items), selected)

\* Mutant: a Group's own select or @selected wins over an unselected parent.
ResolveItemIgnoringParent(sels, item, selected) ==
    LET k == SelectIndex(sels, item)
    IN  CASE item \in Rules ->
                IF k = 0
                THEN Append(sels, [item |-> item,
                                   selected |-> selected /\ DefaultSelected[item]])
                ELSE [sels EXCEPT ![k].selected = selected /\ @]
          [] item \in Groups ->
                ResolveContent(sels, Content[item],
                               IF k # 0 THEN sels[k].selected ELSE DefaultSelected[item])
          [] OTHER -> sels

ResolveItem(sels, item, selected) ==
    LET k == SelectIndex(sels, item)
    IN  CASE item \in Rules ->
                IF k = 0
                THEN Append(sels, [item |-> item,
                                   selected |-> selected /\ DefaultSelected[item]])
                ELSE [sels EXCEPT ![k].selected = selected /\ @]
          [] item \in Groups ->
                ResolveContent(sels, Content[item],
                               IF ~selected THEN FALSE
                               ELSE IF k # 0 THEN sels[k].selected
                               ELSE DefaultSelected[item])
          [] OTHER -> sels

\* xccdf_policy_new: clone the profile's selects, then resolve every item
\* of the Benchmark content with parent selected = TRUE.
PolicyNewSelects(profileSelects) == ResolveContent(profileSelects, Content[Root], TRUE)

\* _xccdf_policy_is_rule_selected
IsRuleSelected(sels, r) == sels[SelectIndex(sels, r)].selected

-----------------------------------------------------------------------------
(***************************************************************************)
(* Specification 4.4: a Rule is selected iff it and every enclosing Group  *)
(* is selected by the profile, or by its own @selected when the profile    *)
(* does not name it.  Defined only where the profile is unambiguous: it    *)
(* does not select and deselect the same item.                             *)
(***************************************************************************)
ProfileValues(profileSelects, id) ==
    {profileSelects[k].selected : k \in {k \in DOMAIN profileSelects : profileSelects[k].item = id}}

RECURSIVE AncestorsOrSelf(_)
AncestorsOrSelf(i) == IF i = Root THEN {} ELSE {i} \cup AncestorsOrSelf(Parent(i))

Unambiguous(profileSelects, r) ==
    \A a \in AncestorsOrSelf(r) : Cardinality(ProfileValues(profileSelects, a)) <= 1

SpecSelected(profileSelects, r) ==
    \A a \in AncestorsOrSelf(r) :
        IF ProfileValues(profileSelects, a) = {} THEN DefaultSelected[a]
        ELSE TRUE \in ProfileValues(profileSelects, a)

\* Rules in Benchmark pre-order (the order section 5 promises for results).
RECURSIVE PreOrder(_)
PreOrder(items) ==
    IF items = <<>> THEN <<>>
    ELSE LET i == Head(items)
         IN  (IF i \in Rules THEN <<i>> ELSE IF i \in Groups THEN PreOrder(Content[i]) ELSE <<>>)
             \o PreOrder(Tail(items))

RulesInOrder == PreOrder(Content[Root])
=============================================================================

----------------------------- MODULE OrderedSet -----------------------------
(***************************************************************************)
(* python/ordered_set.py: the set with an order that Collection (nodes,    *)
(* volumes, connections, peer devices) and Resource.forbidden_patterns are *)
(* made of.                                                                *)
(*                                                                         *)
(* The class keeps the same information twice: `items', a list, gives the  *)
(* order; `map', a dictionary from member to index, answers membership.    *)
(* The two are written in separate statements, and discard() removes a     *)
(* member from both without renumbering the entries behind it.             *)
(***************************************************************************)
EXTENDS SequencesExt, Naturals

CONSTANT Key            \* what can be a member

VARIABLES
    items,              \* OrderedSet.items
    map                 \* OrderedSet.map, indices count from 0

object == <<items, map>>

-----------------------------------------------------------------------------
\* __contains__ looks at the dictionary, never at the list.
Has(k) == k \in DOMAIN map

\* list.remove(): the first occurrence goes, an absent key changes nothing
\* (discard() swallows the ValueError).
FirstAt(s, k) ==
    CHOOSE i \in DOMAIN s : s[i] = k /\ \A j \in 1..(i - 1) : s[j] # k

\* Defect: removal in constant time, the last entry moves into the gap.
ListRemoveSwap(s, k) ==
    IF k \in ToSet(s)
    THEN SubSeq([s EXCEPT ![FirstAt(s, k)] = s[Len(s)]], 1, Len(s) - 1)
    ELSE s

ListRemove(s, k) == IF k \in ToSet(s) THEN RemoveAt(s, FirstAt(s, k)) ELSE s

\* __init__(iterable) adds the elements of a list without repetitions.
Numbered(s) == [k \in ToSet(s) |-> FirstAt(s, k) - 1]

-----------------------------------------------------------------------------
Empty ==
    /\ items = <<>>
    /\ map = [k \in {} |-> 0]

\* Defect: no test for membership.
AddAlways(k) ==
    /\ map' = [x \in DOMAIN map \cup {k} |->
                  IF x = k THEN Len(items) ELSE map[x]]
    /\ items' = Append(items, k)

\* Defect: discard() forgets the dictionary.
DiscardListOnly(k) ==
    /\ UNCHANGED map
    /\ items' = ListRemove(items, k)

\* add(), append(), and every element of update() and Collection.extend().
Add(k) ==
    /\ ~ Has(k)
    /\ map' = [x \in DOMAIN map \cup {k} |->
                  IF x = k THEN Len(items) ELSE map[x]]
    /\ items' = Append(items, k)

\* discard(), Collection.remove(), and every element of difference_update().
Discard(k) ==
    /\ map' = [x \in DOMAIN map \ {k} |-> map[x]]
    /\ items' = ListRemove(items, k)

\* Collection.pop(): the first member, taken out by remove().
Pop ==
    /\ items # <<>>
    /\ Has(items[1])
    /\ Discard(items[1])

\* copy(), __setstate__() and the slices of __getitem__() build a new object
\* from a part of the list; the script goes on with the new object.
Slice(i, j) ==
    /\ items' = SubSeq(items, i, j)
    /\ map' = Numbered(SubSeq(items, i, j))

Operation ==
    \/ \E k \in Key : Add(k) \/ Discard(k)
    \/ Pop
    \/ \E i \in 1..(Len(items) + 1), j \in 0..Len(items) : Slice(i, j)

SetSpec == Empty /\ [][Operation]_object

-----------------------------------------------------------------------------
\* The type of the state.
TypeOK ==
    /\ items \in Seq(Key)
    /\ map \in [DOMAIN map -> Nat]
    /\ DOMAIN map \subseteq Key

\* No member is listed twice, whatever was added, discarded and added again:
\* iterating over a collection runs a command once per node.
NoDuplicates ==
    \A i, j \in DOMAIN items : items[i] = items[j] => i = j

\* The two representations agree: `in' (the dictionary) is true of exactly the
\* members that iteration (the list) visits.
MapMatchesItems == DOMAIN map = ToSet(items)

\* discard() leaves the indices behind the removed entry as they were, so they
\* can only be too high: never lower than the real position.
IndexNeverLow == \A i \in DOMAIN items : map[items[i]] >= i - 1

\* The class implements the list of distinct members in insertion order.
Order == INSTANCE InsertionOrder WITH list <- items

OrderSpec == Order!Spec

=============================================================================

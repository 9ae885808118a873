--------------------------- MODULE InsertionOrder ---------------------------
(***************************************************************************)
(* What a collection of nodes, volumes, connections or patterns promises   *)
(* to the test scripts: it is a list of distinct members in the order in   *)
(* which they were inserted.  A script inserts a member that is absent,    *)
(* drops any member, or goes on with a slice of the list.                  *)
(***************************************************************************)
EXTENDS SequencesExt, Naturals

CONSTANT Key

VARIABLE list

Init == list = <<>>

\* A new member goes to the end.
Insert(k) ==
    /\ k \notin ToSet(list)
    /\ list' = Append(list, k)

\* The member leaves; the others keep their order.
Drop(i) == list' = RemoveAt(list, i)

\* A slice is a collection of its own.
Take(i, j) == list' = SubSeq(list, i, j)

Next ==
    \/ \E k \in Key : Insert(k)
    \/ \E i \in DOMAIN list : Drop(i)
    \/ \E i \in 1..(Len(list) + 1), j \in 0..Len(list) : Take(i, j)

Spec == Init /\ [][Next]_list
=============================================================================

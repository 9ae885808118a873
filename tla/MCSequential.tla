--------------------------- MODULE MCSequential -----------------------------
(* The two parts of the repository without concurrency, failure or time:   *)
(* the ordered set and the generator of the CI's tests.  They share        *)
(* nothing, and one of them moves in a behaviour: the set before a         *)
(* generator without versions begins, the generator with an empty set.     *)
(*                                                                         *)
(* Versions have every length around 8.4, 9.0 and 9.1, with wildcards and  *)
(* development builds; there are two test files.                           *)
EXTENDS OrderedSet, CiSelection

MCVersions ==
    {<<8, 4>>, <<8, 4, 2>>, <<9>>, <<9, 0>>, <<9, 0, 0>>, <<9, 0, 2>>,
     <<9, 1>>, <<9, 1, 0>>, <<9, 1, 2, 1>>, <<9, 2>>, <<10>>,
     <<9, Star>>, <<9, 1, Star>>, <<9, Star, 1>>, <<Star>>,
     <<9, 0, 0, Latest>>, <<9, 1, 0, Latest>>, <<9, 1, 2, Latest>>,
     <<9, 1, 0, Word>>, <<9, Latest>>}

Of(vms, min, add) ==
    [all |-> {2, 3}, selected |-> TRUE, vms |-> vms, min |-> min,
     variants_add |-> add]

Tls(min) == {[variant |-> "tls", min |-> min]}

MCConfigs ==
    {Of({2, 3}, min, Tls(v)) : min \in {None, <<9, 1>>, <<9, 1, 2>>},
                              v \in {None, <<9, 1>>, <<9, 1, 0>>}}
    \cup {Of({3}, <<9>>, {}), Of({}, None, {}),
          [Of({2}, None, {}) EXCEPT !.selected = FALSE],
          [Of({2}, None, {}) EXCEPT !.all = {}]}

-----------------------------------------------------------------------------
SetMoves ==
    /\ stage = "start"
    /\ {drbd_version, drbd_version_other} = {None}
    /\ Operation
    /\ UNCHANGED generator

GeneratorMoves == items = <<>> /\ Step /\ UNCHANGED object

Init == Empty /\ Start
Next == SetMoves \/ GeneratorMoves

Spec == Init /\ [][Next]_<<object, generator>>
=============================================================================

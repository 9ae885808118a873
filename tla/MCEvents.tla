------------------------------ MODULE MCEvents ------------------------------
(* Two nodes, the first one with DRBD 8.4, and one volume.  Of operations  *)
(* with the same form only one is used.                                    *)
EXTENDS Events

Of(name, ns, vs) == [name |-> name, nodes |-> ns, vols |-> vs]

\* Operations that leave lines behind, those that can take them, and those
\* that change the set of forbidden patterns.
MCCalls ==
    {Of("down", {"a", "b"}, {0}), Of("down", {"b"}, {0}),
     Of("up_wait", {"a", "b"}, {0}), Of("attach", {"b"}, {0}),
     Of("up_unconnected", {"b"}, {0}), Of("detach", {"a"}, {0}),
     Of("detach", {"b"}, {0}), Of("disconnect", {"a", "b"}, {0}),
     Of("disconnect", {"b"}, {0}), Of("primary_force", {"b"}, {0})}
=============================================================================

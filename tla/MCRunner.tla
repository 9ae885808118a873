------------------------------ MODULE MCRunner ------------------------------
(* Runner for TLC: two tests are run by name, or one from two test sets.   *)
(* In the file one test is excluded and one belongs to a set that needs    *)
(* more VMs than there are; of the named ones, too, one needs more VMs.    *)
EXTENDS Runner

CONSTANTS connect, verify, resync, quorum

MCFileSets == <<[vms |-> 1, tests |-> <<connect, verify>>],
                [vms |-> 2, tests |-> <<connect>>],
                [vms |-> 3, tests |-> <<quorum>>]>>
Named(t, min, max) == [name |-> t, min_nodes |-> min, max_nodes |-> max]
MCRequested == <<Named(resync, 2, 3), Named(quorum, 3, 3),
                 Named(connect, 1, 1)>>
MCExclude == {verify}
=============================================================================

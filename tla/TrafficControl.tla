--------------------------- MODULE TrafficControl ---------------------------
(***************************************************************************)
(* Delaying and throttling connections with tc, trafficcontrol.py.         *)
(*                                                                         *)
(* The state is in the kernel of the source node and outlives the test: a  *)
(* root qdisc with one class per node, and a netem qdisc under the class   *)
(* of a node that was slowed down.  One network is modelled; every node    *)
(* reaches its peers over one device.                                      *)
(***************************************************************************)
EXTENDS Naturals

CONSTANT N              \* number of nodes
ASSUME NAssumption == N \in Nat \ {0, 1}

Node == 0..(N - 1)      \* by node.id
Peers(n) == Node \ {n}

VARIABLES
    root,               \* nodes with the root qdisc
    slow                \* per node, the peers it sends to slowly

tc == <<root, slow>>

TcInit == root = {} /\ slow = [n \in Node |-> {}]

\* Defect: what is left over stays, the classes of the root qdisc and what is
\* below them included.
NewTcKeeps(n) ==
    /\ root' = root \cup {n}
    /\ UNCHANGED slow

\* TrafficControl(): a leftover qdisc is deleted, with all that is below it.
NewTc(n) ==
    /\ root' = root \cup {n}
    /\ slow' = [slow EXCEPT ![n] = {}]

\* TrafficControl() that raises after the deletion, or after the root qdisc was
\* made, without all of its filters.
NewTcFails(n) ==
    /\ root' \in {root \ {n}, root \cup {n}}
    /\ slow' = [slow EXCEPT ![n] = {}]

\* slow_down(), which fails without the root qdisc.
SlowDown(n, to) ==
    /\ n \in root
    /\ slow' = [slow EXCEPT ![n] = @ \cup {to}]
    /\ UNCHANGED root

\* remove_slow_down(), which fails if the connection is not slow.
RemoveSlowDown(n, to) ==
    /\ to \in slow[n]
    /\ slow' = [slow EXCEPT ![n] = @ \ {to}]
    /\ UNCHANGED root

\* reset(), which fails if there is nothing to delete.
ResetTc(n) ==
    /\ n \in root
    /\ root' = root \ {n}
    /\ slow' = [slow EXCEPT ![n] = {}]
=============================================================================

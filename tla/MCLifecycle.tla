---------------------------- MODULE MCLifecycle -----------------------------
(* A cluster of NumHosts hosts, for TLC.                                   *)
EXTENDS Lifecycle
=============================================================================

---------------------------- MODULE MCEndurance -----------------------------
(* Three nodes; of the timeouts only which one is longer matters.  For the *)
(* timeout of the test suite: two nodes, time in units of 30 seconds.      *)
EXTENDS Endurance
=============================================================================

---------------------------- MODULE MCConfigSync ----------------------------
(* ConfigSync for TLC.  The nodes are interchangeable: they all start as   *)
(* members, and no operation prefers one.                                  *)
EXTENDS ConfigSync, TLC

NodeSymmetry == Permutations(Node)
=============================================================================

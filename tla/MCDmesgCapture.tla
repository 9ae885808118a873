--------------------------- MODULE MCDmesgCapture ---------------------------
(* DmesgCapture for TLC; the bounds are in the configurations.             *)
EXTENDS DmesgCapture
=============================================================================

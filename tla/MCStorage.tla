----------------------------- MODULE MCStorage ------------------------------
\* Storage with up to two volumes on each kind of backend.
EXTENDS Storage
=============================================================================

---------------------------- MODULE MCNetFilter -----------------------------
\* A path to one peer with either jump target and one type of packet.
EXTENDS NetFilter
=============================================================================

----------------------------- MODULE MCKeySpace -----------------------------
EXTENDS KeySpace

=============================================================================

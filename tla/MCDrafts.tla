------------------------------ MODULE MCDrafts ------------------------------
\* Small instances of Drafts for TLC.
EXTENDS Drafts, TLC
=============================================================================

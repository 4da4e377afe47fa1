------------------------------- MODULE MCBTree -------------------------------
EXTENDS BTreeClient
=============================================================================

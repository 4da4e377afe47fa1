---------------------------- MODULE MCPoolClient ----------------------------
EXTENDS PoolClient
CONSTANTS zero, v1
MCPage == {zero, v1}
=============================================================================

----------------------------- MODULE MCGlobalLog -----------------------------
EXTENDS GlobalLog

CONSTANTS u1, u2, u3

MCUsers == {u1, u2, u3}
=============================================================================

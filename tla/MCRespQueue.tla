---------------------------- MODULE MCRespQueue ----------------------------
EXTENDS RespQueue

CONSTANTS r1, r2, none

MCItems == {r1, r2}
=============================================================================

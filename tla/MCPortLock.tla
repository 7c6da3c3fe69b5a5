----------------------------- MODULE MCPortLock -----------------------------
EXTENDS PortLock

CONSTANTS c1, c2

TwoClients == {c1, c2}
WaitingPools == {TRUE}
=============================================================================

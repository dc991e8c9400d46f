---------------------------- MODULE MCRingQueue -----------------------------
EXTENDS RingQueue, TLC

CONSTANTS k1, k2

MCKey == {k1, k2}
=============================================================================

---------------------------- MODULE MCShootdown ----------------------------
EXTENDS Shootdown

CONSTANTS c1, c2, c3, p1, p2, a1

MCThreads == {c1, c2, c3}
MCProcs == {p1, p2}
MCAddrs == {a1}
=============================================================================

---------------------------- MODULE MCClientList ----------------------------
EXTENDS ClientList

CONSTANTS p1, p2, p3, r1, u1

MCSymmetry == Permutations(Peer)
=============================================================================

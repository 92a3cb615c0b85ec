---------------------------- MODULE MC_Namespace ----------------------------
EXTENDS Namespace, TLC

CONSTANTS c1, c2, n1, n2

MC_Clients == {c1, c2}
MC_OneClient == {c1}
MC_Names == {n1, n2}

Symmetry == Permutations(MC_Clients)
=============================================================================

------------------------------ MODULE MC_FileKV ------------------------------
EXTENDS FileKV, TLC

CONSTANTS p1, p2

MC_Procs == {p1, p2}
MC_OneProc == {p1}
Symmetry == Permutations(MC_Procs)
=============================================================================

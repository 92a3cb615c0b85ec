------------------------------ MODULE MC_FileIO ------------------------------
(* Model-checking instance of FileIO: two clients, chunks of 2 bytes, so   *)
(* that a 2-byte write at offset 1 straddles two chunks, a write at offset *)
(* 3 on an empty file zero-fills across a chunk boundary, and truncates    *)
(* land both on and inside a chunk.                                        *)
EXTENDS FileIO, TLC

CONSTANTS c1, c2

MC_Clients   == {c1, c2}
MC_WriteData == {<<1>>, <<2, 2>>}
MC_Bytes     == {0, 1, 2}

\* Chunk ids as spec.md 4.1 promises them: distinct for every client and
\* call.
MC_ChunkId(c, s) == <<c, s>>

Symmetry == Permutations(MC_Clients)
=============================================================================

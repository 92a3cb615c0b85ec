---------------------------- MODULE MC_FileIOKeys ----------------------------
(* FileIO with the chunk keys gChunkidgen.NextId really composes, at the   *)
(* widths scaled down as 2 time bits, 3 sequence bits and 12-bit words.    *)
(* Every call falls in one millisecond, MsNow, whose bit SEQ_BITS is set,  *)
(* as bit 14 is set in half of all real UnixMilli() values; a write that   *)
(* puts two chunks in one millisecond is the common case.                  *)
EXTENDS MC_FileIO

Ids == INSTANCE IdGen WITH TIME_BITS <- 2, SEQ_BITS <- 3, WIDTH <- 12

MsNow == 8
LocalIds == c1 :> 5 @@ c2 :> 6

MC_NextIdChunkId(c, s) == Ids!NextId(MsNow, s, LocalIds[c])
=============================================================================

------------------------------- MODULE IdGen -------------------------------
(***************************************************************************)
(* IdGenerator.NextId (src/bangfuse/idgen.go) as an operator: a caller     *)
(* takes seq_no and increments it under ig.mut, then reads the clock and  *)
(* composes                                                                *)
(*   uint64(ms) | (seq_no << SEQ_BITS) | (local_id << (TIME_BITS+SEQ_BITS)) *)
(* The seq_no++ is the caller's state (FileIO's seq); this module is the  *)
(* arithmetic.  The bit widths are constants so that a model can scale    *)
(* them down: TLC integers are 31-bit, so WIDTH stands for the 64 of      *)
(* uint64.                                                                 *)
(***************************************************************************)
EXTENDS Naturals, Bitwise

CONSTANTS TIME_BITS, SEQ_BITS, WIDTH

\* Go's << on uint64: bits shifted past WIDTH are lost.
Shl(x, k) == (x * 2^k) % 2^WIDTH

\* The id NextId returns for a clock reading, the seq_no it took and the
\* process's local_id (getpid() ^ getClientID()).
NextId(ms, seq_no, local_id) ==
    (ms % 2^WIDTH) | Shl(seq_no, SEQ_BITS) | Shl(local_id, TIME_BITS + SEQ_BITS)

=============================================================================

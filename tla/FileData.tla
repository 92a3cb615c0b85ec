------------------------------ MODULE FileData ------------------------------
(***************************************************************************)
(* Byte-sequence helpers shared by the abstract and the detailed file      *)
(* specifications.  A file's content is a sequence over Bytes; the byte 0  *)
(* is the zero byte that Go's make([]byte, n) produces.                     *)
(***************************************************************************)
EXTENDS Naturals, Sequences

\* n zero bytes, as make([]byte, n) returns them.
Zeros(n) == [i \in 1..n |-> 0]

MinOf(a, b) == IF a <= b THEN a ELSE b
MaxOf(a, b) == IF a >= b THEN a ELSE b

\* The bytes of s with data copied over them starting at 0-based offset
\* off; s is zero-extended first when off lies beyond its end.  This is
\* what a POSIX pwrite(fd, data, off) does to a file's bytes.
Splice(s, off, data) ==
    LET base == IF off > Len(s) THEN s \o Zeros(off - Len(s)) ELSE s
    IN  [i \in 1..MaxOf(Len(base), off + Len(data)) |->
            IF off < i /\ i <= off + Len(data) THEN data[i - off] ELSE base[i]]
=============================================================================

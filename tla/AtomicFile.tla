----------------------------- MODULE AtomicFile -----------------------------
(***************************************************************************)
(* What a BangFS regular file promises its clients (spec.md sections 4.5, *)
(* 4.6 and 8): a byte sequence and a permission that change only by whole *)
(* operations.  A successful write splices its data in at its offset      *)
(* (zero-filling a gap past the end), a successful setattr shrinks the    *)
(* content to a prefix and/or replaces the permission bits, and a failed  *)
(* operation changes nothing.  Every client operation is one atomic step. *)
(* Unlink removes the name: from then on the file is no one's to change.  *)
(***************************************************************************)
EXTENDS FileData

CONSTANTS Bytes,      \* the byte values a file may hold (0 among them)
          WriteData,  \* the buffers clients write
          Perms,      \* permission-bit values
          MaxOff      \* largest offset a client passes to write

VARIABLES content, perm,
          exists   \* the file still has its name

vars == <<content, perm, exists>>

Init == /\ content = <<>>
        /\ perm \in Perms
        /\ exists = TRUE

\* pwrite(data, off), or an O_APPEND write, which writes at the end.
Write == \E data \in WriteData, off \in 0..MaxOff \cup {Len(content)}:
            /\ exists
            /\ content' = Splice(content, off, data)
            /\ UNCHANGED <<perm, exists>>

\* setattr: an optional shrink to a prefix and an optional chmod.
Setattr == \E sz \in 0..Len(content), p \in Perms:
              /\ exists
              /\ content' = SubSeq(content, 1, sz)
              /\ perm' = p
              /\ UNCHANGED exists

\* unlink: the name goes, and with it the bytes and the permission it led
\* to; what an open descriptor still does to the file is no longer
\* observable by name.
Unlink == /\ exists
          /\ exists' = FALSE
          /\ content' = <<>>
          /\ perm' \in Perms

Next == Write \/ Setattr \/ Unlink

Spec == Init /\ [][Next]_vars
=============================================================================

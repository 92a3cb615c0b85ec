------------------------------- MODULE DirTree -------------------------------
(***************************************************************************)
(* What the BangFS namespace promises (spec.md 2.3, 4.4, 8): a tree of     *)
(* named files and directories reachable from the root, changed by atomic *)
(* operations.  Create and mkdir add a name that is free in an existing   *)
(* directory; unlink removes a file; rmdir removes an empty directory.  A *)
(* failed operation changes nothing.  A node is its path from the root    *)
(* and its type.                                                          *)
(***************************************************************************)
EXTENDS Naturals, Sequences

CONSTANT Names

VARIABLE tree   \* the set of <<path, type>> reachable from the root

Paths == {n[1] : n \in tree}

Init == tree = {<<<<>>, "dir">>}

\* create or mkdir of name x in directory p.
Make == \E n \in tree, x \in Names, type \in {"file", "dir"} :
           /\ n[2] = "dir"
           /\ Append(n[1], x) \notin Paths
           /\ tree' = tree \cup {<<Append(n[1], x), type>>}

\* unlink of a file, or rmdir of a directory with no entries.
Remove == \E n \in tree :
             /\ n[1] # <<>>
             /\ \A m \in tree : Len(m[1]) > Len(n[1]) => SubSeq(m[1], 1, Len(n[1])) # n[1]
             /\ tree' = tree \ {n}

Spec == Init /\ [][Make \/ Remove]_tree
=============================================================================

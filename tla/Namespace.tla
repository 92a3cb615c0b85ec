------------------------------ MODULE Namespace ------------------------------
(***************************************************************************)
(* The directory operations of BangFS (src/bangfuse/dirnode.go: Create,    *)
(* Mkdir, Rmdir, Unlink) run by several mounted clients against one        *)
(* metadata bucket with per-key version tokens.                            *)
(*                                                                         *)
(* Every backend call is one step.  The kernel resolves names before it    *)
(* calls rmdir or unlink: it sends rmdir only for a name its lookup found  *)
(* to be a directory and unlink only for a file, so each of them begins    *)
(* with that lookup; another client may change the name before the        *)
(* operation's own fetch.  Within one mount the kernel locks the parent    *)
(* directory around these operations, so a client runs one at a time.     *)
(* A create or mkdir whose name exists returns EEXIST with no effect, so   *)
(* it is not an action.  Lookup and Readdir only read.  Files here hold no *)
(* chunks: Unlink's chunk deletions are the subject of FileIO.             *)
(***************************************************************************)
EXTENDS Naturals, Sequences, SequencesExt, FiniteSets

CONSTANTS Clients,    \* the mounted BangFS processes
          Names,      \* file names clients use
          Root,       \* inode 0
          MaxOps,     \* bound: operations started, over all clients
          MaxFaults   \* bound: backend calls that fail

VARIABLES
    md,       \* the metadata bucket: inode -> InodeMeta
    ver,      \* ver[i]: the version token of md[i]
    nextIno,  \* gInumgen: the next inode number NextId returns
    op,       \* op[c]: the operation client c is executing
    ops,      \* operations started
    faults    \* backend calls that failed

vars == <<md, ver, nextIno, op, ops, faults>>

Entry == [name: Names, ino: Nat]
Rec   == [name: Names \cup {"/"}, parent: Nat, type: {"dir", "file"},
          nlink: Nat, children: Seq(Entry)]
Idle  == [kind |-> "idle"]

Busy(c) == op[c].kind # "idle"
IsDir(i) == i \in DOMAIN md /\ md[i].type = "dir"

\* The entry named n in directory record r, if any.
EntriesNamed(r, n) == {r.children[k] : k \in {k \in 1..Len(r.children) : r.children[k].name = n}}

\* r's children without the entries named n (the loops of Rmdir and Unlink).
Without(r, n) == SelectSeq(r.children, LAMBDA e : e.name # n)

\* Create's and Mkdir's scan of the fetched parent for an entry named n
\* (EEXIST when found).
NameFreeAlways(r, n) == TRUE
NameFree(r, n) == EntriesNamed(r, n) = {}

\* UpdateMetadata / DeleteMetadata with a token: applied only if record i
\* exists and still has that version (IfNotModified).
CasOKIgnoresToken(i, token) == i \in DOMAIN md
CasOK(i, token) == i \in DOMAIN md /\ ver[i] = token

\* Rmdir's emptiness test on the fetched child.
IsEmptyAlways(r) == TRUE
IsEmpty(r) == r.children = <<>>

\* The parent record Rmdir and Unlink write back: the entry removed and,
\* for rmdir, nlink - 1.
RemovedRecordDecAlways(o) == [o.dmeta EXCEPT !.children = Without(o.dmeta, o.name),
                                             !.nlink = @ - 1]
RemovedRecord(o) == [o.dmeta EXCEPT !.children = Without(o.dmeta, o.name),
                                    !.nlink = IF o.kind = "rmdir" THEN @ - 1 ELSE @]

\* Record i removed from a function over inodes (DeleteMetadata).
Drop(f, i) == [j \in DOMAIN f \ {i} |-> f[j]]

\* The inodes reachable from the root through directory entries.
Reachable ==
    LET R[k \in 0..Cardinality(DOMAIN md)] ==
          IF k = 0 THEN {Root}
          ELSE R[k-1] \cup {e.ino : e \in UNION {EntriesNamed(md[d], n) :
                                      d \in R[k-1] \cap DOMAIN md, n \in Names}}
    IN R[Cardinality(DOMAIN md)] \cap DOMAIN md

Init ==
    /\ md = (Root :> [name |-> "/", parent |-> Root, type |-> "dir", nlink |-> 2,
                      children |-> <<>>])
    /\ ver = (Root :> 1)
    /\ nextIno = 1
    /\ op = [c \in Clients |-> Idle]
    /\ ops = 0
    /\ faults = 0

-----------------------------------------------------------------------------
(* Create and Mkdir                                                        *)

\* The kernel holds directory d from a lookup; Metadata(d); the name is
\* free; NextId; the new record.
NewEntry(c) ==
    /\ ~Busy(c) /\ ops < MaxOps
    /\ \E d \in Reachable, n \in Names, type \in {"file", "dir"} :
          /\ md[d].type = "dir"
          /\ NameFree(md[d], n)
          /\ op' = [op EXCEPT ![c] =
                      [kind |-> IF type = "dir" THEN "mkdir" ELSE "create",
                       stage |-> "put", dir |-> d, dmeta |-> md[d], dver |-> ver[d],
                       name |-> n, ino |-> nextIno,
                       rec |-> [name |-> n, parent |-> d, type |-> type,
                                nlink |-> IF type = "dir" THEN 2 ELSE 1,
                                children |-> <<>>]]]
    /\ nextIno' = nextIno + 1
    /\ ops' = ops + 1
    /\ UNCHANGED <<md, ver, faults>>

\* PutMetadata that stores the record but not its version.
PutNewWithoutVersion(c) ==
    LET o == op[c] IN
    /\ o.kind \in {"create", "mkdir"} /\ o.stage = "put"
    /\ o.ino \notin DOMAIN md
    /\ md' = (o.ino :> o.rec) @@ md
    /\ op' = [op EXCEPT ![c].stage = "link"]
    /\ UNCHANGED <<ver, nextIno, ops, faults>>

\* PutMetadata(new_inum, record): insert-if-absent.
PutNew(c) ==
    LET o == op[c] IN
    /\ o.kind \in {"create", "mkdir"} /\ o.stage = "put"
    /\ o.ino \notin DOMAIN md
    /\ md' = (o.ino :> o.rec) @@ md
    /\ ver' = (o.ino :> 1) @@ ver
    /\ op' = [op EXCEPT ![c].stage = "link"]
    /\ UNCHANGED <<nextIno, ops, faults>>

\* Append (name, new_inum) to the fetched parent (mkdir: nlink + 1) and
\* UpdateMetadata with the fetched token; a conflict leaves the new record
\* orphaned and returns EIO.
LinkNew(c) ==
    LET o == op[c]
        d == o.dir
        newd == [o.dmeta EXCEPT !.children = Append(@, [name |-> o.name, ino |-> o.ino]),
                                !.nlink = IF o.kind = "mkdir" THEN @ + 1 ELSE @]
    IN
    /\ o.kind \in {"create", "mkdir"} /\ o.stage = "link"
    /\ \/ /\ CasOK(d, o.dver)
          /\ md' = [md EXCEPT ![d] = newd]
          /\ ver' = [ver EXCEPT ![d] = @ + 1]
       \/ /\ ~(CasOK(d, o.dver))
          /\ UNCHANGED <<md, ver>>
    /\ op' = [op EXCEPT ![c] = Idle]
    /\ UNCHANGED <<nextIno, ops, faults>>

-----------------------------------------------------------------------------
(* Rmdir and Unlink                                                        *)

\* The kernel's lookup finds name n in a directory d it holds with the type the
\* operation requires (rmdir: a directory, unlink: a file).
RemoveBegin(c) ==
    /\ ~Busy(c) /\ ops < MaxOps
    /\ \E d \in Reachable, n \in Names, kind \in {"rmdir", "unlink"} :
          /\ md[d].type = "dir"
          /\ \E e \in EntriesNamed(md[d], n) :
                /\ e.ino \in DOMAIN md
                /\ md[e.ino].type = IF kind = "rmdir" THEN "dir" ELSE "file"
          /\ op' = [op EXCEPT ![c] = [kind |-> kind, stage |-> "fetch_dir",
                                      dir |-> d, name |-> n, dmeta |-> md[d],
                                      dver |-> 0, ino |-> 0, cver |-> 0]]
    /\ ops' = ops + 1
    /\ UNCHANGED <<md, ver, nextIno, faults>>

\* Metadata(dir), the scan for the name; ENOENT when it is gone.
RemoveFetchDir(c) ==
    LET o == op[c]  d == o.dir IN
    /\ o.kind \in {"rmdir", "unlink"} /\ o.stage = "fetch_dir"
    /\ d \in DOMAIN md
    /\ LET found == SelectSeq(md[d].children, LAMBDA e : e.name = o.name) IN
       op' = [op EXCEPT ![c] =
                IF found = <<>> THEN Idle
                ELSE [o EXCEPT !.stage = IF o.kind = "rmdir" THEN "fetch_child" ELSE "update_dir",
                               !.dmeta = md[d], !.dver = ver[d], !.ino = Last(found).ino]]
    /\ UNCHANGED <<md, ver, nextIno, ops, faults>>

\* Rmdir: Metadata(child); ENOTEMPTY if it has children.
RmdirFetchChild(c) ==
    LET o == op[c] IN
    /\ o.kind = "rmdir" /\ o.stage = "fetch_child"
    /\ o.ino \in DOMAIN md
    /\ op' = [op EXCEPT ![c] =
                IF ~IsEmpty(md[o.ino]) THEN Idle
                ELSE [o EXCEPT !.stage = "update_dir", !.cver = ver[o.ino]]]
    /\ UNCHANGED <<md, ver, nextIno, ops, faults>>

\* UpdateMetadata(dir) without the entry (rmdir: nlink - 1); EIO on conflict.
RemoveUpdateDir(c) ==
    LET o == op[c]  d == o.dir IN
    /\ o.kind \in {"rmdir", "unlink"} /\ o.stage = "update_dir"
    /\ \/ /\ CasOK(d, o.dver)
          /\ md' = [md EXCEPT ![d] = RemovedRecord(o)]
          /\ ver' = [ver EXCEPT ![d] = @ + 1]
          /\ op' = [op EXCEPT ![c].stage =
                       IF o.kind = "rmdir" THEN "delete_child" ELSE "fetch_child"]
       \/ /\ ~(CasOK(d, o.dver))
          /\ op' = [op EXCEPT ![c] = Idle]
          /\ UNCHANGED <<md, ver>>
    /\ UNCHANGED <<nextIno, ops, faults>>

\* Unlink: Metadata(child) of the unlinked file; EIO when it is gone.
UnlinkFetchChild(c) ==
    LET o == op[c] IN
    /\ o.kind = "unlink" /\ o.stage = "fetch_child"
    /\ op' = [op EXCEPT ![c] =
                IF o.ino \in DOMAIN md
                THEN [o EXCEPT !.stage = "delete_child", !.cver = ver[o.ino]]
                ELSE Idle]
    /\ UNCHANGED <<md, ver, nextIno, ops, faults>>

\* DeleteMetadata(child, token): deletes only if the token still matches;
\* a conflict is logged and the operation still returns success.
DeleteChild(c) ==
    LET o == op[c] IN
    /\ o.kind \in {"rmdir", "unlink"} /\ o.stage = "delete_child"
    /\ IF CasOK(o.ino, o.cver)
       THEN /\ md' = Drop(md, o.ino)
            /\ ver' = Drop(ver, o.ino)
       ELSE UNCHANGED <<md, ver>>
    /\ op' = [op EXCEPT ![c] = Idle]
    /\ UNCHANGED <<nextIno, ops, faults>>

-----------------------------------------------------------------------------

\* A Metadata fetch finds no record (the directory or child was removed by
\* another client): EIO.
FetchNotFound(c) ==
    LET o == op[c] IN
    /\ \/ o.kind \in {"rmdir", "unlink"} /\ o.stage = "fetch_dir" /\ o.dir \notin DOMAIN md
       \/ o.kind = "rmdir" /\ o.stage = "fetch_child" /\ o.ino \notin DOMAIN md
    /\ op' = [op EXCEPT ![c] = Idle]
    /\ UNCHANGED <<md, ver, nextIno, ops, faults>>

\* The pending backend call fails without effect: EIO.
RpcFails(c) ==
    /\ Busy(c) /\ faults < MaxFaults
    /\ faults' = faults + 1
    /\ op' = [op EXCEPT ![c] = Idle]
    /\ UNCHANGED <<md, ver, nextIno, ops>>

Next == \E c \in Clients :
           \/ NewEntry(c) \/ PutNew(c) \/ LinkNew(c)
           \/ RemoveBegin(c) \/ RemoveFetchDir(c) \/ RmdirFetchChild(c)
           \/ RemoveUpdateDir(c) \/ UnlinkFetchChild(c) \/ DeleteChild(c)
           \/ FetchNotFound(c) \/ RpcFails(c)

Spec == Init /\ [][Next]_vars

-----------------------------------------------------------------------------
(* Properties                                                              *)

TypeOK ==
    /\ \A i \in DOMAIN md : md[i] \in Rec
    /\ DOMAIN ver = DOMAIN md /\ \A i \in DOMAIN ver : ver[i] \in Nat \ {0}
    /\ nextIno \in Nat \ {0} /\ DOMAIN md \subseteq 0..(nextIno - 1)
    /\ \A c \in Clients : op[c].kind \in {"idle", "create", "mkdir", "rmdir", "unlink"}
    /\ ops \in 0..MaxOps /\ faults \in 0..MaxFaults

\* Spec invariant 4: every entry of a reachable directory names an existing
\* record whose parent_inode is that directory.  Unlink and Rmdir CAS the
\* parent before DeleteMetadata, Create and Mkdir put the child before the
\* parent CAS; any other order leaves an entry dangling when the second call
\* fails or another client interleaves.
EntriesResolve ==
    \A d \in Reachable : \A k \in 1..Len(md[d].children) :
        LET e == md[d].children[k] IN
        e.ino \in DOMAIN md /\ md[e.ino].parent = d /\ md[e.ino].name = e.name

\* Spec invariant 5: names are unique within a directory, although Create and
\* Mkdir of one name by two clients check the fetched parent and both append.
NamesUnique ==
    \A d \in Reachable : \A j, k \in 1..Len(md[d].children) :
        j # k => md[d].children[j].name # md[d].children[k].name

\* Spec property 8, as a state invariant: a reachable directory's nlink is 2
\* plus its subdirectory entries (Mkdir's nlink++, Rmdir's nlink--).
NlinkCountsSubdirs ==
    \A d \in Reachable : md[d].type = "dir" =>
        md[d].nlink = 2 + Cardinality({k \in 1..Len(md[d].children) :
                                          IsDir(md[d].children[k].ino)})

\* Rmdir destroys only an empty directory (spec 2.3): no directory record
\* that still has entries becomes unreachable.  Rmdir checks the child's
\* emptiness at one call and CASes the parent at another.
NoDetachedSubtree ==
    \A i \in DOMAIN md : md[i].children # <<>> => i \in Reachable

\* The paths at and below inode i, reached by path p, with their types:
\* the tree Lookup walks name by name.  k bounds the depth.
RECURSIVE PathsBelow(_, _, _)
PathsBelow(i, p, k) ==
    {<<p, md[i].type>>} \cup
    IF k = 0 THEN {}
    ELSE UNION {PathsBelow(md[i].children[j].ino, Append(p, md[i].children[j].name), k - 1) :
                  j \in {j \in DOMAIN md[i].children : md[i].children[j].ino \in DOMAIN md}}

\* With one mount, the step-by-step operations of dirnode.go, with their
\* failures, orphaned records and ignored delete conflicts, change the tree
\* seen from the root only as DirTree's atomic create, mkdir, unlink and
\* rmdir do: each becomes visible at its parent CAS, and only then.
Tree == INSTANCE DirTree WITH tree <- PathsBelow(Root, <<>>, Cardinality(DOMAIN md))
DirTreeSpec == Tree!Spec

=============================================================================

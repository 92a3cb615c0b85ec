------------------------------- MODULE FileIO -------------------------------
(***************************************************************************)
(* The chunked file I/O engine of BangFS on one regular file (inode F),    *)
(* shared by several clients: src/bangfuse/fh.go (BangFH.Write, writeAt,   *)
(* readChunk, replaceChunk, appendChunk, writeMeta, resyncMetadata, Read)  *)
(* and src/bangfuse/filenode.go (Setattr with its truncate path, Open).    *)
(*                                                                         *)
(* A client is one mounted BangFS process with one open handle (BangFH) on *)
(* F.  The kernel serialises write and setattr on an inode within a mount, *)
(* so each client runs one operation at a time; clients run concurrently  *)
(* and meet only in the backend.  Every backend call of an operation is   *)
(* one step; the local computation between two calls belongs to the step  *)
(* of the call before it.  The metadata bucket is strongly consistent with *)
(* compare-and-swap on a version token; the chunks bucket is written only *)
(* under fresh keys.  A backend call may fail (a transport error or       *)
(* timeout), and a metadata update may fail after it was applied.         *)
(*                                                                         *)
(* A client may also unlink F (src/bangfuse/dirnode.go, Unlink): the      *)
(* directory side, the parent's fetch and CAS, is one step here and is    *)
(* the subject of Namespace; the file side fetches F's record, deletes    *)
(* its chunks one by one, and deletes the record with the fetched token,  *)
(* while other clients' handles stay open.                                *)
(***************************************************************************)
EXTENDS FileData, SequencesExt

CONSTANTS Clients,    \* the mounted BangFS processes
          C,          \* gChunksize, the fixed chunk size
          Bytes,      \* byte values (0 is the zero byte)
          WriteData,  \* buffers passed to write
          ReadLens,   \* lengths of the buffers passed to read
          Perms,      \* permission-bit values for chmod
          MaxOff,     \* largest offset passed to write or read
          MaxOps,     \* bound: operations started, over all clients
          MaxFaults,  \* bound: backend calls that fail
          NoHandle,   \* a client with no open handle
          ChunkId(_, _) \* ChunkId(c, s): the key client c's gChunkidgen.NextId
                        \* returns for its s-th call

ASSUME C \in Nat \ {0}
ASSUME WriteData \subseteq Seq(Bytes \ {0}) /\ <<>> \notin WriteData

VARIABLES
    meta,        \* the InodeMeta of F stored in the metadata bucket
    vclock,      \* its version token (the FileKVStore counter)
    chunkStore,  \* the chunks bucket: chunk key -> bytes
    seq,         \* seq[c]: seq_no of client c's gChunkidgen (one per process)
    fh,          \* fh[c]: client c's BangFH (Metadata, VClock, Flags)
    op,          \* op[c]: the operation client c is executing
    ops,         \* operations started (bounded by MaxOps)
    faults,      \* backend calls that failed (bounded by MaxFaults)
    lastRead,    \* lastRead[c]: result of c's last Read and the content
                 \* committed when it began (history, for ReadSeesCommitted)
    linked,      \* F's entry is still in its parent directory
    present      \* F's record is still in the metadata bucket

vars == <<meta, vclock, chunkStore, seq, fh, op, ops, faults, lastRead,
          linked, present>>

\* The chunk keys the clients' generators have returned so far.
IssuedKeys == UNION {{ChunkId(c, s) : s \in 0..seq[c] - 1} : c \in Clients}

ChunkRef == [key: IssuedKeys, size: Nat]
Meta     == [size: Nat, chunks: Seq(ChunkRef), perm: Perms]
Idle     == [kind |-> "idle"]

-----------------------------------------------------------------------------
(* Helpers                                                                 *)

\* Sum of the sizes of the first k chunk refs (the truncate walk's cumsz).
Cum(chs, k) == FoldLeft(LAMBDA acc, r : acc + r.size, 0, SubSeq(chs, 1, k))

\* The file's bytes as a record describes them: its chunk values in order.
ContentOf(m) == FlattenSeq([i \in 1..Len(m.chunks) |->
                    IF m.chunks[i].key \in DOMAIN chunkStore
                    THEN chunkStore[m.chunks[i].key] ELSE <<>>])

\* PutChunk: an unconditional insert under key k.
PutChunk(k, data) == chunkStore' = (k :> data) @@ chunkStore

Busy(c) == op[c].kind # "idle"

\* gChunkidgen.NextId: the key of client c's next chunk put, and the
\* seq_no++ taken under ig.mut in the same call.
NextKey(c) == ChunkId(c, seq[c])
NewChunkKeyStale(c) == UNCHANGED seq
NewChunkKey(c) == seq' = [seq EXCEPT ![c] = @ + 1]

\* UpdateMetadata's IfNotModified: the stored token still equals t.
\* A deleted record matches no token: the CAS returns not found.
TokenMatchesAlways(t) == TRUE
TokenMatches(t) == present /\ vclock = t

\* DeleteChunk of key k; a failure is logged and the caller goes on.
DeleteChunk(k) ==
    \/ chunkStore' = [j \in DOMAIN chunkStore \ {k} |-> chunkStore[j]]
       /\ UNCHANGED faults
    \/ faults < MaxFaults /\ faults' = faults + 1
       /\ UNCHANGED chunkStore

-----------------------------------------------------------------------------
(* Open: fetch record and token into a new handle.                         *)

Open(c) ==
    /\ ~Busy(c) /\ ops < MaxOps /\ present
    /\ \E append \in BOOLEAN:
          fh' = [fh EXCEPT ![c] = [meta |-> meta, token |-> vclock,
                                   append |-> append]]
    /\ ops' = ops + 1
    /\ UNCHANGED <<meta, vclock, chunkStore, seq, op, faults, lastRead, linked, present>>

-----------------------------------------------------------------------------
(* Write: resync, zero-fill a gap, writeAt the data chunk by chunk, CAS.   *)

\* Write's first step: resyncMetadata, the O_APPEND offset, and the start
\* of writeAt on the gap (off > filesize) or on the data.
WriteBegin(c) ==
    /\ ~Busy(c) /\ ops < MaxOps /\ fh[c] # NoHandle /\ present
    /\ \E data \in WriteData, off0 \in 0..MaxOff:
          LET filesize == meta.size
              off      == IF fh[c].append THEN filesize ELSE off0
              gap      == off > filesize
          IN  op' = [op EXCEPT ![c] =
                       [kind |-> "write", data |-> data, off |-> off,
                        gap |-> gap, filesize |-> filesize,
                        buf |-> IF gap THEN Zeros(off - filesize) ELSE data,
                        pos |-> IF gap THEN filesize ELSE off,
                        dp  |-> 0]]
    /\ fh' = [fh EXCEPT ![c].meta = meta, ![c].token = vclock]
    /\ ops' = ops + 1
    /\ UNCHANGED <<meta, vclock, chunkStore, seq, faults, lastRead, linked, present>>

WritingChunks(c) == op[c].kind = "write" /\ op[c].dp < Len(op[c].buf)

\* An iteration that never moves from the zero-filled gap to the data.
AdvanceWriteNoSwitch(w, n) == [w EXCEPT !.pos = w.pos + n, !.dp = w.dp + n]

\* After a writeAt iteration: when the gap is done, writeAt starts over on
\* the data at off (filesize becomes off).
AdvanceWrite(w, n) ==
    IF w.gap /\ w.dp + n = Len(w.buf)
    THEN [w EXCEPT !.gap = FALSE, !.filesize = w.off, !.buf = w.data,
                   !.pos = w.off, !.dp = 0]
    ELSE [w EXCEPT !.pos = w.pos + n, !.dp = w.dp + n]

\* The in-chunk position the next writeAt iteration copies to, and the
\* chunk it copies into once grown; defined when it overwrites a chunk.
WriteIdx(c)      == op[c].pos \div C
WriteOffInChk(c) == op[c].pos % C

\* writeAt's growth of a short last chunk with zeros, up to C bytes, so
\* that the copy at offset oic of rem bytes lands inside it.
Grow(existing, oic, rem) ==
    IF oic + rem > Len(existing) /\ Len(existing) < C
    THEN existing \o Zeros(MinOf(C, oic + rem) - Len(existing))
    ELSE existing

\* A replaceChunk that stores the new bytes under the chunk's own key.
ReplaceChunkInPlace(c, i, data) ==
    /\ PutChunk(fh[c].meta.chunks[i].key, data)
    /\ fh' = [fh EXCEPT ![c].meta.chunks[i].size = Len(data)]
    /\ UNCHANGED seq

\* replaceChunk: PutChunk of the new bytes under a key from NextId, then
\* the handle's ref i points at it.
ReplaceChunk(c, i, data) ==
    /\ PutChunk(NextKey(c), data)
    /\ fh' = [fh EXCEPT ![c].meta.chunks[i] = [key |-> NextKey(c), size |-> Len(data)]]
    /\ NewChunkKey(c)

\* One writeAt iteration over an existing chunk: readChunk, grow a short
\* last chunk, copy, replaceChunk under a fresh key.
OverwriteChunk(c) ==
    LET w   == op[c]
        chs == fh[c].meta.chunks
        idx == WriteIdx(c)
        oic == WriteOffInChk(c)
        rem == Len(w.buf) - w.dp
        key == chs[idx + 1].key
    IN  /\ WritingChunks(c)
        /\ idx < Len(chs)
        /\ key \in DOMAIN chunkStore
        /\ LET existing == chunkStore[key]
               grown == Grow(existing, oic, rem)
               n     == MinOf(Len(grown) - oic, rem)
               new   == [i \in 1..Len(grown) |->
                           IF oic < i /\ i <= oic + n THEN w.buf[w.dp + i - oic]
                           ELSE grown[i]]
           IN  /\ ReplaceChunk(c, idx + 1, new)
               /\ op' = [op EXCEPT ![c] = AdvanceWrite(w, n)]
        /\ UNCHANGED <<meta, vclock, ops, faults, lastRead, linked, present>>

\* One writeAt iteration past the last chunk: appendChunk of up to C bytes.
AppendChunk(c) ==
    LET w   == op[c]
        chs == fh[c].meta.chunks
        n   == MinOf(Len(w.buf) - w.dp, C)
    IN  /\ WritingChunks(c)
        /\ WriteIdx(c) >= Len(chs)
        /\ PutChunk(NextKey(c), SubSeq(w.buf, w.dp + 1, w.dp + n))
        /\ fh' = [fh EXCEPT ![c].meta.chunks =
                                Append(chs, [key |-> NextKey(c), size |-> n])]
        /\ op' = [op EXCEPT ![c] = AdvanceWrite(w, n)]
        /\ NewChunkKey(c)
        /\ UNCHANGED <<meta, vclock, ops, faults, lastRead, linked, present>>

\* A size update that sets the size to the write's end even when the write
\* ends inside the file.
WriteRecordAlwaysSets(c) == [fh[c].meta EXCEPT !.size = op[c].off + Len(op[c].data)]

\* Write's size update: the record writeMeta stores.
WriteRecord(c) ==
    LET w == op[c]  m == fh[c].meta IN
    IF w.off + Len(w.data) > w.filesize
    THEN [m EXCEPT !.size = w.off + Len(w.data)] ELSE m

WriteDone(c) == op[c].kind = "write" /\ ~op[c].gap /\ op[c].dp = Len(op[c].buf)

\* writeMeta: UpdateMetadata with the handle's token.  The handle keeps
\* its modified record whether or not the CAS succeeds.
WriteMeta(c) ==
    /\ WriteDone(c)
    /\ \/ /\ TokenMatches(fh[c].token)
          /\ meta' = WriteRecord(c)
          /\ vclock' = vclock + 1
          /\ fh' = [fh EXCEPT ![c].meta = WriteRecord(c), ![c].token = vclock + 1]
       \/ /\ ~TokenMatches(fh[c].token)
          /\ fh' = [fh EXCEPT ![c].meta = WriteRecord(c)]
          /\ UNCHANGED <<meta, vclock>>
    /\ op' = [op EXCEPT ![c] = Idle]
    /\ UNCHANGED <<chunkStore, seq, ops, faults, lastRead, linked, present>>

-----------------------------------------------------------------------------
(* Setattr: fetch, the truncate walk, an optional shortened last chunk,    *)
(* the CAS, then deletion of the stale chunks.                             *)

\* The truncate walk's result: the number of chunk refs it keeps.
Keep(chs, sz) ==
    IF \E k \in 1..Len(chs) : Cum(chs, k) >= sz
    THEN CHOOSE k \in 1..Len(chs) : Cum(chs, k) >= sz /\ \A j \in 1..k-1 : Cum(chs, j) < sz
    ELSE Len(chs)

\* Setattr's first step: Metadata, then size (truncate walk), mode, all on
\* the fetched copy.  Uid/gid and extending sizes return ENOTSUP with no
\* effect, so only shrinking sizes are passed.
SetattrBegin(c) ==
    /\ ~Busy(c) /\ ops < MaxOps /\ present
    /\ \E setsize \in BOOLEAN, sz \in 0..meta.size, setmode \in BOOLEAN, p \in Perms :
          LET chs   == meta.chunks
              keep  == Keep(chs, sz)
              start == Cum(chs, keep) - chs[keep].size
              newsz == sz - start
              trunc == setsize /\ sz # 0 /\ keep > 0 /\ newsz < chs[keep].size
              chs2  == IF ~setsize THEN chs
                       ELSE IF sz = 0 THEN <<>> ELSE SubSeq(chs, 1, keep)
              m2    == [meta EXCEPT !.chunks = chs2,
                                    !.size = IF setsize THEN sz ELSE meta.size,
                                    !.perm = IF setmode THEN p ELSE meta.perm]
          IN  op' = [op EXCEPT ![c] =
                       [kind  |-> IF trunc THEN "setattr_trunc" ELSE "setattr_commit",
                        meta  |-> m2, token |-> vclock, last |-> keep,
                        lastsize |-> IF trunc THEN newsz ELSE 0,
                        stale |-> IF setsize
                                  THEN [i \in 1..Len(chs) - keep |-> chs[keep + i].key]
                                  ELSE <<>>]]
    /\ ops' = ops + 1
    /\ UNCHANGED <<meta, vclock, chunkStore, seq, fh, faults, lastRead, linked, present>>

\* Read the last kept chunk, put its prefix under a fresh key, mark the
\* old key stale.
SetattrTruncChunk(c) ==
    LET s   == op[c]
        key == s.meta.chunks[s.last].key
    IN  /\ s.kind = "setattr_trunc"
        /\ key \in DOMAIN chunkStore
        /\ PutChunk(NextKey(c), SubSeq(chunkStore[key], 1, s.lastsize))
        /\ NewChunkKey(c)
        /\ op' = [op EXCEPT ![c].kind = "setattr_commit",
                            ![c].meta.chunks[s.last] = [key |-> NextKey(c), size |-> s.lastsize],
                            ![c].stale = Append(s.stale, key)]
        /\ UNCHANGED <<meta, vclock, fh, ops, faults, lastRead, linked, present>>

\* A commit that deletes the stale chunks whether or not its CAS succeeds.
SetattrCommitDeletesOnConflict(c) ==
    LET s == op[c] IN
    /\ s.kind = "setattr_commit"
    /\ \/ /\ TokenMatches(s.token)
          /\ meta' = s.meta
          /\ vclock' = vclock + 1
       \/ /\ ~TokenMatches(s.token)
          /\ UNCHANGED <<meta, vclock>>
    /\ op' = [op EXCEPT ![c] = IF s.stale = <<>> THEN Idle
                               ELSE [s EXCEPT !.kind = "setattr_delete"]]
    /\ UNCHANGED <<chunkStore, seq, fh, ops, faults, lastRead, linked, present>>

\* UpdateMetadata with the fetched token; stale chunks are deleted only
\* after it succeeds.
SetattrCommit(c) ==
    LET s == op[c] IN
    /\ s.kind = "setattr_commit"
    /\ \/ /\ TokenMatches(s.token)
          /\ meta' = s.meta
          /\ vclock' = vclock + 1
          /\ op' = [op EXCEPT ![c] = IF s.stale = <<>> THEN Idle
                                     ELSE [s EXCEPT !.kind = "setattr_delete"]]
       \/ /\ ~TokenMatches(s.token)
          /\ op' = [op EXCEPT ![c] = Idle]
          /\ UNCHANGED <<meta, vclock>>
    /\ UNCHANGED <<chunkStore, seq, fh, ops, faults, lastRead, linked, present>>

\* DeleteChunk of the next stale key; a failure is logged and skipped.
SetattrDeleteStale(c) ==
    LET s == op[c] IN
    /\ s.kind = "setattr_delete"
    /\ DeleteChunk(Head(s.stale))
    /\ op' = [op EXCEPT ![c] = IF Len(s.stale) = 1 THEN Idle
                               ELSE [s EXCEPT !.stale = Tail(s.stale)]]
    /\ UNCHANGED <<meta, vclock, seq, fh, ops, lastRead, linked, present>>

-----------------------------------------------------------------------------
(* Read: from the handle's record, one readChunk per overlapping chunk.    *)

\* What a read of len bytes at off returns by spec.md 4.6: the bytes of
\* the committed file (resynced), clamped to its size.
CommittedSlice(off, len) ==
    LET bytes == ContentOf(meta) IN
    IF off >= Len(bytes) THEN <<>>
    ELSE SubSeq(bytes, off + 1, MinOf(off + len, Len(bytes)))

\* Index of the first chunk ending after byte offset off.
FirstChunkAfter(chs, off) == CHOOSE i \in 1..Len(chs) : Cum(chs, i) > off /\ Cum(chs, i - 1) <= off

ReadBegin(c) ==
    /\ ~Busy(c) /\ ops < MaxOps /\ fh[c] # NoHandle
    /\ \E off \in 0..MaxOff, len \in ReadLens :
          LET m == fh[c].meta IN
          IF off >= m.size
          THEN /\ lastRead' = [lastRead EXCEPT ![c] =
                                 [got |-> <<>>, want |-> CommittedSlice(off, len)]]
               /\ UNCHANGED op
          ELSE /\ op' = [op EXCEPT ![c] =
                           [kind |-> "read", off |-> off, end |-> MinOf(off + len, m.size),
                            i |-> FirstChunkAfter(m.chunks, off), buf |-> <<>>,
                            want |-> CommittedSlice(off, len)]]
               /\ UNCHANGED lastRead
    /\ ops' = ops + 1
    /\ UNCHANGED <<meta, vclock, chunkStore, seq, fh, faults, linked, present>>

\* readChunk of the next overlapping chunk, and the slice of it in range.
ReadChunk(c) ==
    LET r    == op[c]
        chs  == fh[c].meta.chunks
        chk  == chs[r.i]
        coff == Cum(chs, r.i - 1)
        from == IF r.off > coff THEN r.off - coff ELSE 0
        to   == IF r.end < coff + chk.size THEN r.end - coff ELSE chk.size
        buf  == r.buf \o SubSeq(chunkStore[chk.key], from + 1, to)
    IN  /\ r.kind = "read"
        /\ chk.key \in DOMAIN chunkStore
        /\ IF r.i < Len(chs) /\ coff + chk.size < r.end
           THEN /\ op' = [op EXCEPT ![c].i = r.i + 1, ![c].buf = buf]
                /\ UNCHANGED lastRead
           ELSE /\ op' = [op EXCEPT ![c] = Idle]
                /\ lastRead' = [lastRead EXCEPT ![c] = [got |-> buf, want |-> r.want]]
        /\ UNCHANGED <<meta, vclock, chunkStore, seq, fh, ops, faults, linked, present>>

-----------------------------------------------------------------------------
(* Unlink: the entry leaves the directory, then the file side: Metadata,  *)
(* DeleteChunk of every listed chunk, DeleteMetadata with the token.      *)

\* The parent's fetch, entry removal and CAS (Namespace models them); F is
\* no longer reachable by name, but handles already open stay usable.
UnlinkBegin(c) ==
    /\ ~Busy(c) /\ ops < MaxOps /\ linked
    /\ linked' = FALSE
    /\ op' = [op EXCEPT ![c] = [kind |-> "unlink_fetch"]]
    /\ ops' = ops + 1
    /\ UNCHANGED <<meta, vclock, chunkStore, seq, fh, faults, lastRead, present>>

\* Metadata of the unlinked file: its chunk keys and token; EIO when the
\* record is already gone.
UnlinkFetch(c) ==
    /\ op[c].kind = "unlink_fetch"
    /\ op' = [op EXCEPT ![c] =
                 IF ~present THEN Idle
                 ELSE [kind  |-> IF meta.chunks = <<>> THEN "unlink_delete"
                                 ELSE "unlink_chunks",
                       keys  |-> [i \in DOMAIN meta.chunks |-> meta.chunks[i].key],
                       token |-> vclock]]
    /\ UNCHANGED <<meta, vclock, chunkStore, seq, fh, ops, faults, lastRead,
                   linked, present>>

\* One iteration of the loop over the fetched record's chunks.
UnlinkDeleteChunk(c) ==
    LET u == op[c] IN
    /\ u.kind = "unlink_chunks"
    /\ DeleteChunk(Head(u.keys))
    /\ op' = [op EXCEPT ![c] = IF Len(u.keys) = 1 THEN [u EXCEPT !.kind = "unlink_delete"]
                               ELSE [u EXCEPT !.keys = Tail(u.keys)]]
    /\ UNCHANGED <<meta, vclock, seq, fh, ops, lastRead, linked, present>>

\* DeleteMetadata with the fetched token; a conflict is logged and Unlink
\* returns success all the same.
UnlinkDeleteMeta(c) ==
    /\ op[c].kind = "unlink_delete"
    /\ present' = (present /\ ~TokenMatches(op[c].token))
    /\ op' = [op EXCEPT ![c] = Idle]
    /\ UNCHANGED <<meta, vclock, chunkStore, seq, fh, ops, faults, lastRead, linked>>

\* The first Metadata call of Open, Write (resyncMetadata) or Setattr finds
\* the record deleted: EIO.
FetchNotFound(c) ==
    /\ ~Busy(c) /\ ops < MaxOps /\ ~present
    /\ ops' = ops + 1
    /\ UNCHANGED <<meta, vclock, chunkStore, seq, fh, op, faults, lastRead,
                   linked, present>>

-----------------------------------------------------------------------------
(* Failures of backend calls.                                              *)

\* The chunk the pending backend call reads, if it reads one.
PendingChunk(c) ==
    CASE WritingChunks(c) /\ WriteIdx(c) < Len(fh[c].meta.chunks) ->
            {fh[c].meta.chunks[WriteIdx(c) + 1].key}
      [] op[c].kind = "setattr_trunc" -> {op[c].meta.chunks[op[c].last].key}
      [] op[c].kind = "read" -> {fh[c].meta.chunks[op[c].i].key}
      [] OTHER -> {}

\* kv.Chunk finds no value (deleted by another client): EIO.
ChunkNotFound(c) ==
    /\ \E k \in PendingChunk(c) : k \notin DOMAIN chunkStore
    /\ op' = [op EXCEPT ![c] = Idle]
    /\ UNCHANGED <<meta, vclock, chunkStore, seq, fh, ops, faults, lastRead, linked, present>>

\* The pending backend call (readChunk, PutChunk, UpdateMetadata, or
\* Unlink's Metadata or DeleteMetadata) returns a transport error with no
\* effect: the operation returns EIO (a failed DeleteMetadata is logged).  The
\* handle keeps what writeAt already changed in it.
RpcFails(c) ==
    /\ op[c].kind \in {"write", "setattr_trunc", "setattr_commit", "read",
                       "unlink_fetch", "unlink_delete"}
    /\ faults < MaxFaults
    /\ faults' = faults + 1
    /\ op' = [op EXCEPT ![c] = Idle]
    /\ UNCHANGED <<meta, vclock, chunkStore, seq, fh, ops, lastRead, linked, present>>

\* UpdateMetadata is applied but its reply is lost: the operation returns
\* EIO; Write keeps its old token, Setattr deletes no stale chunk.
CommitThenFails(c) ==
    /\ faults < MaxFaults
    /\ faults' = faults + 1
    /\ \/ /\ WriteDone(c) /\ TokenMatches(fh[c].token)
          /\ meta' = WriteRecord(c)
          /\ fh' = [fh EXCEPT ![c].meta = WriteRecord(c)]
       \/ /\ op[c].kind = "setattr_commit" /\ TokenMatches(op[c].token)
          /\ meta' = op[c].meta
          /\ UNCHANGED fh
    /\ vclock' = vclock + 1
    /\ op' = [op EXCEPT ![c] = Idle]
    /\ UNCHANGED <<chunkStore, seq, ops, lastRead, linked, present>>

-----------------------------------------------------------------------------

Init ==
    /\ meta \in [size: {0}, chunks: {<<>>}, perm: Perms]
    /\ vclock = 1
    /\ chunkStore = <<>>
    /\ seq = [c \in Clients |-> 0]
    /\ fh = [c \in Clients |-> NoHandle]
    /\ op = [c \in Clients |-> Idle]
    /\ ops = 0
    /\ faults = 0
    /\ lastRead = [c \in Clients |-> [got |-> <<>>, want |-> <<>>]]
    /\ linked = TRUE
    /\ present = TRUE

\* The steps of an operation in progress; the thread runs them to the end.
Step(c) ==
    \/ OverwriteChunk(c) \/ AppendChunk(c) \/ WriteMeta(c)
    \/ SetattrTruncChunk(c) \/ SetattrCommit(c) \/ SetattrDeleteStale(c)
    \/ ReadChunk(c) \/ ChunkNotFound(c)
    \/ UnlinkFetch(c) \/ UnlinkDeleteChunk(c) \/ UnlinkDeleteMeta(c)

Next == \E c \in Clients :
           \/ Open(c) \/ WriteBegin(c) \/ SetattrBegin(c) \/ ReadBegin(c)
           \/ UnlinkBegin(c) \/ FetchNotFound(c)
           \/ Step(c) \/ RpcFails(c) \/ CommitThenFails(c)

Spec == Init /\ [][Next]_vars /\ \A c \in Clients : WF_vars(Step(c))

-----------------------------------------------------------------------------
(* Properties                                                              *)

TypeOK ==
    /\ meta \in Meta
    /\ vclock \in Nat
    /\ \A k \in DOMAIN chunkStore : k \in IssuedKeys /\ chunkStore[k] \in Seq(Bytes)
    /\ fh \in [Clients -> [meta: Meta, token: Nat, append: BOOLEAN] \cup {NoHandle}]
    /\ \A c \in Clients : op[c].kind \in {"idle", "write", "setattr_trunc",
                                          "setattr_commit", "setattr_delete", "read",
                                          "unlink_fetch", "unlink_chunks", "unlink_delete"}
    /\ ops \in 0..MaxOps /\ faults \in 0..MaxFaults
    /\ linked \in BOOLEAN /\ present \in BOOLEAN

\* spec.md 3, invariant 3: every chunk the committed record of a linked
\* file lists exists, with the size the record gives it.  Holds only if
\* Write and Setattr put chunks before the CAS that publishes them and
\* delete stale chunks only after the CAS that unpublishes them, and Unlink
\* deletes chunks only after the entry is gone, whatever other clients do
\* between.
CommittedChunksExist ==
    linked => \A i \in 1..Len(meta.chunks) :
        /\ meta.chunks[i].key \in DOMAIN chunkStore
        /\ Len(chunkStore[meta.chunks[i].key]) = meta.chunks[i].size

\* spec.md 3, invariants 1 and 2: the committed size is the sum of the
\* chunk sizes, every chunk but the last is exactly C bytes, and no chunk
\* is empty.  writeAt indexes chunks by pos / C and Read walks them by
\* size, so a record that breaks this corrupts every later operation.
ChunkLayout ==
    /\ meta.size = Cum(meta.chunks, Len(meta.chunks))
    /\ \A i \in 1..Len(meta.chunks) :
          meta.chunks[i].size \in IF i < Len(meta.chunks) THEN {C} ELSE 1..C

\* The chunk keys a record lists.
ChunkKeys(chs) == {chs[i].key : i \in DOMAIN chs}

\* spec.md 4.5 (truncate steps 2 and 6) and scenario S4: the chunks a
\* setattr drops from the record are marked stale and deleted after its
\* CAS.  So when Setattr is about to commit (its token is current, the
\* stored record is the one it fetched), every chunk key the stored record
\* lists and its new record does not is on its stale list; otherwise that
\* chunk stays in the chunks bucket with nothing referencing it.
StaleCoversDropped ==
    \A c \in Clients :
        op[c].kind = "setattr_commit" /\ TokenMatches(op[c].token) =>
            ChunkKeys(meta.chunks) \ ChunkKeys(op[c].meta.chunks)
                \subseteq Range(op[c].stale)

\* spec.md 4.6: Read resyncs the record, so a read returns the bytes of
\* the file as committed when the read began, clamped to its size.
ReadSeesCommitted == \A c \in Clients : lastRead[c].got = lastRead[c].want

\* spec.md 3 (Lifecycles: unlink destroys the file inode, after deleting
\* its chunks) and 4.4 (unlink steps 3 to 5): once F's name is gone and no
\* operation is in flight, F's record is gone from the metadata bucket.
\* Unlink fetches the record, deletes its chunks, then deletes the record
\* with the fetched token; a write or setattr another client commits in
\* between makes that delete conflict, and Unlink still returns success.
UnlinkRemovesRecord == ~linked /\ (\A c \in Clients : ~Busy(c)) => ~present

\* spec.md 4.1 and 4.3: chunks are written only under fresh keys (replaceChunk,
\* appendChunk and the truncate path each take a new NextId), so a stored
\* chunk's bytes never change; only a delete removes them.  Open handles
\* and in-flight reads of other clients rely on it, and so does the CAS:
\* a put that rewrote a listed chunk would change the committed file
\* before, or without, any commit.
ChunksImmutable ==
    [][\A k \in DOMAIN chunkStore :
          k \in DOMAIN chunkStore' => chunkStore'[k] = chunkStore[k]]_chunkStore

\* Every operation a client starts returns: no writeAt loop, truncate or
\* delete of stale chunks runs forever.
OpsComplete == \A c \in Clients : Busy(c) ~> ~Busy(c)

\* The committed file behaves as AtomicFile: the concatenated chunk values
\* change only as one whole write or setattr would change them, however
\* the chunk puts, CASes, deletes and failures of the clients interleave;
\* once unlinked, the name leads to no bytes, whatever late writes commit.
Abs == INSTANCE AtomicFile WITH content <- IF linked THEN ContentOf(meta) ELSE <<>>,
                                perm <- IF linked THEN meta.perm ELSE CHOOSE p \in Perms : TRUE,
                                exists <- linked
AtomicFileSpec == Abs!Spec

=============================================================================

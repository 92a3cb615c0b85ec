# TLA+ models of BangFS

BangFS (`src/bangfuse`) is a FUSE filesystem whose state lives entirely in a
key-value store. This directory holds TLA+ models of the store protocol, the
file and directory operations, and the id generator. It also holds the TLC
configurations that check them. The map from every definition to the lines of
Go it translates is in `PROJECT.json` (`map`).

## The system

- **Backend (`kvstore.go`).** The `KVStore` interface has two buckets.
  - *Metadata bucket.* It maps an inode number to an `InodeMeta` record. It is
    strongly consistent and carries a version token per key.
    - `PutMetadata` is put-if-absent.
    - `UpdateMetadata` is a CAS on the token.
    - `DeleteMetadata` deletes only while the token still matches.
  - *Chunks bucket.* It maps a chunk key to bytes. It is eventually
    consistent. Keys are fresh ids, and put, get and delete are unconditional.
  - There are two implementations. `RiakKVStore` uses Riak's `IfNoneMatch` /
    `IfNotModified`. `FileKVStore` keeps one file per key plus a counter
    file per record.
- **Id generators (`idgen.go`).** `gInumgen` makes inode numbers and
  `gChunkidgen` makes chunk keys. `NextId` takes a sequence number under a
  mutex, then ORs it with the clock and a per-process id.
- **File handle (`fh.go`).** `Open` copies the record and its token into a
  `BangFH`.
  - **`Write`:**
    1. Resyncs the record.
    2. Applies `O_APPEND`.
    3. Zero-fills a gap past EOF.
    4. Runs `writeAt` over the data. Each chunk touched is read, modified and
       put under a *fresh* key (`replaceChunk`), or a new chunk is appended.
    5. Sets the size.
    6. Commits with `writeMeta`, a CAS with the handle's token.
  - **`Read`:** walks the handle's chunk list and reads the overlapping chunks.
- **File node (`filenode.go`).** `Setattr`:
  1. Fetches the record.
  2. Rejects chown and extending truncates.
  3. On truncate, walks the chunks to the new EOF. It marks later chunks stale
     and rewrites a shortened last chunk under a fresh key.
  4. Applies chmod and the times.
  5. CASes the record.
  6. Only after that CAS succeeds, deletes the stale chunks.
- **Directory node (`dirnode.go`).**
  - **`Create` / `Mkdir`:**
    1. Fetch the parent and check the name is free.
    2. Put the new child record.
    3. CAS the parent with the new entry. Mkdir also does nlink+1.
  - **`Unlink`:**
    1. Fetch the parent.
    2. CAS it without the entry.
    3. Fetch the child.
    4. Delete its chunks.
    5. Delete the child with its token.
  - **`Rmdir`:**
    1. Fetch the parent.
    2. Fetch the child and check it is empty.
    3. CAS the parent without the entry, with nlink-1.
    4. Delete the child with its token.
  - `Lookup` and `Readdir` only read.

**How the parts interact.** Each mounted process (a *client*) has its own
kernel, its own handles and its own id generators. Clients interact only
through the backend.

- **Within one mount:**
  - The kernel serialises write and setattr on an inode.
  - It holds the parent directory's lock around create, mkdir, unlink and
    rmdir.
  - It sends rmdir only for a name its lookup found to be a directory, and
    unlink only for a file.
- **Across mounts:** nothing is serialised. Every backend call of one client
  can interleave with every call of another.

This is why the models treat a client as one sequential actor whose backend
calls are separate steps, and run several clients.

## Modules

| Module | Models | State | Actions |
|---|---|---|---|
| `FileData` | byte-sequence helpers | – | `Zeros` (`make([]byte,n)`), `MinOf`, `Splice` (pwrite on a byte sequence, used by the abstract spec) |
| `AtomicFile` | what a file promises (spec.md 3, 4.5, 4.6, 8): content and permission change only by whole operations, until unlink removes the name | `content`, `perm`, `exists` | `Write` (splice at an offset or at EOF), `Setattr` (shrink to a prefix, set perm), `Unlink` |
| `FileIO` | one regular file shared by several clients: `fh.go`, `Setattr`/`Open` of `filenode.go` and the file side of `Unlink` in `dirnode.go`, over the atomic store | `meta` and `vclock` (the stored record and its token), `present` (the record is stored), `linked` (the directory entry exists), `chunkStore`, `seq[c]` (the `seq_no` of client c's `gChunkidgen`; its keys are `ChunkId(c, seq[c])`, a constant operator the configuration supplies), `fh[c]` (the handle: record, token, `O_APPEND`), `op[c]` (the operation in progress and its locals), `lastRead[c]` (history for `ReadSeesCommitted`) | listed below |
| `Namespace` | `Create`, `Mkdir`, `Rmdir`, `Unlink` by several clients over the atomic store | `md` (inode → record), `ver` (inode → token), `nextIno` (`gInumgen`), `op[c]` | listed below |
| `DirTree` | what the namespace promises (spec.md 2.3, 4.4, 8): a tree of paths changed by atomic create, mkdir, unlink and rmdir (an empty directory only) | `tree` (the set of `<<path, type>>` reachable from the root) | `Make`, `Remove` |
| `IdGen` | the arithmetic of `IdGenerator.NextId`: the operator `NextId(ms, seq_no, local_id)` with Go's uint64 shifts, at widths a configuration chooses | – | – (the `seq_no++` under the mutex is `FileIO`'s `NewChunkKey`) |
| `MC_FileIOKeys` | `FileIO` with its chunk keys drawn from `IdGen!NextId` | | |
| `KVContract` | the metadata contract of the `KVStore` interface (spec.md 4.2) for one key, as a read-modify-write client sees it: each call atomic, so a successful update moves the record from n to n + 1 | `rec` (a counter, or `Absent`) | `Put` (put-if-absent), `Inc` (CAS update with the token read with the record), `Delete` |
| `FileKV` | `FileKVStore` (the `-dummy` backend) for one metadata key, shared by the processes that use one `/tmp/bangfs_<ns>` directory | `metaFile`, `vcFile` (file contents: a value, `Empty` for a truncated file, or `NoFile`), `st[p]` (the call in progress and its locals), `ops`, `crashes` | listed below |
| `MC_*` | model values and symmetry for TLC | | |

### FileIO actions

Each action is one backend call with the local code that follows it:

- `Open`.
- `WriteBegin`: `resyncMetadata`, `O_APPEND`, the gap decision.
- `OverwriteChunk`: one `writeAt` iteration over an existing chunk, covering
  `readChunk`, the growth of a short last chunk, the copy and `replaceChunk`
  (the operator `ReplaceChunk`: a put under the next key, then the handle's
  ref points at it).
- `AppendChunk`: `appendChunk`.
- `WriteMeta`: the size update and the CAS. On a conflict the handle keeps
  its modified record and its old token, as the code does.
- `SetattrBegin`: the fetch, the truncate walk `Keep`, chmod.
- `SetattrTruncChunk`: read and re-put the last kept chunk.
- `SetattrCommit`: the CAS.
- `SetattrDeleteStale`: one `DeleteChunk`. A failure is logged and skipped.
- `ReadBegin`: the size clamp and the first overlapping chunk.
- `ReadChunk`: one `readChunk` and its slice.
- `UnlinkBegin`: `Unlink`'s directory side (fetch the parent, drop the entry,
  CAS it), as one step; `Namespace` models it call by call. Handles other
  clients hold stay open.
- `UnlinkFetch`: `Metadata` of the unlinked file, keeping its chunk keys and
  token. EIO if the record is already gone.
- `UnlinkDeleteChunk`: one `DeleteChunk` of the loop. A failure is logged and
  the loop goes on.
- `UnlinkDeleteMeta`: `DeleteMetadata` with the fetched token. A conflict is
  logged, and `Unlink` returns success all the same.
- `FetchNotFound`: the first `Metadata` of `Open`, `Write` (`resyncMetadata`)
  or `Setattr` finds the record deleted, and the operation returns EIO.
  A CAS on a deleted record fails (`TokenMatches` requires `present`).
- Failures:
  - `ChunkNotFound`: a chunk deleted by another client.
  - `RpcFails`: a call fails with no effect, and the operation returns EIO.
  - `CommitThenFails`: `UpdateMetadata` is applied but reports an error. This
    is a lost Riak reply, or `FileKVStore`'s `bumpVclock` failing after the
    meta write.

The refinement mapping makes `FileIO` an implementation of `AtomicFile`:
`exists <- linked`, and while the file is linked, `content <- ContentOf(meta)`
and `perm <- meta.perm`. `ContentOf` is the concatenation of the committed
chunks. Once unlinked, the mapping gives the empty content and a fixed
permission. Writes through handles still open change nothing a name leads
to, and unlink's chunk deletions are not atomic.

### Namespace actions

- `NewEntry`: the kernel holds a directory, then Metadata(parent), the EEXIST
  scan and `NextId`.
- `PutNew`: `PutMetadata`.
- `LinkNew`: the parent CAS. On a conflict the child record is left orphaned,
  which spec.md accepts.
- `RemoveBegin`: the kernel's `Lookup`, which fixes rmdir or unlink by the
  child's type.
- `RemoveFetchDir`: the fetch of the parent and the entry loop.
- `RmdirFetchChild`: the emptiness check.
- `RemoveUpdateDir`: the parent CAS.
- `UnlinkFetchChild`.
- `DeleteChild`: the conditional `DeleteMetadata`. Its error is ignored.
- `FetchNotFound`.
- `RpcFails`.

The refinement mapping `PathsBelow` walks the entries from the root, as
`Lookup` resolves a path name by name. It gives `DirTree`'s `tree`.

### FileKV actions

Each action is one file-system call. `os.WriteFile` is two: it opens the file
with `O_TRUNC`, and only then writes it.

The constant `Created` starts the key with a put record (the root after mkfs)
instead of absent. `Wipers` is the set of processes that may run the wipe.

- `PutStat`: `PutMetadata`'s `os.Stat`; "key already exists" if found. It is
  also where `InitBackend` continues after its `Metadata(0)` failed.
- `MetaTrunc`, `MetaWrite`: `os.WriteFile` of the record, in `PutMetadata`
  and in `UpdateMetadata`.
- `BumpRead`, `BumpTrunc`, `BumpWrite`: `bumpVclock`. The new version is the
  old one plus 1, or 1 when the old file is missing or not 8 bytes.
- `GetMeta`, `GetVclock`: `Metadata` (read and unmarshal the record, then
  `readVclock`). An empty file unmarshals to the empty record (value 0).
  After it the caller updates the record with the value it read plus 1,
  deletes it, or stops. With `init` this is `InitBackend`'s existence check.
- `UpdCheck`, `DelCheck`: `readVclock` and the token comparison. The
  comparison runs only when both tokens are 8 bytes.
- `DelRemoveVclock`, `DelRemoveMeta`: `DeleteMetadata`'s two `os.Remove`s.
- `WipeList`, `WipeRemove`: `WipeBackend`, as reformat-bangfs calls it.
  `os.ReadDir` lists the files in name order (`<key>`, then `<key>.vclock`).
  Each listed file is then removed, and a file already gone makes the wipe
  fail. Only the processes in `Wipers` run it.
- `Crash`: the process is killed mid-call, and the files stay as they are.
  It is a fault model: `Next` leaves it out, and `NextWithCrashes` and
  `SpecWithCrashes` add it.

The refinement mapping takes the record in the meta file, except while a
process is between truncating and writing it. In that window the mapping
takes the record as it was before the truncation.

## Runs

| Run | Config | Expect | Properties | What it shows |
|---|---|---|---|---|
| `fileio_safety` | `MC_FileIO.cfg` | pass | `TypeOK`, `CommittedChunksExist`, `ChunkLayout`, `ChunksImmutable`, `AtomicFileSpec`, `OpsComplete` | Concurrent writes, truncates, chmods, reads and an unlink, with failures, keep the linked file's committed chunks present and laid out as spec.md 3 requires. With chunk ids distinct as spec.md 4.1 promises, no step rewrites a stored chunk. The committed content changes only as whole operations would change it, and every started write, setattr, read and unlink returns. The run uses no symmetry, because symmetry is unsound for the liveness property. |
| `fileio_unlink_race` | `MC_FileIO_UnlinkRemovesRecord.cfg` | violation | `UnlinkRemovesRecord` | A commit by another mount between unlink's fetch and its `DeleteMetadata` leaves the unlinked file's record behind, and unlink returns success. |
| `fileio_read_stale` | `MC_FileIO_read.cfg` | violation | `ReadSeesCommitted` | `Read` does not resync (fh.go:246), contrary to spec.md 4.6. |
| `namespace_two_mounts` | `MC_Namespace.cfg` | pass | `TypeOK`, `EntriesResolve`, `NamesUnique` | Entries never dangle and names stay unique under two racing mounts. |
| `namespace_one_mount` | `MC_Namespace_one.cfg` | pass | `NlinkCountsSubdirs`, `NoDetachedSubtree`, `DirTreeSpec` | With one mount, the nlink accounting and rmdir's emptiness check are right. The step-by-step operations, with failures, orphaned records and ignored delete conflicts, implement `DirTree`: each becomes visible at its parent CAS. With two mounts the rmdir and create races break this, as the violation runs show. |
| `namespace_rmdir_race` | `MC_Namespace_NoDetachedSubtree.cfg` | violation | `NoDetachedSubtree` | Across mounts, rmdir can cut off a directory that a concurrent create just populated, and still report success. |
| `namespace_stale_type` | `MC_Namespace_NlinkCountsSubdirs.cfg` | violation | `NlinkCountsSubdirs` | Unlink does not check the child's type, so after a stale kernel lookup it removes another mount's new directory and leaves the parent's nlink one too high. |
| `filekv_one_mount` | `MC_FileKV.cfg` | pass | `TypeOK`, `KVContractSpec` | One process using the file store (one mount per namespace) implements the atomic contract. |
| `filekv_two_mounts` | `MC_FileKV_CasWritesOnCurrent.cfg` | violation | `CasWritesOnCurrent` | Two mounts on one namespace lose an update. |
| `filekv_crash_torn` | `MC_FileKV_RecordIntact.cfg` | violation | `RecordIntact` | Under the crash fault model (`SpecWithCrashes`), a crash inside `PutMetadata` leaves a record nothing can read, update or recreate. |
| `fileio_truncate_leak` | `MC_FileIO_StaleCoversDropped.cfg` | violation | `StaleCoversDropped` | Truncating to size 0 drops the first chunk without marking it stale, so it is never deleted. |
| `fileio_chunk_key_clash` | `MC_FileIOKeys.cfg` | violation | `ChunksImmutable` | With the keys `NextId` really composes, the two chunk puts of one write in one millisecond get the same key, and the second overwrites the first. |

Every property of a passing run has a mutant in `PROJECT.json` (`mutants`).
Each mutant is a plausible bug in a mapped definition:

- a chunk id that does not advance (a missing `seq_no++`);
- `replaceChunk` storing the new bytes under the chunk's own key;
- stale chunks deleted after a failed CAS;
- the size always set to the write's end;
- a CAS that ignores the token;
- a `writeAt` that never leaves the gap pass;
- a put without a version;
- a dropped EEXIST scan (for `NamesUnique`, and for `DirTreeSpec`, where
  one mount creates a file and a directory of one name);
- nlink decremented on unlink;
- a dropped emptiness check;
- a vclock counter that starts at 0;
- `PutMetadata` without its existence check.

TLC finds the property violated under each mutant.

## Findings

1. **Read does not resync** (`fh.go:246`, spec.md 4.6).
   - Counterexample: one mount opens the file, another writes and commits,
     then the first reads. It gets the old bytes.
   - A handle whose write lost its CAS also serves that write's uncommitted
     chunks.
2. **`NextId` ids collide** (`idgen.go:46`). The expression is
   `uint64(ms) | seq<<SEQ_BITS | local<<(TIME_BITS+SEQ_BITS)`. The clock is
   not masked, and seq is shifted by SEQ_BITS instead of TIME_BITS.
   - In every millisecond with bit SEQ_BITS set (half of them), `seq_no` 0
     and 1 give the same id.
   - Counterexample (`MC_FileIOKeys`, widths scaled down, ms 8): a 1-byte
     write at offset 1 of an empty file puts the zero-fill chunk under key 168
     and then rewrites it, under the same key, with the data copied in. That
     is the run's trace.
   - Worse, a 1-byte write at offset 2 puts the zero-fill chunk `<<0, 0>>`
     and the data chunk `<<1>>` both under key 168. The second put
     overwrites the first, and the committed record lists key 168 twice,
     with sizes 2 and 1, while the chunk holds one byte. The zero-fill is
     lost and `CommittedChunksExist` fails (checked with the same
     configuration and that invariant).
   - A reused inode number would likewise make Create fail.
3. **Rmdir race across mounts** (`dirnode.go:264`/`272`/`278`). The emptiness
   check and the parent CAS are separate calls.
   - Counterexample: another mount links a new entry into the directory
     between the two calls.
   - The directory becomes unreachable with its new entry inside. The child
     delete conflicts, the conflict is only logged, and rmdir returns success.
4. **Stale type in Rmdir/Unlink** (`dirnode.go:232`, `298`). Neither checks the
   child's type, and the kernel's lookup may be stale across mounts.
   - Counterexample: c1 creates file n1. c2's kernel looks n1 up as a file
     and starts an unlink. c1 unlinks n1 and makes a directory n1. c2's
     unlink fetches the parent, removes the directory's entry and commits
     the parent CAS without `nlink--`.
   - The parent's nlink then counts a subdirectory that is gone, and the
     directory record is deleted whatever it contains.
   - Rmdir's mirror, decrementing nlink for a file, breaks the same property
     but needs a fifth operation, so the run's shortest trace is unlink's.

5. **`FileKVStore`'s CAS is not atomic across processes**
   (`kvstore.go:550`). The check, the record write and `bumpVclock` are
   separate file operations, and `os.WriteFile` truncates first.
   - Counterexample, with the record at version 1: mount A passes the check
     and truncates the meta file. Mount B's `Metadata` reads the empty file as
     the empty record, with the still-current vclock 1. A writes its record.
     B passes the check with token 1 and overwrites it.
   - Both are told success, and A's update is lost.
   - A vclock read while `bumpVclock` has truncated the file is 0 bytes long.
     The check is then skipped, and the counter restarts at 1.
6. **A crash inside `PutMetadata` wedges the key** (`kvstore.go:518`).
   - Killed after the truncation, the process leaves an empty meta file and
     no vclock file.
   - `Metadata` then fails ("failed to read vclock"), `UpdateMetadata` fails
     ("key not found") and `PutMetadata` fails ("key already exists").
   - After a crashed mkfs, `InitBackend` can neither read nor recreate the
     root until the store is wiped.

7. **Truncate to 0 leaks the first chunk** (`filenode.go:129`).
   - For size 0 the walk still stops at `keep = 1`, because `cumsz >= 0`
     holds after the first chunk. Only chunks `[1..)` are marked stale, yet
     `meta.Chunks` is set to nil.
   - spec.md 4.5 lists the same steps, but its scenario S4 says the original
     chunk keys are deleted.
   - Counterexample: write 1 byte, then truncate to 0. The commit drops
     chunk 1 with an empty stale list.

8. **Unlink leaves the record of the file behind** (`dirnode.go:345`).
   Unlink fetches the child, deletes its chunks, and then deletes the record
   with the fetched token. It only logs a failure; the TODO at line 343 says
   as much.
   - Counterexample: mount c1 starts a chmod and fetches the record. Mount c2
     unlinks the file and fetches the record. c1 commits. c2's
     `DeleteMetadata` conflicts, and unlink returns success.
   - The record of a file that no name leads to stays in the metadata bucket
     forever. When the file had chunks, the record lists chunks that unlink
     has deleted.

## Bounds and why they are enough

- **FileIO**
  - The bounds are 2 clients, chunk size C = 2, writes of 1 or 2 non-zero
    bytes at offsets 0..3 (or EOF with `O_APPEND`), reads of 2 bytes,
    2 permission values, 4 operations and 1 failure.
  - With C = 2 and offsets up to 3 the runs reach every case:
    - a write inside a chunk, across a chunk boundary, into a short last
      chunk (growth), past EOF with a gap, and appending;
    - a truncate to 0, to a chunk boundary and mid-chunk;
    - a CAS conflict between the two clients;
    - each failure kind in each phase.
  - 4 operations suffice for every counterexample pattern of two interleaved
    operations plus an open. An unlink after an open and a write reaches the
    chunk-delete loop with another client's operation still able to run.
  - The run reaches 637,104 distinct states in about 100 seconds.
  - The unlink race needs 3 operations: the other mount's setattr, the
    unlink, and nothing else. Its run sets no failures, so the surviving
    record is due to the race alone.
- **Namespace**
  - The bounds are 2 clients, 2 names and 4 operations (two-mount runs), or
    1 client and 5 operations (one-mount run), with 1 failure.
  - The rmdir race needs 3 operations (mkdir, mkdir inside, rmdir) and the
    stale-type race needs 4.
  - Five operations play spec.md's scenario S6 (mkdir, create inside, rmdir
    ENOTEMPTY, unlink, rmdir).
- **Chunk ids**
  - `fileio_safety` gives `ChunkId(c, s)` the distinct value `<<c, s>>`:
    the ids spec.md 4.1 promises. Each mount has its own generator, as each
    process has its own `gChunkidgen`.
  - `MC_FileIOKeys` uses `IdGen!NextId` at TIME_BITS = 2, SEQ_BITS = 3 and
    12-bit ids, because TLC's integers are 31-bit, with local ids 5 and 6.
    All calls fall in millisecond 8, whose bit SEQ_BITS is set, as bit 14 is
    set in half of the real `UnixMilli()` values; one write's chunk puts
    easily fall in one millisecond. The run has no failures.
  - The `seq_no` read and increment under `ig.mut` are one step
    (`NewChunkKey`). Concurrent callers within one process (several files
    written at once) are not modelled, because `FileIO` has one file; the
    mutex makes the section atomic.

- **FileKV**
  - One key; the record is a counter up to `MaxOps`.
  - The one-process run makes 10 calls from an absent key. That is enough to
    put, update, delete and put again, to wipe, and to exercise
    `InitBackend` both ways.
  - The violation runs keep `Wipers` empty. A wipe runs beside a mount only if
    reformat is used on a mounted namespace. With two processes, one of them
    a wiper, and no crashes, TLC finds `RecordIntact` violated in 10 steps:
    the wiper lists both files and removes the meta file, the other
    process's put recreates it, and the wiper removes the vclock. No run
    keeps that configuration; the hazard list records it.
  - The crash violation needs 1 call and 1 crash.
  - The two-process violation starts from a put record (the root after mkfs).
    It needs 2 calls.

`CHECK_DEADLOCK FALSE` is set in every configuration because the operation,
fault and call bounds stop the models. An operation that cannot finish
is caught by `OpsComplete` instead.

## Fairness

`FileIO`'s `Spec` assumes weak fairness of each client's `Step`, meaning the
backend calls of an operation already started. A FUSE request is served by a
goroutine that runs to completion, and a backend call returns, possibly with an
error. New operations and failures are not fair: a client may stop issuing
requests, and nothing forces a failure.

## Not modelled

- **`FileKVStore` chunk operations.** `PutChunk`, `Chunk` and `DeleteChunk`
  are one file each, put with `os.WriteFile`. `FileIO`'s `chunkStore` models
  a put as an unconditional overwrite, which is what both backends do. The
  truncate-then-write window of a chunk file matters only when a key is
  reused while the chunk is read, and a reused key is already finding 2.
- **A wipe beside a mount.** `FileKVStore.WipeBackend` is modelled (`WipeList`,
  `WipeRemove`), and `RecordIntact` catches it racing a mount (see Bounds),
  but no run keeps that configuration, because reformat is documented as
  run with the filesystem unmounted. The Riak `WipeBackend` has the same
  list-then-delete shape per bucket and is not modelled separately.
- **Readdir, Lookup and Getattr.** They only read. `Readdir` lists the
  entries of one fetch of the directory and fetches each child, skipping a
  child that is gone; what it can return is bounded by `EntriesResolve` and
  `NamesUnique`, which hold or fail for the stored directory itself.
  `Lookup`'s answer is modelled where it matters: `RemoveBegin` takes the
  kernel's possibly stale lookup as the child's type.
- **Namespace and FileIO in one module.** `FileIO` has unlink's file side and
  one step for its directory side. `Namespace` has the directory side call by
  call, and its files hold no chunks. One module with both would multiply two
  state spaces that already take 100 s and several seconds. It would also add
  nothing the unlink race does not show: the parent's CAS only decides
  whether the file side starts.
- **Concurrent `NextId` callers within one process.** `FileIO` has one file,
  so one mount runs one write at a time; the mutex makes the `seq_no`
  section atomic, and `NewChunkKey` is one step.
- **Not modelled at all:**
  - Eventual-consistency lag of the chunks bucket. A missing chunk is an EIO
    (`RpcFails`).
  - `getClientID`: each mount's `local_id` is a constant.
  - Inode-number collisions: `Namespace` draws fresh inode numbers; a reused
    one would make `PutMetadata` fail with "key already exists" and the
    create return EIO (finding 2); `PutNew` has no such branch because
    the model's numbers never repeat.
  - Formatting helpers (`metadata_utils.go`), the tracer, FNV hashes, mount
    wiring (`main.go`), the `mkfs` and `reformat` command-line tools around
    `InitBackend` and `WipeBackend`, scripts and tests.

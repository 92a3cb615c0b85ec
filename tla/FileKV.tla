------------------------------- MODULE FileKV -------------------------------
(***************************************************************************)
(* FileKVStore (src/bangfuse/kvstore.go), the file-backed KVStore that     *)
(* mount-fuse-bangfs uses with -dummy, for one metadata key.  The record  *)
(* lives in /tmp/bangfs_<ns>/metadata/<key> and its version counter in    *)
(* <key>.vclock.  Every mount started with the same namespace opens the   *)
(* same files, so the processes in Procs are mounts (or a mount and the   *)
(* mkfs tool) that share one directory and nothing else.                  *)
(*                                                                         *)
(* Each file-system call is one step: os.Stat, os.ReadFile, os.Remove,    *)
(* and os.WriteFile as two steps, because it opens the file with O_TRUNC  *)
(* and then writes it, and a reader in between sees an empty file.  The   *)
(* record is abstracted to a counter: a client reads it and its token    *)
(* with Metadata, then UpdateMetadata writes the value it read plus one  *)
(* under that token, or DeleteMetadata deletes it, as the handlers of     *)
(* dirnode.go and filenode.go do with the records they fetch.             *)
(***************************************************************************)
EXTENDS Naturals, Sequences

CONSTANTS
    Procs,        \* processes sharing the store directory
    Wipers,       \* those of them that run reformat-bangfs (WipeBackend)
    MaxOps,       \* bound on the calls the processes start
    MaxCrashes,   \* bound on process crashes
    Created,      \* TRUE: the record was put before (the root after mkfs)
    NoFile,       \* the file does not exist
    Empty,        \* the file exists and has zero bytes
    Absent        \* the key has no record (the abstract view)

VARIABLES
    metaFile,   \* content of metadata/<key>: a record, Empty or NoFile
    vcFile,     \* content of metadata/<key>.vclock: a version, Empty or NoFile
    st,         \* st[p]: the call process p is in and its locals
    ops,        \* calls started
    crashes     \* crashes so far

vars == <<metaFile, vcFile, st, ops, crashes>>

Versions == 1..MaxOps
Values == 0..MaxOps

Idle == [pc |-> "idle", v |-> 0, tok |-> NoFile, pre |-> Absent, ver |-> 1,
         init |-> FALSE, wipe |-> <<>>]

(***************************************************************************)
(* File contents as the code reads them.                                   *)
(***************************************************************************)
\* proto.Unmarshal of zero bytes succeeds with the empty InodeMeta.
Decode(f) == IF f = Empty THEN 0 ELSE f

\* len(b) == 8: a vclock the code compares or increments.
IsVersion(b) == b \in Nat

\* os.Stat(metaPath) succeeds in PutMetadata.
KeyExistsNever == FALSE
KeyExists == metaFile # NoFile

\* bumpVclock: version 1 unless the old vclock read is 8 bytes.
NewVersionFromZero(old) == IF IsVersion(old) THEN old + 1 ELSE 0
NewVersion(old) == IF IsVersion(old) THEN old + 1 ELSE 1

\* UpdateMetadata / DeleteMetadata: the check runs only when both are 8 bytes.
TokenConflict(tok, cur) == IsVersion(tok) /\ IsVersion(cur) /\ tok # cur

\* The record a Metadata call would return, ignoring the vclock.
FileView == IF metaFile = NoFile THEN Absent ELSE Decode(metaFile)

At(p, pcs) == st[p].pc \in pcs

Goto(p, pc) == st' = [st EXCEPT ![p].pc = pc]

Init ==
    /\ metaFile = IF Created THEN 0 ELSE NoFile
    /\ vcFile = IF Created THEN 1 ELSE NoFile
    /\ st = [p \in Procs |-> Idle]
    /\ ops = 0
    /\ crashes = 0

(***************************************************************************)
(* PutMetadata: os.Stat, fail if the file exists; os.WriteFile(meta);      *)
(* bumpVclock.                                                             *)
(***************************************************************************)
PutStat(p) ==
    /\ \/ At(p, {"idle"}) /\ ops < MaxOps /\ ops' = ops + 1
       \/ At(p, {"put_stat"}) /\ UNCHANGED ops
    /\ st' = [st EXCEPT ![p] = [Idle EXCEPT !.pc = IF KeyExists THEN "idle"
                                                                 ELSE "put_trunc"]]
    /\ UNCHANGED <<metaFile, vcFile, crashes>>

\* os.WriteFile(metaPath): open with O_TRUNC.  pre is the record before.
MetaTrunc(p) ==
    /\ At(p, {"put_trunc", "upd_trunc"})
    /\ metaFile' = Empty
    /\ st' = [st EXCEPT ![p].pc = IF @ = "put_trunc" THEN "put_write" ELSE "upd_write",
                        ![p].pre = FileView]
    /\ UNCHANGED <<vcFile, ops, crashes>>

\* os.WriteFile(metaPath): write the marshalled record.
MetaWrite(p) ==
    /\ At(p, {"put_write", "upd_write"})
    /\ metaFile' = st[p].v
    /\ st' = [st EXCEPT ![p].pc = IF @ = "put_write" THEN "put_bump_read"
                                                     ELSE "upd_bump_read"]
    /\ UNCHANGED <<vcFile, ops, crashes>>

(***************************************************************************)
(* bumpVclock: readVclock, then os.WriteFile(vclockPath) of version.       *)
(***************************************************************************)
BumpRead(p) ==
    /\ At(p, {"put_bump_read", "upd_bump_read"})
    /\ st' = [st EXCEPT ![p].ver = NewVersion(vcFile),
                        ![p].pc = IF @ = "put_bump_read" THEN "put_bump_trunc"
                                                         ELSE "upd_bump_trunc"]
    /\ UNCHANGED <<metaFile, vcFile, ops, crashes>>

BumpTrunc(p) ==
    /\ At(p, {"put_bump_trunc", "upd_bump_trunc"})
    /\ vcFile' = Empty
    /\ st' = [st EXCEPT ![p].pc = IF @ = "put_bump_trunc" THEN "put_bump_write"
                                                          ELSE "upd_bump_write"]
    /\ UNCHANGED <<metaFile, ops, crashes>>

\* The last step of PutMetadata and UpdateMetadata: the call returns.
BumpWrite(p) ==
    /\ At(p, {"put_bump_write", "upd_bump_write"})
    /\ vcFile' = st[p].ver
    /\ st' = [st EXCEPT ![p] = Idle]
    /\ UNCHANGED <<metaFile, ops, crashes>>

(***************************************************************************)
(* Metadata: os.ReadFile(meta) and unmarshal, then readVclock.  The       *)
(* caller then updates the record with value + 1, deletes it, or neither. *)
(* InitBackend (init) calls Metadata and, when that fails, PutMetadata;   *)
(* when it succeeds the filesystem already exists.                        *)
(***************************************************************************)
\* Where a failed Metadata call leaves the process.
MetadataFailed(p) == IF st[p].init THEN "put_stat" ELSE "idle"

GetMeta(p) ==
    /\ At(p, {"idle"}) /\ ops < MaxOps
    /\ ops' = ops + 1
    /\ \E init \in BOOLEAN :
          st' = [st EXCEPT ![p] =
                   IF metaFile = NoFile
                   THEN [Idle EXCEPT !.pc = IF init THEN "put_stat" ELSE "idle"]
                   ELSE [Idle EXCEPT !.pc = "get_vc", !.init = init,
                                     !.v = Decode(metaFile) + 1]]
    /\ UNCHANGED <<metaFile, vcFile, crashes>>

GetVclock(p) ==
    /\ At(p, {"get_vc"})
    /\ \/ vcFile = NoFile /\ Goto(p, MetadataFailed(p))
       \/ vcFile # NoFile /\ st[p].init /\ Goto(p, "idle")
       \/ /\ vcFile # NoFile /\ ~st[p].init
          /\ \E next \in {"idle", "upd_check", "del_check"} :
                st' = [st EXCEPT ![p].tok = vcFile, ![p].pc = next]
    /\ UNCHANGED <<metaFile, vcFile, ops, crashes>>

\* UpdateMetadata: readVclock ("key not found" if missing), then the check.
UpdCheck(p) ==
    /\ At(p, {"upd_check"})
    /\ Goto(p, IF vcFile = NoFile \/ TokenConflict(st[p].tok, vcFile)
                THEN "idle" ELSE "upd_trunc")
    /\ UNCHANGED <<metaFile, vcFile, ops, crashes>>

\* DeleteMetadata with the fetched (non-nil) token: readVclock, the check.
DelCheck(p) ==
    /\ At(p, {"del_check"})
    /\ Goto(p, IF vcFile = NoFile \/ TokenConflict(vcFile, st[p].tok)
                THEN "idle" ELSE "del_rm_vc")
    /\ UNCHANGED <<metaFile, vcFile, ops, crashes>>

\* DeleteMetadata: os.Remove(vclockPath), its error ignored.
DelRemoveVclock(p) ==
    /\ At(p, {"del_rm_vc"})
    /\ vcFile' = NoFile
    /\ Goto(p, "del_rm_meta")
    /\ UNCHANGED <<metaFile, ops, crashes>>

\* DeleteMetadata: os.Remove(metaPath); the call returns.
DelRemoveMeta(p) ==
    /\ At(p, {"del_rm_meta"})
    /\ metaFile' = NoFile
    /\ st' = [st EXCEPT ![p] = Idle]
    /\ UNCHANGED <<vcFile, ops, crashes>>

(***************************************************************************)
(* WipeBackend (reformat-bangfs): os.ReadDir(metadataDir), then os.Remove  *)
(* of each entry in name order, "<key>" before "<key>.vclock".  An entry  *)
(* that is gone when its turn comes makes WipeBackend return an error.    *)
(* The chunks directory holds nothing of this key.                        *)
(***************************************************************************)
\* The files os.ReadDir lists, sorted by name.
Listed == SelectSeq(<<"meta", "vclock">>,
                    LAMBDA f : IF f = "meta" THEN metaFile # NoFile
                                             ELSE vcFile # NoFile)

WipeList(p) ==
    /\ p \in Wipers /\ At(p, {"idle"}) /\ ops < MaxOps
    /\ ops' = ops + 1
    /\ st' = [st EXCEPT ![p] = [Idle EXCEPT !.pc = IF Listed = <<>> THEN "idle"
                                                                    ELSE "wipe",
                                             !.wipe = Listed]]
    /\ UNCHANGED <<metaFile, vcFile, crashes>>

WipeRemove(p) ==
    /\ At(p, {"wipe"})
    /\ LET f    == Head(st[p].wipe)
           gone == IF f = "meta" THEN metaFile = NoFile ELSE vcFile = NoFile
       IN  /\ metaFile' = IF f = "meta" THEN NoFile ELSE metaFile
           /\ vcFile' = IF f = "vclock" THEN NoFile ELSE vcFile
           /\ st' = [st EXCEPT ![p] = IF gone \/ Len(st[p].wipe) = 1 THEN Idle
                                      ELSE [@ EXCEPT !.wipe = Tail(@)]]
    /\ UNCHANGED <<ops, crashes>>

\* The process is killed in the middle of a call; the files stay as they are.
Crash(p) ==
    /\ ~At(p, {"idle"}) /\ crashes < MaxCrashes
    /\ crashes' = crashes + 1
    /\ st' = [st EXCEPT ![p] = Idle]
    /\ UNCHANGED <<metaFile, vcFile, ops>>

Step(p) ==
    \/ PutStat(p) \/ MetaTrunc(p) \/ MetaWrite(p)
    \/ BumpRead(p) \/ BumpTrunc(p) \/ BumpWrite(p)
    \/ GetMeta(p) \/ GetVclock(p)
    \/ UpdCheck(p) \/ DelCheck(p)
    \/ DelRemoveVclock(p) \/ DelRemoveMeta(p)
    \/ WipeList(p) \/ WipeRemove(p)

Next == \E p \in Procs : Step(p)

Spec == Init /\ [][Next]_vars

\* The fault model: processes may also be killed mid-call.
NextWithCrashes == Next \/ \E p \in Procs : Crash(p)

SpecWithCrashes == Init /\ [][NextWithCrashes]_vars

(***************************************************************************)
(* Properties                                                              *)
(***************************************************************************)
Quiescent == \A p \in Procs : At(p, {"idle"})

\* The files and the processes' locals keep their types; every vclock the
\* code writes is a version of at least 1 (bumpVclock starts at 1).
TypeOK ==
    /\ metaFile \in {NoFile, Empty} \cup Values
    /\ vcFile \in {NoFile, Empty} \cup Versions
    /\ \A p \in Procs : st[p].ver \in Versions /\ st[p].v \in Values
                        /\ st[p].init \in BOOLEAN
                        /\ st[p].wipe \in Seq({"meta", "vclock"})

\* Compare-and-swap: when UpdateMetadata overwrites the meta file, the
\* record it destroys is the one its caller read together with the token
\* (the caller writes that value plus one), and when PutMetadata writes it,
\* the key had no record.  Otherwise a write another caller was told had
\* succeeded is lost, or a deleted record comes back.
CasWritesOnCurrent ==
    \A p \in Procs :
        /\ At(p, {"upd_write"}) => st[p].pre = st[p].v - 1
        /\ At(p, {"put_write"}) => st[p].pre = Absent

\* A record is whole between calls: the meta file and the vclock file exist
\* together, and neither is an empty (truncated) file, so Metadata,
\* UpdateMetadata and DeleteMetadata can read both.
RecordIntact ==
    Quiescent =>
        /\ (metaFile = NoFile) <=> (vcFile = NoFile)
        /\ metaFile # Empty /\ vcFile # Empty

(***************************************************************************)
(* Refinement: FileKVStore implements the atomic contract of KVContract.  *)
(* A PutMetadata or UpdateMetadata takes effect when os.WriteFile writes   *)
(* the record; between its truncation and its write the key still holds   *)
(* the record from before (pre).  A DeleteMetadata takes effect when the  *)
(* meta file is removed.                                                   *)
(***************************************************************************)
Writing(p) == At(p, {"put_write", "upd_write"})

AbsRec == IF \E p \in Procs : Writing(p)
            THEN st[CHOOSE p \in Procs : Writing(p)].pre
            ELSE FileView

Abs == INSTANCE KVContract WITH rec <- AbsRec

\* Every change of the record, as the abstract view maps it, is a put of an
\* absent key, an increment by one, or a delete, as the KVStore contract's
\* atomic put-if-absent, compare-and-swap update and delete allow.
KVContractSpec == Abs!Spec
=============================================================================

----------------------------- MODULE KVContract -----------------------------
(***************************************************************************)
(* The metadata-bucket contract of the KVStore interface (spec.md 3, 8),   *)
(* for one key, as a read-modify-write client sees it.  The client reads  *)
(* the record and its token, then either updates the record with that     *)
(* token or deletes it, and creates the record when absent.  Each call is *)
(* atomic.  Because the CAS succeeds only with the current token, the     *)
(* value the client read is the current one, so a successful update moves *)
(* the record from n to n + 1 (records are abstracted to a counter).  A   *)
(* failed call changes nothing.                                            *)
(***************************************************************************)
EXTENDS Naturals

CONSTANT Absent   \* the key has no record

VARIABLE rec      \* the record stored under the key, or Absent

\* put_metadata on an absent key (IfNoneMatch): the new record.
Put == rec = Absent /\ rec' = 0

\* update_metadata with the token read along with rec.
Inc == rec # Absent /\ rec' = rec + 1

\* delete_metadata with the token read along with rec.
Delete == rec # Absent /\ rec' = Absent

\* The key is absent, or holds the record a completed put wrote.
Init == rec \in {Absent, 0}

Next == Put \/ Inc \/ Delete

Spec == Init /\ [][Next]_rec
=============================================================================

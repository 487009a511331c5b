---------------------------- MODULE StorageLedger ----------------------------
(***************************************************************************)
(* What the upload half promises of a user's jobs and storage, without     *)
(* calls, locks, transactions or failures: a job is confirmed once, in the *)
(* step that charges exactly its size and within the limit; its first      *)
(* stage is published at most once, after that; a row may be removed at    *)
(* any time, and no storage is ever given back.                            *)
(***************************************************************************)
EXTENDS Naturals

CONSTANTS Jobs, StorageLimit

VARIABLES row,           \* "none", "pending", "queued" or "deleted"
          charged_bytes, \* what the job's row says it was charged
          storage_used,  \* what the user was charged
          published      \* messages of the job's first stage

vars == <<row, charged_bytes, storage_used, published>>

Init ==
    /\ row = [j \in Jobs |-> "none"]
    /\ charged_bytes = [j \in Jobs |-> 0]
    /\ storage_used = 0
    /\ published = [j \in Jobs |-> 0]

Create(j) ==
    /\ row[j] = "none"
    /\ row' = [row EXCEPT ![j] = "pending"]
    /\ UNCHANGED <<charged_bytes, storage_used, published>>

Confirm(j) ==
    /\ row[j] = "pending"
    /\ row' = [row EXCEPT ![j] = "queued"]
    /\ \E size \in 0 .. StorageLimit :
          /\ storage_used + size <= StorageLimit
          /\ storage_used' = storage_used + size
          /\ charged_bytes' = [charged_bytes EXCEPT ![j] = size]
    /\ UNCHANGED published

Publish(j) ==
    /\ row[j] \in {"queued", "deleted"}
    /\ published[j] = 0
    /\ published' = [published EXCEPT ![j] = 1]
    /\ UNCHANGED <<row, charged_bytes, storage_used>>

Remove(j) ==
    /\ row[j] \in {"pending", "queued"}
    /\ row' = [row EXCEPT ![j] = "deleted"]
    /\ charged_bytes' = [charged_bytes EXCEPT ![j] = 0]
    /\ UNCHANGED <<storage_used, published>>

Next == \E j \in Jobs : Create(j) \/ Confirm(j) \/ Publish(j) \/ Remove(j)

Spec == Init /\ [][Next]_vars
=============================================================================

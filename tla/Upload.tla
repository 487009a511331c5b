------------------------------- MODULE Upload -------------------------------
(***************************************************************************)
(* The upload half of the backend (src/backend/src/sonclarus/jobs): the    *)
(* two HTTP operations request_upload and confirm_upload of one user, the  *)
(* PostgreSQL rows they share (the user's storage counter and the jobs),   *)
(* the S3 object the client posts in between, and the first Kafka message. *)
(*                                                                         *)
(* A confirm call is a process with one action per await of the handler;   *)
(* between two awaits any other call, or the client, may run.  PostgreSQL  *)
(* runs at READ COMMITTED: status, charged_bytes and storage_used are the  *)
(* committed values, a transaction's own writes stay in its call until the *)
(* commit action, and a statement that writes a row waits for the lock of  *)
(* the transaction that wrote it before.                                   *)
(***************************************************************************)
EXTENDS Integers, FiniteSetsExt

CONSTANTS Jobs,          \* the job ids request_upload draws (uuid7: never reused)
          Calls,         \* the confirm-upload requests the user sends
          StorageLimit,  \* users.storage_limit
          MaxFileSize,   \* settings.file.max_file_size
          MinObjectSize, \* the lower end of the presigned content-length-range
          Sizes,         \* the sizes of the files the client declares or posts
          MaxPosts       \* bound: how often the client posts one object

ASSUME UploadAssumption ==
    /\ StorageLimit \in Nat
    /\ MaxFileSize \in Nat
    /\ MinObjectSize \in Nat
    /\ Sizes \subseteq Nat \ {0}
    /\ MaxPosts \in Nat

NoObject == 0               \* S3 answers 404 for the key
Nobody == "nobody"          \* no open transaction has written the row

ASSUME NobodyAssumption == Nobody \notin Calls

(* A job id is a 128-bit number.                                           *)
ASSUME JobsAssumption == IsFiniteSet(Jobs)

VARIABLES
    request,       \* request_upload of each job: "none", "open", "done", "lost"
    policy,        \* the largest object the presigned POST accepts
    posts,         \* how often the client has posted
    object,        \* size of the object under the job's key, or NoObject
    status,        \* committed jobs.status, "NO_ROW" when there is no row
    charged_bytes, \* committed jobs.file_metadata.original.charged_bytes
    storage_used,  \* committed users.storage_used
    row_lock,      \* the call whose transaction has written the job's row
    user_lock,     \* the call whose transaction has written the user's row
    pc,            \* where each confirm call is
    job,           \* the job id in its path, fixed when the call is sent
    snapshot,      \* storage_used as its authentication dependency read it
    actual_size,   \* the size head_object returned to it
    published      \* first-stage messages of the job appended to Kafka

clientVars == <<policy, posts, object>>
dbVars     == <<status, charged_bytes, storage_used>>
lockVars   == <<row_lock, user_lock>>
callVars   == <<pc, job, snapshot, actual_size>>
vars == <<request, clientVars, dbVars, lockVars, callVars, published>>

Ended  == {"accepted", "refused", "failed"}     \* 200, 4xx, and 500 or a crash
Deleting == {"delete_missing", "delete_oversize", "delete_uncharged"}
Working == {"read", "head", "queue", "charge", "commit", "publish",
            "delete_object", "commit_delete"} \cup Deleting
Statuses == {"NO_ROW", "PENDING_UPLOAD", "QUEUED"}

TypeOK ==
    /\ request \in [Jobs -> {"none", "open", "done", "lost"}]
    /\ policy \in [Jobs -> Int]
    /\ posts \in [Jobs -> Nat]
    /\ object \in [Jobs -> Nat]
    /\ status \in [Jobs -> Statuses]
    /\ charged_bytes \in [Jobs -> Nat]
    /\ storage_used \in Nat
    /\ row_lock \in [Jobs -> Calls \cup {Nobody}]
    /\ user_lock \in Calls \cup {Nobody}
    /\ pc \in [Calls -> {"idle"} \cup Working \cup Ended]
    /\ job \in [Calls -> Jobs]
    /\ snapshot \in [Calls -> Nat]
    /\ actual_size \in [Calls -> Nat]
    /\ published \in [Jobs -> Nat]

Init ==
    /\ request = [j \in Jobs |-> "none"]
    /\ policy = [j \in Jobs |-> 0]
    /\ posts = [j \in Jobs |-> 0]
    /\ object = [j \in Jobs |-> NoObject]
    /\ status = [j \in Jobs |-> "NO_ROW"]
    /\ charged_bytes = [j \in Jobs |-> 0]
    /\ storage_used = 0
    /\ row_lock = [j \in Jobs |-> Nobody]
    /\ user_lock = Nobody
    /\ pc = [c \in Calls |-> "idle"]
    /\ job \in [Calls -> Jobs]
    /\ snapshot = [c \in Calls |-> 0]
    /\ actual_size = [c \in Calls |-> 0]
    /\ published = [j \in Jobs |-> 0]

-----------------------------------------------------------------------------
(* request_upload, and the client's POST to S3.                            *)

Remaining == StorageLimit - storage_used

(* The declared size is checked against the storage the authentication     *)
(* dependency read, the POST policy is signed for it, and the response is  *)
(* sent; the session dependency commits the new row after the response.    *)
RequestUpload(j) ==
    /\ request[j] = "none"
    /\ \E declared \in Sizes : declared <= Remaining
    /\ request' = [request EXCEPT ![j] = "open"]
    /\ policy' = [policy EXCEPT ![j] = IF Remaining < MaxFileSize
                                       THEN Remaining ELSE MaxFileSize]
    /\ UNCHANGED <<posts, object, dbVars, lockVars, callVars, published>>

CommitRequest(j) ==
    /\ request[j] = "open"
    /\ request' = [request EXCEPT ![j] = "done"]
    /\ status' = [status EXCEPT ![j] = "PENDING_UPLOAD"]
    /\ UNCHANGED <<clientVars, charged_bytes, storage_used, lockVars, callVars,
                   published>>

(* The commit fails, or the process dies before it: the row never exists.  *)
LoseRequest(j) ==
    /\ request[j] = "open"
    /\ request' = [request EXCEPT ![j] = "lost"]
    /\ UNCHANGED <<clientVars, dbVars, lockVars, callVars, published>>

(* The presigned policy bounds the size; it does not stop the client from  *)
(* posting again, or after the confirmation.                               *)
PostObject(j) ==
    /\ request[j] # "none"
    /\ posts[j] < MaxPosts
    /\ \E s \in Sizes :
          /\ MinObjectSize <= s /\ s <= policy[j]
          /\ object' = [object EXCEPT ![j] = s]
    /\ posts' = [posts EXCEPT ![j] = @ + 1]
    /\ UNCHANGED <<request, policy, dbVars, lockVars, callVars, published>>

-----------------------------------------------------------------------------
(* confirm_upload, one action per await.                                   *)

Goto(c, label) == pc' = [pc EXCEPT ![c] = label]

(* verified_current_user_dep reads the user; both numbers are then passed  *)
(* down to the service, which never reads them again.                      *)
Authenticate(c) ==
    /\ pc[c] = "idle"
    /\ request[job[c]] # "none"
    /\ Goto(c, "read")
    /\ snapshot' = [snapshot EXCEPT ![c] = storage_used]
    /\ UNCHANGED <<request, clientVars, dbVars, lockVars, job, actual_size, published>>

ReadJob(c) ==
    /\ pc[c] = "read"
    /\ Goto(c, IF status[job[c]] = "PENDING_UPLOAD" THEN "head" ELSE "refused")
    /\ UNCHANGED <<request, clientVars, dbVars, lockVars, job, snapshot,
                   actual_size, published>>

(* Fault: the size is checked against the counter as it is now, which may   *)
(* already hold the charge of this very job.                               *)
HeadObjectFresh(c) ==
    /\ pc[c] = "head"
    /\ LET size == object[job[c]]
       IN  /\ actual_size' = [actual_size EXCEPT ![c] = size]
           /\ Goto(c, IF size = NoObject THEN "delete_missing"
                      ELSE IF size + storage_used > StorageLimit
                           THEN "delete_oversize" ELSE "queue")
    /\ UNCHANGED <<request, clientVars, dbVars, lockVars, job, snapshot, published>>

HeadObject(c) ==
    /\ pc[c] = "head"
    /\ LET size == object[job[c]]
       IN  /\ actual_size' = [actual_size EXCEPT ![c] = size]
           /\ Goto(c, IF size = NoObject THEN "delete_missing"
                      ELSE IF size + snapshot[c] > StorageLimit
                           THEN "delete_oversize" ELSE "queue")
    /\ UNCHANGED <<request, clientVars, dbVars, lockVars, job, snapshot, published>>

(* Fault: the UPDATE without its condition on the status.                  *)
QueueRowUnconditional(c) ==
    /\ pc[c] = "queue"
    /\ row_lock[job[c]] = Nobody
    /\ status[job[c]] # "NO_ROW"
    /\ row_lock' = [row_lock EXCEPT ![job[c]] = c]
    /\ Goto(c, "charge")
    /\ UNCHANGED <<request, clientVars, dbVars, user_lock, job, snapshot,
                   actual_size, published>>

(* UPDATE ... WHERE status = PENDING_UPLOAD: waits for the row's lock, then *)
(* evaluates the condition on what the other transaction left.             *)
QueueRow(c) ==
    /\ pc[c] = "queue"
    /\ row_lock[job[c]] = Nobody
    /\ IF status[job[c]] = "PENDING_UPLOAD"
       THEN /\ row_lock' = [row_lock EXCEPT ![job[c]] = c]
            /\ Goto(c, "charge")
       ELSE /\ Goto(c, "refused")
            /\ UNCHANGED row_lock
    /\ UNCHANGED <<request, clientVars, dbVars, user_lock, job, snapshot,
                   actual_size, published>>

(* Fault: the increment without its condition on the limit.                *)
ChargeUserUnguarded(c) ==
    /\ pc[c] = "charge"
    /\ user_lock = Nobody
    /\ user_lock' = c
    /\ Goto(c, "commit")
    /\ UNCHANGED <<request, clientVars, dbVars, row_lock, job, snapshot,
                   actual_size, published>>

(* Fault: the uncharged confirmation is not rolled back before the delete,  *)
(* which a second session issues.                                          *)
ChargeUserNoRollback(c) ==
    /\ pc[c] = "charge"
    /\ user_lock = Nobody
    /\ IF storage_used + actual_size[c] <= StorageLimit
       THEN user_lock' = c /\ Goto(c, "commit")
       ELSE Goto(c, "delete_uncharged") /\ UNCHANGED user_lock
    /\ UNCHANGED <<request, clientVars, dbVars, row_lock, job, snapshot,
                   actual_size, published>>

(* increment_user_storage re-checks the quota in the UPDATE itself; when it *)
(* does not fit, the whole transaction is rolled back and a new one deletes *)
(* the job.                                                                *)
ChargeUser(c) ==
    /\ pc[c] = "charge"
    /\ user_lock = Nobody
    /\ IF storage_used + actual_size[c] <= StorageLimit
       THEN /\ user_lock' = c
            /\ Goto(c, "commit")
            /\ UNCHANGED row_lock
       ELSE /\ row_lock' = [row_lock EXCEPT ![job[c]] = Nobody]
            /\ Goto(c, "delete_uncharged")
            /\ UNCHANGED user_lock
    /\ UNCHANGED <<request, clientVars, dbVars, job, snapshot, actual_size,
                   published>>

(* Fault: the counter is written from the value read at the start.         *)
CommitConfirmLostUpdate(c) ==
    /\ pc[c] = "commit"
    /\ status' = [status EXCEPT ![job[c]] = "QUEUED"]
    /\ charged_bytes' = [charged_bytes EXCEPT ![job[c]] = actual_size[c]]
    /\ storage_used' = snapshot[c] + actual_size[c]
    /\ row_lock' = [row_lock EXCEPT ![job[c]] = Nobody]
    /\ user_lock' = Nobody
    /\ Goto(c, "publish")
    /\ UNCHANGED <<request, clientVars, job, snapshot, actual_size, published>>

(* Fault: the confirmation writes the status a worker is to write.         *)
CommitConfirmProcessing(c) ==
    /\ pc[c] = "commit"
    /\ status' = [status EXCEPT ![job[c]] = "PROCESSING"]
    /\ charged_bytes' = [charged_bytes EXCEPT ![job[c]] = actual_size[c]]
    /\ storage_used' = storage_used + actual_size[c]
    /\ row_lock' = [row_lock EXCEPT ![job[c]] = Nobody]
    /\ user_lock' = Nobody
    /\ Goto(c, "publish")
    /\ UNCHANGED <<request, clientVars, job, snapshot, actual_size, published>>

CommitConfirm(c) ==
    /\ pc[c] = "commit"
    /\ status' = [status EXCEPT ![job[c]] = "QUEUED"]
    /\ charged_bytes' = [charged_bytes EXCEPT ![job[c]] = actual_size[c]]
    /\ storage_used' = storage_used + actual_size[c]
    /\ row_lock' = [row_lock EXCEPT ![job[c]] = Nobody]
    /\ user_lock' = Nobody
    /\ Goto(c, "publish")
    /\ UNCHANGED <<request, clientVars, job, snapshot, actual_size, published>>

(* Fault: the message is sent before the commit.                           *)
PublishBeforeCommit(c) ==
    /\ pc[c] \in {"commit", "publish"}
    /\ published' = [published EXCEPT ![job[c]] = 1]
    /\ Goto(c, IF pc[c] = "commit" THEN "commit" ELSE "accepted")
    /\ UNCHANGED <<request, clientVars, dbVars, lockVars, job, snapshot, actual_size>>

(* The message is appended and acknowledged.                               *)
Publish(c) ==
    /\ pc[c] = "publish"
    /\ published' = [published EXCEPT ![job[c]] = @ + 1]
    /\ Goto(c, "accepted")
    /\ UNCHANGED <<request, clientVars, dbVars, lockVars, job, snapshot, actual_size>>

(* send_job gives up on a message that reaches the log all the same.       *)
PublishTimesOut(c) ==
    /\ pc[c] = "publish"
    /\ published' = [published EXCEPT ![job[c]] = @ + 1]
    /\ Goto(c, "failed")
    /\ UNCHANGED <<request, clientVars, dbVars, lockVars, job, snapshot, actual_size>>

(* DELETE ... WHERE id and user match, whatever the status: it takes the   *)
(* lock of a row that is there and finds nothing otherwise.                *)
DeleteRow(c) ==
    /\ pc[c] \in Deleting
    /\ row_lock[job[c]] = Nobody
    /\ row_lock' = [row_lock EXCEPT ![job[c]] =
                       IF status[job[c]] = "NO_ROW" THEN Nobody ELSE c]
    /\ Goto(c, IF pc[c] = "delete_missing" THEN "commit_delete"
                                           ELSE "delete_object")
    /\ UNCHANGED <<request, clientVars, dbVars, user_lock, job, snapshot,
                   actual_size, published>>

(* delete_file_from_s3 logs a failure and returns as if it had succeeded.  *)
DeleteObject(c) ==
    /\ pc[c] = "delete_object"
    /\ \E left \in {NoObject, object[job[c]]} :
          object' = [object EXCEPT ![job[c]] = left]
    /\ Goto(c, "commit_delete")
    /\ UNCHANGED <<request, policy, posts, dbVars, lockVars, job, snapshot,
                   actual_size, published>>

(* The router turned the exception into a response, so the session         *)
(* dependency commits: the row is gone.                                    *)
CommitDelete(c) ==
    /\ pc[c] = "commit_delete"
    /\ IF row_lock[job[c]] = c
       THEN /\ status' = [status EXCEPT ![job[c]] = "NO_ROW"]
            /\ charged_bytes' = [charged_bytes EXCEPT ![job[c]] = 0]
            /\ row_lock' = [row_lock EXCEPT ![job[c]] = Nobody]
       ELSE UNCHANGED <<status, charged_bytes, row_lock>>
    /\ Goto(c, "refused")
    /\ UNCHANGED <<request, clientVars, storage_used, user_lock, job, snapshot,
                   actual_size, published>>

(* Fault: the increment is committed on its own, so a failure keeps it.    *)
FailKeepsCharge(c) ==
    /\ pc[c] \in Working
    /\ row_lock' = [row_lock EXCEPT ![job[c]] = IF @ = c THEN Nobody ELSE @]
    /\ user_lock' = IF user_lock = c THEN Nobody ELSE user_lock
    /\ storage_used' = IF pc[c] = "commit" THEN storage_used + actual_size[c]
                                           ELSE storage_used
    /\ Goto(c, "failed")
    /\ UNCHANGED <<request, clientVars, status, charged_bytes, job, snapshot,
                   actual_size, published>>

(* PostgreSQL, S3 or Kafka raises, or the process dies: the session is     *)
(* rolled back and the locks of its transaction go with it.                *)
Fail(c) ==
    /\ pc[c] \in Working
    /\ row_lock' = [row_lock EXCEPT ![job[c]] = IF @ = c THEN Nobody ELSE @]
    /\ user_lock' = IF user_lock = c THEN Nobody ELSE user_lock
    /\ Goto(c, "failed")
    /\ UNCHANGED <<request, clientVars, dbVars, job, snapshot, actual_size,
                   published>>

-----------------------------------------------------------------------------
Step(c) ==
    \/ ReadJob(c) \/ HeadObject(c) \/ QueueRow(c) \/ ChargeUser(c)
    \/ CommitConfirm(c) \/ Publish(c) \/ PublishTimesOut(c)
    \/ DeleteRow(c) \/ DeleteObject(c) \/ CommitDelete(c)

Next ==
    \/ \E j \in Jobs : \/ RequestUpload(j) \/ CommitRequest(j) \/ LoseRequest(j)
                       \/ PostObject(j)
    \/ \E c \in Calls : Authenticate(c) \/ Step(c) \/ Fail(c)

Spec == Init /\ [][Next]_vars

(* The event loop and the servers behind it keep running: a call that can  *)
(* take its next step eventually takes one.  Nothing is assumed of the     *)
(* client, and no failure is assumed to happen.                            *)
FairSpec == Spec /\ \A c \in Calls : WF_vars(Step(c))
-----------------------------------------------------------------------------
(* Properties.                                                             *)

(* The counter never passes the limit, however many confirm calls race     *)
(* with storage numbers they read before (services.py:424,                 *)
(* users/repository.py:36-51).                                             *)
QuotaRespected == storage_used <= StorageLimit

(* The charges of all rows together.                                       *)
Total(f) == MapThenSumSet(LAMBDA j : f[j], Jobs)

(* Every byte a job row says it was charged is in the user's counter: a    *)
(* row is never QUEUED on credit.  (The converse fails, see MessageHasJob.) *)
RowsArePaid == Total(charged_bytes) <= storage_used

(* However many confirm calls a job receives, its first stage is published *)
(* at most once: the conditional UPDATE lets one call through.             *)
PublishedOnce == \A j \in Jobs : published[j] <= 1

(* A message never exists for a job whose confirmation is still open.      *)
PublishedAfterQueued ==
    \A j \in Jobs : published[j] > 0 => status[j] # "PENDING_UPLOAD"

(* A job that is confirmed, or whose first stage is published, keeps its   *)
(* file: no other call removes it for lack of storage (services.py:424-436,*)
(* 474-480), however old its snapshot and however late its delete.  Only a *)
(* client that replaces the file (s3_client.py:141) can cost a job its     *)
(* file: the size a call refuses is then not the size another one charged. *)
ConfirmedFilesStay ==
    \A j \in Jobs :
        (status[j] = "QUEUED" \/ published[j] > 0) /\ object[j] = NoObject
            => posts[j] > 1

(* "commit before publishing, so workers never get a message for a job     *)
(* that isn't saved" (services.py:484).                                    *)
MessageHasJob == \A j \in Jobs : published[j] > 0 => status[j] = "QUEUED"

(* "QUEUED: upload confirmed, to be published to Kafka" (enums.py:15): a   *)
(* job that stays QUEUED is published.                                     *)
QueuedIsPublished ==
    \A j \in Jobs : (status[j] = "QUEUED") ~> (published[j] > 0 \/ status[j] = "NO_ROW")

-----------------------------------------------------------------------------
(* The inductive invariant behind the safety properties: what each lock    *)
(* protects, and what a call may still rely on at each of its awaits.      *)

(* A call between its UPDATE and the commit owns the row it found pending; *)
(* a row is locked only by a call that is at work on it.                   *)
RowLockInv ==
    /\ \A c \in Calls : pc[c] \in {"charge", "commit"} =>
          row_lock[job[c]] = c /\ status[job[c]] = "PENDING_UPLOAD"
    /\ \A j \in Jobs, c \in Calls : row_lock[j] = c =>
          job[c] = j /\ pc[c] \in {"charge", "commit", "delete_object", "commit_delete"}

(* The increment that was found to fit still fits when it is committed.    *)
UserLockInv ==
    /\ \A c \in Calls : pc[c] = "commit" <=> user_lock = c
    /\ \A c \in Calls : pc[c] = "commit" =>
          storage_used + actual_size[c] <= StorageLimit

(* The counter never falls below what a call has read.                     *)
SnapshotInv == \A c \in Calls : snapshot[c] <= storage_used

(* A call about to publish is alone, on a job that is confirmed and not    *)
(* yet published; a job without a row, or pending, has no message.         *)
PublishInv ==
    /\ \A j \in Jobs : request[j] # "done" => status[j] = "NO_ROW" /\ published[j] = 0
    /\ \A c \in Calls : pc[c] = "publish" =>
          /\ request[job[c]] = "done"
          /\ status[job[c]] # "PENDING_UPLOAD"
          /\ published[job[c]] = 0
    /\ \A c, d \in Calls : pc[c] = "publish" /\ pc[d] = "publish" /\ job[c] = job[d]
          => c = d

(* A row that is being written exists; one that does not has no charge.    *)
RowInv ==
    /\ \A j \in Jobs : row_lock[j] # Nobody => status[j] # "NO_ROW"
    /\ \A j \in Jobs : status[j] = "NO_ROW" => charged_bytes[j] = 0

(* The size a refused call has measured does not fit now either: it was    *)
(* compared with a counter that only grows.  (The file may be another one  *)
(* by now, see ConfirmedFilesStay.)                                        *)
Refusing == {"delete_oversize", "delete_uncharged", "delete_object"}
RefusalInv ==
    \A c \in Calls :
        pc[c] \in Refusing => storage_used + actual_size[c] > StorageLimit

(* The calls that rely on the size they measured; a job past its commit.   *)
Measured(c) == pc[c] \in Refusing \cup {"queue", "charge", "commit"}
Confirmed(j) ==
    \/ status[j] = "QUEUED" \/ published[j] > 0
    \/ \E c \in Calls : pc[c] = "publish" /\ job[c] = j

(* A measured file was posted.  One that was posted only once has the same *)
(* size for every call, and is only gone when it does not fit; the file of *)
(* a confirmed job is there, and no other call will find it too large.     *)
FileInv ==
    /\ \A j \in Jobs : posts[j] = 0 => object[j] = NoObject
    /\ \A c \in Calls : Measured(c) => posts[job[c]] > 0 /\ actual_size[c] > 0
    /\ \A c \in Calls : Measured(c) /\ posts[job[c]] = 1 =>
          \/ object[job[c]] = actual_size[c]
          \/ /\ object[job[c]] = NoObject
             /\ storage_used + actual_size[c] > StorageLimit
    /\ \A c, d \in Calls :
          Measured(c) /\ Measured(d) /\ job[c] = job[d] /\ posts[job[c]] = 1
              => actual_size[c] = actual_size[d]
    /\ \A j \in Jobs : Confirmed(j) /\ posts[j] < 2 => object[j] # NoObject
    /\ \A c \in Calls : Confirmed(job[c]) /\ posts[job[c]] < 2 =>
          /\ pc[c] = "head" => snapshot[c] + object[job[c]] <= StorageLimit
          /\ pc[c] \notin Refusing

IInv ==
    /\ TypeOK
    /\ QuotaRespected /\ PublishedOnce /\ PublishedAfterQueued
    /\ RowLockInv /\ UserLockInv /\ SnapshotInv /\ PublishInv /\ RowInv
    /\ RefusalInv /\ FileInv

-----------------------------------------------------------------------------
(* The abstract view of a job's row.                                       *)
Row(j) == IF request[j] # "done" THEN "none"
          ELSE IF status[j] = "NO_ROW" THEN "deleted"
          ELSE IF status[j] = "PENDING_UPLOAD" THEN "pending" ELSE "queued"

Ledger == INSTANCE StorageLedger WITH row <- [j \in Jobs |-> Row(j)]

(* Calls, locks, late commits and failures together keep the promise of    *)
(* StorageLedger: the two UPDATEs of a confirmation take effect in one     *)
(* step, which charges what it queues (services.py:457-485).               *)
ImplementsLedger == Ledger!Spec
=============================================================================

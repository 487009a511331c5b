------------------------------- MODULE System -------------------------------
(***************************************************************************)
(* The backend's API and the processing behind it as one system: Upload    *)
(* composed with Pipeline.  They meet in four places:                      *)
(*                                                                         *)
(*   - a confirm call's publish appends the record that starts the         *)
(*     pipeline;                                                           *)
(*   - the row a confirm call deletes is the one process_ml_result reads,  *)
(*     and a result whose row is gone raises;                              *)
(*   - the original object a confirm call deletes is the one the first     *)
(*     stage downloads, and a message whose input is gone raises;          *)
(*   - process_ml_result locks the row until its transaction ends.         *)
(*                                                                         *)
(* An exception of the last two kinds is not a fault that may be over at   *)
(* the next attempt: the record is sought back and tried again for ever.   *)
(***************************************************************************)
EXTENDS Upload

CONSTANTS Partitions, PartitionOf, Selectable,   \* as in Pipeline
          MaxFailures   \* bound: confirm calls that fail in one behaviour

VARIABLES
    selected, done, current_stage, \* the row's columns the pipeline uses
    job_status,                    \* jobs.status from QUEUED on
    hashed, files, log, position, committed,
    consumer_pc,                   \* what each consumer is doing
    at, uploads,
    downloaded                     \* whether a worker has its inputs on its own disk

(* The consumers' own exceptions, restarts and timed-out sends are checked *)
(* in Pipeline; here they would only multiply the states.                  *)
P == INSTANCE Pipeline WITH status <- job_status, pc <- consumer_pc,
                            MaxFaults <- 0, faults <- 0

(* What Pipeline assumes of these constants.                               *)
ASSUME SystemAssumption ==
    /\ Partitions # {}
    /\ PartitionOf \in [Jobs -> Partitions]
    /\ Selectable \in [Jobs -> SUBSET P!Selections]
    /\ MaxFailures \in Nat

rowVars == <<selected, done, current_stage, job_status, hashed>>
pipelineVars == <<rowVars, files, log, position, committed, consumer_pc, at, uploads>>
systemVars == <<vars, pipelineVars, downloaded>>

SystemInit == Init /\ P!Init /\ downloaded = [s \in P!Stage |-> FALSE]

-----------------------------------------------------------------------------
(* The row lock of the result's transaction, from its SELECT ... FOR       *)
(* UPDATE to its commit.                                                   *)

(* Fault: the row is read without FOR UPDATE.                              *)
NeverLocks(j) == j \notin Jobs

ResultLocks(j) ==
    /\ consumer_pc[P!Results] \in {"publish", "save"}
    /\ P!Held(P!Results).job = j

-----------------------------------------------------------------------------
(* The API.                                                                *)

ClientStep ==
    /\ \/ \E j \in Jobs : \/ RequestUpload(j) \/ CommitRequest(j) \/ LoseRequest(j)
                          \/ PostObject(j)
       \/ \E c \in Calls : Authenticate(c)
    /\ UNCHANGED <<pipelineVars, downloaded>>

(* The statements that write the job's row wait for the result's lock too. *)
ConfirmStep(c) ==
    /\ \/ ReadJob(c) \/ HeadObject(c) \/ ChargeUser(c) \/ CommitConfirm(c)
       \/ ~ResultLocks(job[c]) /\ (QueueRow(c) \/ DeleteRow(c))
       \/ DeleteObject(c) \/ CommitDelete(c)
    /\ UNCHANGED <<pipelineVars, downloaded>>

(* Fault: the call answers while its record is only buffered, and lost.    *)
PublishStepLost(c) ==
    /\ Publish(c) \/ PublishTimesOut(c)
    /\ UNCHANGED <<pipelineVars, downloaded>>

(* The record of the first stage, acknowledged in time or not.             *)
PublishStep(c) ==
    /\ Publish(c) \/ PublishTimesOut(c)
    /\ P!PublishFirst(job[c])
    /\ UNCHANGED downloaded

FailStep(c) ==
    /\ Cardinality({d \in Calls : pc[d] = "failed"}) < MaxFailures
    /\ Fail(c)
    /\ UNCHANGED <<pipelineVars, downloaded>>

-----------------------------------------------------------------------------
(* The consumers.                                                          *)

InputMissing(s) ==
    /\ consumer_pc[s] = "work"
    /\ P!Held(s).input = P!Original
    /\ object[P!Held(s).job] = NoObject

(* download_file raises: the worker seeks back to the message.             *)
RetryMissing(s) ==
    /\ ~downloaded[s] /\ InputMissing(s)
    /\ P!SeekBack(s)
    /\ UNCHANGED downloaded

(* The inputs are on the worker's disk; what becomes of the object during  *)
(* inference and the uploads no longer matters to this attempt.            *)
Download(s) ==
    /\ consumer_pc[s] = "work" /\ ~downloaded[s]
    /\ ~InputMissing(s)
    /\ downloaded' = [downloaded EXCEPT ![s] = TRUE]
    /\ UNCHANGED pipelineVars

WorkerStep(s) ==
    /\ \/ P!Fetch(s) /\ downloaded' = [downloaded EXCEPT ![s] = FALSE]
       \/ Download(s) \/ RetryMissing(s)
       \/ /\ \/ P!PublishResult(s) \/ P!CommitOffsets(s)
             \/ downloaded[s] /\ P!UploadOutput(s)
          /\ UNCHANGED downloaded
    /\ UNCHANGED vars

RowGone == status[P!Held(P!Results).job] = "NO_ROW"

(* Fault: the result of a missing job is skipped, and its offset committed. *)
RefuseResultSkips ==
    /\ consumer_pc[P!Results] = "work"
    /\ row_lock[P!Held(P!Results).job] = Nobody
    /\ RowGone
    /\ P!Goto(P!Results, "commit")
    /\ UNCHANGED <<rowVars, files, log, position, committed, at, uploads>>

(* "No job found for ML result": the transaction is rolled back and the    *)
(* consumer seeks back to the result.                                      *)
RefuseResult ==
    /\ consumer_pc[P!Results] = "work"
    /\ row_lock[P!Held(P!Results).job] = Nobody
    /\ RowGone
    /\ P!SeekBack(P!Results)

(* SELECT ... FOR UPDATE waits for the transaction that wrote the row.     *)
LockAndApply ==
    /\ consumer_pc[P!Results] = "work"
    /\ row_lock[P!Held(P!Results).job] = Nobody
    /\ ~RowGone
    /\ P!ApplyResult

ResultStep ==
    /\ \/ P!Fetch(P!Results) \/ P!PublishNext \/ P!SaveResult
       \/ P!CommitOffsets(P!Results)
       \/ LockAndApply \/ RefuseResult
    /\ UNCHANGED <<vars, downloaded>>

-----------------------------------------------------------------------------
CallStep(c) == ConfirmStep(c) \/ PublishStep(c)

SystemNext ==
    \/ ClientStep
    \/ \E c \in Calls : CallStep(c) \/ FailStep(c)
    \/ \E s \in P!Stage : WorkerStep(s)
    \/ ResultStep

SystemSpec == SystemInit /\ [][SystemNext]_systemVars

(* As in Upload and in Pipeline.                                           *)
Fairness ==
    /\ \A c \in Calls : WF_systemVars(CallStep(c))
    /\ \A s \in P!Stage : WF_systemVars(WorkerStep(s))
    /\ WF_systemVars(ResultStep)

SystemFairSpec == SystemSpec /\ Fairness

-----------------------------------------------------------------------------
(* Properties.                                                             *)

(* The row a result's transaction has read is there, unchanged by any      *)
(* confirm call, until the transaction commits: the lock of                *)
(* get_job_for_ml_result keeps a late delete out (jobs/repository.py:45,   *)
(* jobs/services.py:178).                                                  *)
ResultsHaveTheirRow ==
    consumer_pc[P!Results] \in {"publish", "save"} =>
        LET j == P!Held(P!Results).job
        IN  status[j] = "QUEUED" /\ row_lock[j] = Nobody

(* Nothing is processed that was not confirmed and paid for: a job with a  *)
(* record on any topic, or an output in the bucket, has a row with a       *)
(* charge, or had one (jobs/services.py:457-485).                          *)
WorkIsPaid ==
    \A j \in Jobs :
        (P!Started(j) \/ \E s \in P!Stage : files[j][s] > 0) =>
            /\ published[j] > 0
            /\ status[j] = "NO_ROW" \/ charged_bytes[j] > 0

(* The processing does what Pipeline describes also behind calls that race, *)
(* fail and delete rows and files under it: each job is started once, and  *)
(* an orphan makes its consumer seek back and nothing else (jobs/          *)
(* services.py:484-514, run_consumer.py:85-97, consumer.py:313-325).       *)
ImplementsPipeline == P!OpenSpec

(* A published job whose row or original object a confirm call deleted.    *)
Orphan(j) == published[j] > 0 /\ (status[j] = "NO_ROW" \/ object[j] = NoObject)

(* A published job is completed, whatever the confirm calls, the faults    *)
(* and the other jobs of its partition do, unless an orphan stands in that *)
(* partition: its record is retried for ever in front of the others        *)
(* (run_consumer.py:85-97, consumer.py:313-325).                           *)
OnlyOrphansBlock ==
    <>[](\A j \in Jobs : published[j] > 0 =>
             \/ job_status[j] = "COMPLETED"
             \/ \E i \in Jobs : PartitionOf[i] = PartitionOf[j] /\ Orphan(i))

(* Every call that reached the handler is answered, also those that wait   *)
(* for the row while its result is applied.                                *)
AllCallsEnd == <>[](\A c \in Calls : pc[c] \notin Working)
=============================================================================

------------------------------ MODULE Pipeline ------------------------------
(***************************************************************************)
(* The processing of confirmed jobs: the four ML stage workers             *)
(* (src/ml/src/sonclarus_ml/shared/consumer.py), the backend's result      *)
(* consumer (src/backend/src/sonclarus/run_consumer.py with                *)
(* JobService.process_ml_result) and the five Kafka topics between them.   *)
(*                                                                         *)
(* Every consumer works the same way: it fetches one record, handles it,   *)
(* commits the offsets of all its partitions, and on any exception seeks   *)
(* back to the record.  A restarted consumer resumes at the committed      *)
(* offsets.  Records carry the job id as key, so one job always uses the   *)
(* same partition of a topic.                                              *)
(***************************************************************************)
EXTENDS Stages, Sequences

CONSTANTS Jobs,         \* confirmed jobs
          Partitions,   \* partitions of every topic
          PartitionOf,  \* the partition Kafka derives from a job's key
          Selectable,   \* the selections the user may make for each job
          MaxFaults     \* bound: exceptions and restarts in one behaviour

ASSUME PipelineAssumption ==
    /\ Partitions # {}
    /\ PartitionOf \in [Jobs -> Partitions]
    /\ Selectable \in [Jobs -> SUBSET Selections]
    /\ MaxFaults \in Nat

Results == "results"
Consumers == Stage \cup {Results}
Original == "original"      \* the uploaded file as a stage's input

VARIABLES
    selected,      \* jobs.selected_options
    done,          \* the stages whose status in jobs.stages is "done"
    current_stage, \* jobs.current_stage
    status,        \* jobs.status
    hashed,        \* whether the original's file_hash is stored
    files,         \* S3: files[j][s] is how many output files of stage s exist
    log,           \* log[topic][partition]: the records appended so far
    position,      \* in-memory position of each consumer in each partition
    committed,     \* committed offset of each consumer in each partition
    pc,            \* what each consumer is doing
    at,            \* the partition of the record it holds
    uploads,       \* output files a worker has uploaded for its record
    faults

jobVars   == <<selected, done, current_stage, status, hashed>>
kafkaVars == <<position, committed>>
vars == <<jobVars, files, log, kafkaVars, pc, at, uploads, faults>>

(* Stage messages name the stage whose outputs they read, results say      *)
(* whether that was the original.                                          *)
StageMessage == [job : Jobs, input : Stage \cup {Original}]
ResultEvent  == [job : Jobs, completed_stage : Stage, is_initial : BOOLEAN]

TypeOK ==
    /\ selected \in [Jobs -> Selections]
    /\ done \in [Jobs -> SUBSET Stage]
    /\ current_stage \in [Jobs -> Stage]
    /\ status \in [Jobs -> {"QUEUED", "PROCESSING", "COMPLETED"}]
    /\ hashed \in [Jobs -> BOOLEAN]
    /\ files \in [Jobs -> [Stage -> Nat]]
    /\ \A p \in Partitions : /\ log[Results][p] \in Seq(ResultEvent)
                             /\ \A s \in Stage : log[s][p] \in Seq(StageMessage)
    /\ position \in [Consumers -> [Partitions -> Nat]]
    /\ committed \in [Consumers -> [Partitions -> Nat]]
    /\ pc \in [Consumers -> {"poll", "work", "publish", "save", "commit"}]
    /\ at \in [Consumers -> Partitions]
    /\ uploads \in [Stage -> Nat]
    /\ faults \in 0 .. MaxFaults

(* The rows as confirm_upload commits them, before it publishes.           *)
Init ==
    /\ selected \in {f \in [Jobs -> Selections] : \A j \in Jobs : f[j] \in Selectable[j]}
    /\ done = [j \in Jobs |-> {}]
    /\ current_stage = [j \in Jobs |-> FirstStage(selected[j])]
    /\ status = [j \in Jobs |-> "QUEUED"]
    /\ hashed = [j \in Jobs |-> FALSE]
    /\ files = [j \in Jobs |-> [s \in Stage |-> 0]]
    /\ log = [k \in Consumers |-> [p \in Partitions |-> <<>>]]
    /\ position = [k \in Consumers |-> [p \in Partitions |-> 0]]
    /\ committed = position
    /\ pc = [k \in Consumers |-> "poll"]
    /\ at = [k \in Consumers |-> CHOOSE p \in Partitions : TRUE]
    /\ uploads = [s \in Stage |-> 0]
    /\ faults = 0

-----------------------------------------------------------------------------
(* Topics and consumers.                                                   *)

Goto(k, label) == pc' = [pc EXCEPT ![k] = label]

(* The record consumer k holds: the one its position has just passed.      *)
Held(k) == log[k][at[k]][position[k][at[k]]]

Append1(topic, j, message) ==
    log' = [log EXCEPT ![topic][PartitionOf[j]] = Append(@, message)]

(* send_job: the record is appended and acknowledged.                      *)
Send(k, topic, j, message, label) ==
    /\ Append1(topic, j, message)
    /\ Goto(k, label)

(* The record at the position is handed out and the position moves on.     *)
Fetch(k) ==
    /\ pc[k] = "poll"
    /\ \E p \in Partitions :
          /\ position[k][p] < Len(log[k][p])
          /\ position' = [position EXCEPT ![k][p] = @ + 1]
          /\ at' = [at EXCEPT ![k] = p]
    /\ uploads' = IF k \in Stage THEN [uploads EXCEPT ![k] = 0] ELSE uploads
    /\ Goto(k, "work")
    /\ UNCHANGED <<jobVars, files, log, committed, faults>>

(* consumer.commit() stores the positions of all partitions.               *)
CommitOffsets(k) ==
    /\ pc[k] = "commit"
    /\ committed' = [committed EXCEPT ![k] = position[k]]
    /\ Goto(k, "poll")
    /\ UNCHANGED <<jobVars, files, log, position, at, uploads, faults>>

(* Fault: the consumer goes on with the next record.                       *)
NoSeek(k) == UNCHANGED position

(* consumer.seek() to the offset of the record at hand.                    *)
Seek(k) == position' = [position EXCEPT ![k][at[k]] = @ - 1]

(* Any exception while the record is handled, the offset commit included:  *)
(* an open transaction is rolled back and the consumer seeks back.         *)
SeekBack(k) ==
    /\ pc[k] # "poll"
    /\ Seek(k)
    /\ Goto(k, "poll")
    /\ UNCHANGED <<jobVars, files, log, committed, at, uploads>>

Except(k) ==
    /\ faults < MaxFaults
    /\ faults' = faults + 1
    /\ SeekBack(k)

(* The same, when the record it was sending reaches the log although the   *)
(* send timed out.                                                         *)
SendTimesOut(k, topic, j, message) ==
    /\ faults < MaxFaults
    /\ faults' = faults + 1
    /\ Append1(topic, j, message)
    /\ Seek(k)
    /\ Goto(k, "poll")
    /\ UNCHANGED <<jobVars, files, committed, at, uploads>>

(* The process dies, or the consumer reconnects: the next one starts from  *)
(* the committed offsets.                                                  *)
Restart(k) ==
    /\ faults < MaxFaults
    /\ faults' = faults + 1
    /\ position' = [position EXCEPT ![k] = committed[k]]
    /\ Goto(k, "poll")
    /\ UNCHANGED <<jobVars, files, log, committed, at, uploads>>

-----------------------------------------------------------------------------
(* The backend publishes the first stage once its confirmation is saved.   *)
PublishFirst(j) ==
    /\ Append1(FirstStage(selected[j]), j, [job |-> j, input |-> Original])
    /\ UNCHANGED <<jobVars, files, kafkaVars, pc, at, uploads, faults>>

(* It does so once per job (Upload's PublishedOnce).                       *)
StartJob(j) ==
    /\ \A p \in Partitions : \A s \in Stage : \A i \in 1 .. Len(log[s][p]) :
          log[s][p][i].job # j
    /\ PublishFirst(j)

-----------------------------------------------------------------------------
(* A stage worker: process_message.                                        *)

(* Every object the message names can be downloaded.                       *)
InputsExist(m) ==
    IF m.input = Original THEN TRUE
    ELSE files[m.job][m.input] >= OutputCount(m.input)

(* Fault: the result is published after the first output.                  *)
UploadFirstOutput(s) ==
    /\ pc[s] = "work"
    /\ InputsExist(Held(s))
    /\ uploads' = [uploads EXCEPT ![s] = 1]
    /\ files' = [files EXCEPT ![Held(s).job][s] = IF @ < 1 THEN 1 ELSE @]
    /\ Goto(s, "publish")
    /\ UNCHANGED <<jobVars, log, kafkaVars, at, faults>>

(* Downloads and inference have succeeded; the next output is uploaded.    *)
(* They are no steps of their own here, where they change nothing that is  *)
(* shared and inputs are never removed (System separates the download).    *)
UploadOutput(s) ==
    /\ pc[s] = "work"
    /\ InputsExist(Held(s))
    /\ uploads' = [uploads EXCEPT ![s] = @ + 1]
    /\ files' = [files EXCEPT ![Held(s).job][s] =
                    IF @ < uploads[s] + 1 THEN uploads[s] + 1 ELSE @]
    /\ Goto(s, IF uploads[s] + 1 < OutputCount(s) THEN "work" ELSE "publish")
    /\ UNCHANGED <<jobVars, log, kafkaVars, at, faults>>

ResultOf(s) == [job |-> Held(s).job, completed_stage |-> s,
                is_initial |-> Held(s).input = Original]

PublishResult(s) ==
    /\ pc[s] = "publish"
    /\ Send(s, Results, Held(s).job, ResultOf(s), "commit")
    /\ UNCHANGED <<jobVars, files, kafkaVars, at, uploads, faults>>

PublishResultTimesOut(s) ==
    /\ pc[s] = "publish"
    /\ SendTimesOut(s, Results, Held(s).job, ResultOf(s))

-----------------------------------------------------------------------------
(* The result consumer: process_ml_result inside its transaction.          *)

(* Fault: a repeated result is not recognised.                             *)
NeverDuplicate(e) == e.job \notin Jobs

(* The stage is done already: the result is ignored.                       *)
Duplicate(e) == e.completed_stage \in done[e.job]

(* None of the ValueErrors is raised.                                      *)
Acceptable(e) ==
    /\ current_stage[e.job] = e.completed_stage
    /\ e.completed_stage \in selected[e.job]
    /\ e.is_initial = (e.completed_stage = FirstStage(selected[e.job]))

(* Fault: the last stage is taken to be the one before it.                 *)
IsLastButOne(e) == Cardinality(Later(selected[e.job], e.completed_stage)) <= 1

IsLast(e) == Later(selected[e.job], e.completed_stage) = {}

(* Fault: every stage reads the original upload.                           *)
MessageOnOriginal(e) == [job |-> e.job, input |-> Original]

(* _build_next_stage_job: the next stage reads what this one stored.       *)
NextMessage(e) == [job |-> e.job, input |-> e.completed_stage]

(* The row is locked and checked; a duplicate changes nothing.             *)
ApplyResult ==
    LET e == Held(Results)
    IN  /\ pc[Results] = "work"
        /\ ~Duplicate(e) => Acceptable(e)
        /\ Goto(Results, IF Duplicate(e) THEN "commit"
                         ELSE IF IsLast(e) THEN "save" ELSE "publish")
        /\ UNCHANGED <<jobVars, files, log, kafkaVars, at, uploads, faults>>

(* The next stage is published before the transaction commits.             *)
PublishNext ==
    LET e == Held(Results)
    IN  /\ pc[Results] = "publish"
        /\ Send(Results, NextStage(selected[e.job], e.completed_stage), e.job,
                NextMessage(e), "save")
        /\ UNCHANGED <<jobVars, files, kafkaVars, at, uploads, faults>>

PublishNextTimesOut ==
    LET e == Held(Results)
    IN  /\ pc[Results] = "publish"
        /\ SendTimesOut(Results, NextStage(selected[e.job], e.completed_stage), e.job,
                        NextMessage(e))

(* Fault: current_stage stays on the stage that is done.                   *)
SaveResultStays ==
    LET e == Held(Results)
        j == e.job
    IN  /\ pc[Results] = "save"
        /\ done' = [done EXCEPT ![j] = @ \cup {e.completed_stage}]
        /\ hashed' = [hashed EXCEPT ![j] = @ \/ e.is_initial]
        /\ status' = [status EXCEPT ![j] = IF IsLast(e) THEN "COMPLETED" ELSE "PROCESSING"]
        /\ Goto(Results, "commit")
        /\ UNCHANGED <<selected, current_stage, files, log, kafkaVars, at, uploads, faults>>

(* Fault: the job takes the stage's status.                                *)
SaveResultDone ==
    LET e == Held(Results)
        j == e.job
    IN  /\ pc[Results] = "save"
        /\ done' = [done EXCEPT ![j] = @ \cup {e.completed_stage}]
        /\ status' = [status EXCEPT ![j] = "done"]
        /\ Goto(Results, "commit")
        /\ UNCHANGED <<selected, current_stage, hashed, files, log, kafkaVars, at, uploads,
                       faults>>

(* The transaction commits.                                                *)
SaveResult ==
    LET e == Held(Results)
        j == e.job
        s == e.completed_stage
    IN  /\ pc[Results] = "save"
        /\ done' = [done EXCEPT ![j] = @ \cup {s}]
        /\ hashed' = [hashed EXCEPT ![j] = @ \/ e.is_initial]
        /\ status' = [status EXCEPT ![j] = IF IsLast(e) THEN "COMPLETED" ELSE "PROCESSING"]
        /\ current_stage' = [current_stage EXCEPT ![j] =
                                IF IsLast(e) THEN s ELSE NextStage(selected[j], s)]
        /\ Goto(Results, "commit")
        /\ UNCHANGED <<selected, files, log, kafkaVars, at, uploads, faults>>

-----------------------------------------------------------------------------
Work(k) ==
    \/ Fetch(k) \/ CommitOffsets(k)
    \/ k \in Stage /\ (UploadOutput(k) \/ PublishResult(k))
    \/ k = Results /\ (ApplyResult \/ PublishNext \/ SaveResult)

Fault(k) ==
    \/ Except(k) \/ Restart(k)
    \/ k \in Stage /\ PublishResultTimesOut(k)
    \/ k = Results /\ PublishNextTimesOut

Next ==
    \/ \E j \in Jobs : StartJob(j)
    \/ \E k \in Consumers : Work(k) \/ Fault(k)

Spec == Init /\ [][Next]_vars

(* Exceptions that no bound counts: what makes a record fail need not go   *)
(* away (System), so it may be tried and sought back for ever.             *)
OpenNext == Next \/ \E k \in Consumers : SeekBack(k) /\ UNCHANGED faults

OpenSpec == Init /\ [][OpenNext]_vars

(* Every consumer keeps polling (the supervisor and run_consumer restart   *)
(* it); faults are finitely many.                                          *)
FairSpec == Spec /\ \A k \in Consumers : WF_vars(Work(k))

-----------------------------------------------------------------------------
(* Properties.                                                             *)

RecordsOf(k, p) == {log[k][p][i] : i \in 1 .. Len(log[k][p])}

Previous(S, s) == CHOOSE t \in S : Later(S, t) # {} /\ NextStage(S, t) = s

(* process_ml_result never raises for a result a worker publishes, in spite *)
(* of retries and duplicates; a refused result would be retried for ever   *)
(* and block its partition (services.py:191-231, run_consumer.py:85-97).   *)
NoResultRefused ==
    pc[Results] = "work" /\ ~Duplicate(Held(Results)) => Acceptable(Held(Results))

(* A worker never starts on a stage whose input is not in the bucket yet.  *)
InputsReady == \A s \in Stage : pc[s] = "work" => InputsExist(Held(s))

(* A result says that all the files of its stage are in the bucket.        *)
ResultsAreBacked ==
    \A p \in Partitions : \A e \in RecordsOf(Results, p) :
        files[e.job][e.completed_stage] = OutputCount(e.completed_stage)

(* What the row calls done is in the bucket with every file of the stage,  *)
(* so a COMPLETED job has them all, however often a stage was repeated.    *)
DoneIsBacked ==
    \A j \in Jobs : \A s \in done[j] : files[j][s] = OutputCount(s)

(* A message for a later stage reads the stage selected just before it,    *)
(* and that stage's result is in the log of results.                       *)
MessagesFollowResults ==
    \A s \in Stage, p \in Partitions : \A m \in RecordsOf(s, p) :
        IF s = FirstStage(selected[m.job])
        THEN m.input = Original
        ELSE /\ m.input = Previous(selected[m.job], s)
             /\ \E e \in RecordsOf(Results, p) :
                   e.job = m.job /\ e.completed_stage = m.input

(* A committed offset never passes a record whose work could be lost: the  *)
(* offsets of all partitions are committed at once, also after a seek.     *)
OffsetsAreSafe ==
    \A p \in Partitions :
        /\ \A s \in Stage : \A i \in 1 .. committed[s][p] :
              \E e \in RecordsOf(Results, p) :
                  e.job = log[s][p][i].job /\ e.completed_stage = s
        /\ \A i \in 1 .. committed[Results][p] :
              log[Results][p][i].completed_stage \in done[log[Results][p][i].job]

(* The row's four fields agree: the stages done are those selected before  *)
(* the current one, and COMPLETED means all of them and a known hash.      *)
RowIsConsistent ==
    \A j \in Jobs :
        /\ current_stage[j] \in selected[j]
        /\ done[j] = IF status[j] = "COMPLETED" THEN selected[j]
                     ELSE selected[j] \ ({current_stage[j]} \cup
                                         Later(selected[j], current_stage[j]))
        /\ status[j] = "QUEUED" <=> done[j] = {}
        /\ status[j] = "COMPLETED" => Later(selected[j], current_stage[j]) = {}
        /\ hashed[j] <=> done[j] # {}

Started(j) == \E m \in RecordsOf(FirstStage(selected[j]), PartitionOf[j]) : m.job = j

(* Workers, topics and the result consumer together keep the promise of    *)
(* JobProgress, liveness included.                                         *)
Progress == INSTANCE JobProgress WITH started <- [j \in Jobs |-> Started(j)]

ImplementsProgress == Progress!FairSpec
=============================================================================

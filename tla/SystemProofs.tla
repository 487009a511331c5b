---------------------------- MODULE SystemProofs ----------------------------
(* Proofs about System, for every number of jobs, calls, partitions and    *)
(* failed calls: the API's rows and locks seen from the processing.        *)
(*                                                                         *)
(* The inductive invariant ties the two halves together: a record, or a    *)
(* file, is there only for a job whose first message has been published,   *)
(* and a published job's row, if there still is one, is queued and charged. *)
EXTENDS System, Sequences, UploadProofs, StagesProofs

USE SystemAssumption, NobodyAssumption

-----------------------------------------------------------------------------
(* The inductive invariant.                                                *)

Record == P!StageMessage \cup P!ResultEvent

LogOK == log \in [P!Consumers -> [Partitions -> Seq(Record)]]

(* Positions lie within the logs, past the record that is held.            *)
OffsetsOK ==
    \A k \in P!Consumers :
        /\ consumer_pc[k] # "poll" => position[k][at[k]] >= 1
        /\ \A p \in Partitions : position[k][p] <= Len(log[k][p])

(* There is a next stage to publish.                                       *)
NextInv == consumer_pc[P!Results] = "publish" => ~P!IsLast(P!Held(P!Results))

(* Records and files are those of jobs whose first message was published.  *)
PublishedWork ==
    /\ \A k \in P!Consumers, p \in Partitions : \A r \in P!RecordsOf(k, p) :
          published[r.job] > 0
    /\ \A j \in Jobs, s \in P!Stage : files[j][s] > 0 => published[j] > 0

(* A call confirms only a file that is there, so a queued row has a charge. *)
ChargeInv ==
    /\ \A c \in Calls : pc[c] \in {"queue", "charge", "commit"} => actual_size[c] > 0
    /\ \A j \in Jobs : status[j] = "QUEUED" => charged_bytes[j] > 0

SystemInv ==
    /\ IInv /\ P!TypeOK /\ LogOK
    /\ OffsetsOK /\ NextInv /\ PublishedWork /\ ChargeInv
    /\ ResultsHaveTheirRow

-----------------------------------------------------------------------------
(* The API's half.                                                         *)

(* Every step of the system is one of the API, or leaves it alone.         *)
LEMMA ApiStep == SystemNext => [Next]_vars
<1> SUFFICES ASSUME SystemNext PROVE [Next]_vars
  OBVIOUS
<1>1. CASE ClientStep
  BY <1>1 DEF ClientStep, Next
<1>2. ASSUME NEW c \in Calls, ConfirmStep(c) PROVE [Next]_vars
  BY <1>2 DEF ConfirmStep, Next, Step
<1>3. ASSUME NEW c \in Calls, PublishStep(c) PROVE [Next]_vars
  BY <1>3 DEF PublishStep, Next, Step
<1>4. ASSUME NEW c \in Calls, FailStep(c) PROVE [Next]_vars
  BY <1>4 DEF FailStep, Next
<1>5. ASSUME NEW s \in P!Stage, WorkerStep(s) PROVE [Next]_vars
  BY <1>5 DEF WorkerStep
<1>6. CASE ResultStep
  BY <1>6 DEF ResultStep
<1> QED
  BY <1>1, <1>2, <1>3, <1>4, <1>5, <1>6 DEF SystemNext, CallStep

(* Whatever the processing does, the API behaves as in Upload.             *)
LEMMA ApiKeepsUpload == IInv /\ [SystemNext]_systemVars => IInv' /\ [Next]_vars
<1>1. UNCHANGED systemVars => UNCHANGED vars
  BY DEF systemVars
<1> QED
  BY <1>1, ApiStep, InvStep

(* A queued row is charged what head_object measured, and that was a file. *)
LEMMA ChargeStep == IInv /\ ChargeInv /\ [Next]_vars => ChargeInv'
<1> SUFFICES ASSUME IInv, ChargeInv, [Next]_vars PROVE ChargeInv'
  OBVIOUS
<1>1. TypeOK
  BY DEF IInv
<1> USE DEF TypeOK, ChargeInv, dbVars, Goto
<1>2. ASSUME NEW j \in Jobs, CommitRequest(j) PROVE ChargeInv'
  BY <1>1, <1>2 DEF CommitRequest, callVars
<1>3. ASSUME NEW c \in Calls, HeadObject(c) PROVE ChargeInv'
  BY <1>1, <1>3 DEF HeadObject, NoObject
<1>4. ASSUME NEW c \in Calls, QueueRow(c) \/ ChargeUser(c) PROVE ChargeInv'
  BY <1>1, <1>4 DEF QueueRow, ChargeUser
<1>5. ASSUME NEW c \in Calls, CommitConfirm(c) PROVE ChargeInv'
  BY <1>1, <1>5 DEF CommitConfirm
<1>6. ASSUME NEW c \in Calls, CommitDelete(c) PROVE ChargeInv'
  BY <1>1, <1>6 DEF CommitDelete
<1>7. ASSUME NEW c \in Calls,
             Authenticate(c) \/ ReadJob(c) \/ Publish(c) \/ PublishTimesOut(c) \/
             DeleteRow(c) \/ DeleteObject(c) \/ Fail(c)
      PROVE  ChargeInv'
  BY <1>1, <1>7 DEF Authenticate, ReadJob, Publish, PublishTimesOut, DeleteRow,
     DeleteObject, Fail, Deleting
<1>8. CASE Quiet
  BY <1>1, <1>8, QuietStep DEF callVars
<1> QED
  BY <1>2, <1>3, <1>4, <1>5, <1>6, <1>7, <1>8 DEF Next, Step, Quiet

(* No step of the API takes a publish back.                                *)
LEMMA PublishedStays ==
    IInv /\ [Next]_vars =>
        \A j \in Jobs : published[j] > 0 => published'[j] > 0
<1> SUFFICES ASSUME IInv, [Next]_vars, NEW j \in Jobs, published[j] > 0
             PROVE  published'[j] > 0
  OBVIOUS
<1>1. published \in [Jobs -> Nat] /\ job \in [Calls -> Jobs]
  BY DEF IInv, TypeOK
<1>2. ASSUME NEW c \in Calls, Publish(c) \/ PublishTimesOut(c) PROVE published'[j] > 0
  BY <1>1, <1>2 DEF Publish, PublishTimesOut
<1>3. CASE UNCHANGED published
  BY <1>3
<1> QED
  BY <1>2, <1>3 DEF Next, Step, vars, RequestUpload, CommitRequest, LoseRequest, PostObject,
     Authenticate, ReadJob, HeadObject, QueueRow, ChargeUser, CommitConfirm, DeleteRow,
     DeleteObject, CommitDelete, Fail

-----------------------------------------------------------------------------
(* The logs.                                                               *)

(* The stages of Pipeline are those of Stages.                             *)
LEMMA SameStages ==
    /\ P!Stage = Stage /\ P!Selections = Selections
    /\ \A S : P!FirstStage(S) = FirstStage(S)
    /\ \A S, s : P!Later(S, s) = Later(S, s) /\ P!NextStage(S, s) = NextStage(S, s)
    /\ P!Results \in P!Consumers /\ P!Results \notin P!Stage /\ P!Stage \subseteq P!Consumers
    /\ P!Original \notin P!Stage
<1>1. P!Stage = Stage /\ P!Selections = Selections
  BY DEF P!Stage, Stage, P!Selections, Selections, P!ValidSelection, ValidSelection
<1>2. \A s : P!Index(s) = Index(s)
  BY DEF P!Index, Index, P!StageOrder, StageOrder
<1>3. \A S : P!FirstStage(S) = FirstStage(S)
  BY <1>2 DEF P!FirstStage, FirstStage
<1>4. \A S, s : P!Later(S, s) = Later(S, s)
  BY <1>2 DEF P!Later, Later
<1>5. \A S, s : P!NextStage(S, s) = NextStage(S, s)
  BY <1>3, <1>4 DEF P!NextStage, NextStage
<1>6. /\ P!Results \in P!Consumers /\ P!Results \notin P!Stage
      /\ P!Stage \subseteq P!Consumers /\ P!Original \notin P!Stage
  BY DEF P!Consumers, P!Results, P!Stage, P!Original
<1> QED
  BY <1>1, <1>3, <1>4, <1>5, <1>6

(* The first stage of a job, and the one behind a stage that is not the    *)
(* last, are stages.                                                       *)
LEMMA StagesOfJob ==
    ASSUME P!TypeOK, NEW j \in Jobs
    PROVE  /\ P!FirstStage(selected[j]) \in P!Stage
           /\ \A s : P!Later(selected[j], s) # {} => P!NextStage(selected[j], s) \in P!Stage
<1>1. selected[j] \in Selections
  BY SameStages DEF P!TypeOK
<1>2. selected[j] \in SUBSET Stage /\ selected[j] # {}
  BY <1>1 DEF Selections, ValidSelection
<1>3. \A s : Later(selected[j], s) \in SUBSET Stage
  BY <1>2 DEF Later
<1>4. FirstStage(selected[j]) \in Stage
  BY <1>2, FirstIsLeast
<1>5. \A s : Later(selected[j], s) # {} => NextStage(selected[j], s) \in Stage
  BY <1>3, FirstIsLeast DEF NextStage
<1> QED
  BY <1>4, <1>5, SameStages

(* Nothing that was in a log is lost or moved.                             *)
LogGrows ==
    \A k \in P!Consumers, p \in Partitions :
        /\ Len(log[k][p]) <= Len(log'[k][p])
        /\ \A i \in 1 .. Len(log[k][p]) : log'[k][p][i] = log[k][p][i]

LEMMA LogType ==
    ASSUME LogOK, NEW k \in P!Consumers, NEW p \in Partitions
    PROVE  /\ log[k][p] \in Seq(Record)
           /\ Len(log[k][p]) \in Nat
           /\ \A i \in 1 .. Len(log[k][p]) : log[k][p][i] \in Record
BY DEF LogOK

(* What belongs on a topic.                                                *)
Fits(topic, m) ==
    \/ topic = P!Results /\ m \in P!ResultEvent
    \/ topic \in P!Stage /\ m \in P!StageMessage

(* The types of the logs, without the other variables.                     *)
LogsTyped ==
    \A p \in Partitions : /\ log[P!Results][p] \in Seq(P!ResultEvent)
                          /\ \A s \in P!Stage : log[s][p] \in Seq(P!StageMessage)

(* What appending a record does to the logs.                               *)
LEMMA AppendStep ==
    ASSUME LogOK, LogsTyped, NEW topic, NEW j \in Jobs, NEW m, Fits(topic, m),
           P!Append1(topic, j, m)
    PROVE  /\ LogOK' /\ LogsTyped' /\ LogGrows
           /\ \A k \in P!Consumers, p \in Partitions : \A r \in P!RecordsOf(k, p)' :
                 r = m \/ r \in P!RecordsOf(k, p)
<1> DEFINE q == PartitionOf[j]
           l == log[topic][q]
<1>1. /\ q \in Partitions /\ topic \in P!Consumers /\ m \in Record
  BY SameStages DEF Fits, Record
<1>2. log' = [log EXCEPT ![topic] = [log[topic] EXCEPT ![q] = Append(l, m)]]
  BY DEF P!Append1
<1>3. /\ log \in [P!Consumers -> [Partitions -> Seq(Record)]]
      /\ log[topic] \in [Partitions -> Seq(Record)]
      /\ l \in Seq(Record) /\ Len(l) \in Nat
  BY <1>1 DEF LogOK
<1>4. /\ Append(l, m) \in Seq(Record)
      /\ Len(Append(l, m)) = Len(l) + 1
      /\ Append(l, m)[Len(l) + 1] = m
      /\ \A i \in 1 .. Len(l) : Append(l, m)[i] = l[i]
  BY <1>1, <1>3
<1>5. LogOK'
  BY <1>1, <1>2, <1>3, <1>4 DEF LogOK
<1>6. /\ log'[topic][q] = Append(l, m)
      /\ \A k \in P!Consumers, p \in Partitions :
            ~(k = topic /\ p = q) => log'[k][p] = log[k][p]
  BY <1>1, <1>2, <1>3
<1> HIDE DEF l
<1>7. ASSUME NEW k \in P!Consumers, NEW p \in Partitions
      PROVE  /\ Len(log[k][p]) <= Len(log'[k][p])
             /\ \A i \in 1 .. Len(log[k][p]) : log'[k][p][i] = log[k][p][i]
             /\ \A i \in 1 .. Len(log'[k][p]) :
                   log'[k][p][i] = m \/ i \in 1 .. Len(log[k][p])
  <2>1. CASE k = topic /\ p = q
    <3>1. log[k][p] = l /\ log'[k][p] = Append(l, m)
      BY <1>6, <2>1 DEF l
    <3> QED
      BY <1>3, <1>4, <3>1
  <2>2. CASE ~(k = topic /\ p = q)
    BY <1>6, <2>2, LogType
  <2> QED
    BY <2>1, <2>2
<1>8. LogGrows
  BY <1>7 DEF LogGrows
<1>9. \A k \in P!Consumers, p \in Partitions : \A r \in P!RecordsOf(k, p)' :
         r = m \/ r \in P!RecordsOf(k, p)
  BY <1>7 DEF P!RecordsOf
<1>10. LogsTyped'
  <2> SUFFICES ASSUME NEW p \in Partitions
               PROVE  /\ log'[P!Results][p] \in Seq(P!ResultEvent)
                      /\ \A s \in P!Stage : log'[s][p] \in Seq(P!StageMessage)
    BY DEF LogsTyped
  <2>1. /\ log[P!Results][p] \in Seq(P!ResultEvent)
        /\ \A s \in P!Stage : log[s][p] \in Seq(P!StageMessage)
    BY DEF LogsTyped
  <2>2. topic = P!Results /\ p = q => l \in Seq(P!ResultEvent) /\ m \in P!ResultEvent
    BY <2>1, SameStages DEF Fits, l
  <2>3. topic \in P!Stage /\ p = q => l \in Seq(P!StageMessage) /\ m \in P!StageMessage
    BY <2>1, SameStages DEF Fits, l
  <2>4. log'[P!Results][p] \in Seq(P!ResultEvent)
    <3>1. CASE topic = P!Results /\ p = q
      <4>1. Append(l, m) \in Seq(P!ResultEvent)
        BY <2>2, <3>1
      <4> QED
        BY <1>6, <3>1, <4>1
    <3>2. CASE ~(topic = P!Results /\ p = q)
      BY <1>6, <2>1, <3>2, SameStages
    <3> QED
      BY <3>1, <3>2
  <2>5. ASSUME NEW s \in P!Stage PROVE log'[s][p] \in Seq(P!StageMessage)
    <3>1. CASE topic = s /\ p = q
      <4>1. Append(l, m) \in Seq(P!StageMessage)
        BY <2>3, <3>1
      <4> QED
        BY <1>6, <3>1, <4>1
    <3>2. CASE ~(topic = s /\ p = q)
      <4>1. log'[s][p] = log[s][p]
        BY <1>6, <3>2, SameStages
      <4> QED
        BY <2>1, <4>1
    <3> QED
      BY <3>1, <3>2
  <2> QED
    BY <2>4, <2>5
<1> QED
  BY <1>5, <1>8, <1>9, <1>10

(* The record a consumer holds lies in the log of its partition.           *)
LEMMA HeldIsRecord ==
    ASSUME P!TypeOK, LogOK, OffsetsOK, NEW k \in P!Consumers, consumer_pc[k] # "poll"
    PROVE  /\ at[k] \in Partitions
           /\ position[k][at[k]] \in 1 .. Len(log[k][at[k]])
           /\ P!Held(k) \in P!RecordsOf(k, at[k])
           /\ P!Held(k).job \in Jobs
           /\ k = P!Results => P!Held(k) \in P!ResultEvent
           /\ k \in P!Stage => P!Held(k) \in P!StageMessage
<1>1. /\ at[k] \in Partitions
      /\ position[k][at[k]] \in Nat
      /\ position[k][at[k]] >= 1 /\ position[k][at[k]] <= Len(log[k][at[k]])
  BY DEF P!TypeOK, OffsetsOK
<1>2. position[k][at[k]] \in 1 .. Len(log[k][at[k]])
  BY <1>1, LogType
<1>3. P!Held(k) \in P!RecordsOf(k, at[k])
  BY <1>2 DEF P!Held, P!RecordsOf
<1>4. k = P!Results => P!Held(k) \in P!ResultEvent
  <2>1. log[P!Results][at[k]] \in Seq(P!ResultEvent)
    BY <1>1 DEF P!TypeOK
  <2> QED
    BY <1>2, <2>1 DEF P!Held
<1>5. k \in P!Stage => P!Held(k) \in P!StageMessage
  <2>1. k \in P!Stage => log[k][at[k]] \in Seq(P!StageMessage)
    BY <1>1 DEF P!TypeOK
  <2> QED
    BY <1>2, <2>1 DEF P!Held
<1>6. k = P!Results \/ k \in P!Stage
  BY DEF P!Consumers
<1>7. P!Held(k).job \in Jobs
  BY <1>4, <1>5, <1>6 DEF P!ResultEvent, P!StageMessage
<1> QED
  BY <1>1, <1>2, <1>3, <1>4, <1>5, <1>7

LEMMA HeldStays ==
    ASSUME P!TypeOK, LogOK, LogGrows, OffsetsOK, NEW k \in P!Consumers,
           consumer_pc[k] # "poll", position'[k] = position[k], at'[k] = at[k]
    PROVE  P!Held(k)' = P!Held(k)
<1>1. PICK p, i : p = at[k] /\ i = position[k][p]
  OBVIOUS
<1>2. p \in Partitions /\ i \in 1 .. Len(log[k][p])
  BY <1>1, HeldIsRecord
<1>3. log'[k][p][i] = log[k][p][i]
  BY <1>2 DEF LogGrows
<1>4. at'[k] = p /\ position'[k][p] = i
  BY <1>1
<1> QED
  BY <1>1, <1>3, <1>4 DEF P!Held

-----------------------------------------------------------------------------
(* The processing's half of the invariant, step by step.                   *)

ProcessingInv == P!TypeOK /\ LogOK /\ OffsetsOK /\ NextInv /\ PublishedWork

(* While the processing stands still.                                      *)
LEMMA ApiKeepsProcessing ==
    ASSUME IInv, ProcessingInv, [Next]_vars, UNCHANGED pipelineVars
    PROVE  ProcessingInv'
<1>1. UNCHANGED <<selected, done, current_stage, job_status, hashed, files, log, position,
                  committed, consumer_pc, at, uploads>>
  BY DEF pipelineVars, rowVars
<1>2. P!TypeOK' /\ LogOK' /\ OffsetsOK' /\ NextInv'
  BY <1>1 DEF ProcessingInv, P!TypeOK, LogOK, OffsetsOK, NextInv, P!IsLast, P!Held
<1>3. ASSUME NEW k \in P!Consumers, NEW p \in Partitions, NEW r \in P!RecordsOf(k, p)
      PROVE  published'[r.job] > 0
  <2>1. PICK i \in 1 .. Len(log[k][p]) : r = log[k][p][i]
    BY DEF P!RecordsOf
  <2>2. r \in Record
    BY <2>1, LogType DEF ProcessingInv
  <2>3. r.job \in Jobs
    BY <2>2 DEF Record, P!StageMessage, P!ResultEvent
  <2> QED
    BY <2>3, PublishedStays DEF ProcessingInv, PublishedWork
<1>4. \A j \in Jobs, s \in P!Stage : files[j][s] > 0 => published'[j] > 0
  BY PublishedStays DEF ProcessingInv, PublishedWork
<1>5. PublishedWork'
  BY <1>1, <1>3, <1>4 DEF PublishedWork, P!RecordsOf
<1> QED
  BY <1>2, <1>5 DEF ProcessingInv

(* The record of the first stage is appended for the job that is published. *)
LEMMA FirstKeepsProcessing ==
    ASSUME IInv, ProcessingInv, [Next]_vars, NEW c \in Calls, PublishStep(c)
    PROVE  ProcessingInv' /\ LogGrows
<1> DEFINE j == job[c]
           f == P!FirstStage(selected[j])
           m == [job |-> j, input |-> P!Original]
<1>1. /\ j \in Jobs /\ published[j] \in Nat /\ published'[j] = published[j] + 1
  BY DEF IInv, TypeOK, PublishStep, Publish, PublishTimesOut
<1>2. /\ P!Append1(f, j, m)
      /\ UNCHANGED <<selected, done, current_stage, job_status, hashed, files, position,
                     committed, consumer_pc, at, uploads>>
  BY DEF PublishStep, P!PublishFirst, P!jobVars, P!kafkaVars
<1>3. P!TypeOK /\ LogOK /\ OffsetsOK /\ NextInv /\ PublishedWork /\ LogsTyped
  BY DEF ProcessingInv, LogsTyped, P!TypeOK
<1>4. Fits(f, m)
  BY <1>1, <1>3, StagesOfJob DEF Fits, P!StageMessage
<1> HIDE DEF f, m
<1>5. /\ LogOK' /\ LogsTyped' /\ LogGrows
      /\ \A k \in P!Consumers, p \in Partitions : \A r \in P!RecordsOf(k, p)' :
            r = m \/ r \in P!RecordsOf(k, p)
  BY <1>1, <1>2, <1>3, <1>4, AppendStep
<1>6. P!TypeOK'
  BY <1>2, <1>3, <1>5 DEF P!TypeOK, LogsTyped
<1>7. OffsetsOK'
  <2>1. ASSUME NEW k \in P!Consumers, NEW p \in Partitions
        PROVE  position[k][p] <= Len(log'[k][p])
    <3>1. /\ position[k][p] \in Nat /\ Len(log[k][p]) \in Nat /\ Len(log'[k][p]) \in Nat
          /\ position[k][p] <= Len(log[k][p]) /\ Len(log[k][p]) <= Len(log'[k][p])
      BY <1>3, <1>5, LogType DEF P!TypeOK, OffsetsOK, LogGrows, LogOK
    <3> QED
      BY <3>1
  <2> QED
    BY <1>2, <1>3, <2>1 DEF OffsetsOK
<1>8. NextInv'
  <2>1. consumer_pc[P!Results] = "publish" => P!Held(P!Results)' = P!Held(P!Results)
    BY <1>2, <1>3, <1>5, SameStages, HeldStays
  <2> QED
    BY <1>2, <1>3, <2>1 DEF NextInv, P!IsLast
<1>9. PublishedWork'
  <2>1. ASSUME NEW k \in P!Consumers, NEW p \in Partitions, NEW r \in P!RecordsOf(k, p)'
        PROVE  published'[r.job] > 0
    <3>1. CASE r = m
      BY <1>1, <3>1 DEF m
    <3>2. CASE r \in P!RecordsOf(k, p)
      <4>1. PICK i \in 1 .. Len(log[k][p]) : r = log[k][p][i]
        BY <3>2 DEF P!RecordsOf
      <4>2. r \in Record
        BY <1>3, <4>1, LogType
      <4>3. r.job \in Jobs
        BY <4>2 DEF Record, P!StageMessage, P!ResultEvent
      <4> QED
        BY <1>3, <3>2, <4>3, PublishedStays DEF PublishedWork
    <3> QED
      BY <1>5, <3>1, <3>2
  <2>2. \A i \in Jobs, s \in P!Stage : files'[i][s] > 0 => published'[i] > 0
    BY <1>2, <1>3, PublishedStays DEF PublishedWork
  <2> QED
    BY <2>1, <2>2 DEF PublishedWork
<1> QED
  BY <1>5, <1>6, <1>7, <1>8, <1>9 DEF ProcessingInv

(* A consumer moves in its topic, or to its next await.                    *)
LEMMA MoveKeeps ==
    ASSUME ProcessingInv, UNCHANGED <<vars, selected, files, log>>, P!TypeOK',
           NEW k \in P!Consumers,
           \A i \in P!Consumers : i # k => /\ position'[i] = position[i] /\ at'[i] = at[i]
                                           /\ consumer_pc'[i] = consumer_pc[i],
           consumer_pc'[k] # "poll" => position'[k][at'[k]] >= 1,
           \A p \in Partitions : position'[k][p] <= Len(log[k][p]),
           k = P!Results => NextInv'
    PROVE  ProcessingInv'
<1>1. LogOK /\ OffsetsOK /\ NextInv /\ PublishedWork
  BY DEF ProcessingInv
<1>2. published' = published /\ selected' = selected /\ files' = files /\ log' = log
  BY DEF vars
<1>3. LogOK' /\ PublishedWork'
  BY <1>1, <1>2 DEF LogOK, PublishedWork, P!RecordsOf
<1>4. OffsetsOK'
  <2> SUFFICES ASSUME NEW i \in P!Consumers
               PROVE  /\ consumer_pc'[i] # "poll" => position'[i][at'[i]] >= 1
                      /\ \A p \in Partitions : position'[i][p] <= Len(log'[i][p])
    BY DEF OffsetsOK
  <2>1. CASE i = k
    BY <1>2, <2>1
  <2>2. CASE i # k
    BY <1>1, <1>2, <2>2 DEF OffsetsOK
  <2> QED
    BY <2>1, <2>2
<1>5. NextInv'
  <2>1. CASE k # P!Results
    <3>1. /\ position'[P!Results] = position[P!Results] /\ at'[P!Results] = at[P!Results]
          /\ consumer_pc'[P!Results] = consumer_pc[P!Results]
      BY <2>1, SameStages
    <3> QED
      BY <1>1, <1>2, <3>1 DEF NextInv, P!IsLast, P!Held
  <2> QED
    BY <2>1
<1> QED
  BY <1>3, <1>4, <1>5 DEF ProcessingInv

LEMMA FetchKeeps ==
    ASSUME ProcessingInv, UNCHANGED vars, NEW k \in P!Consumers, P!Fetch(k)
    PROVE  ProcessingInv'
<1> USE DEF P!Fetch, P!Goto, P!jobVars
<1>1. PICK p \in Partitions : /\ position[k][p] < Len(log[k][p])
                              /\ position' = [position EXCEPT ![k][p] = @ + 1]
                              /\ at' = [at EXCEPT ![k] = p]
  OBVIOUS
<1>2. P!TypeOK /\ LogOK /\ OffsetsOK
  BY DEF ProcessingInv
<1>3. P!TypeOK'
  BY <1>1, <1>2 DEF P!TypeOK
<1>4. /\ consumer_pc'[k] = "work" /\ at'[k] = p
      /\ position'[k][p] = position[k][p] + 1
      /\ \A q \in Partitions : q # p => position'[k][q] = position[k][q]
      /\ \A i \in P!Consumers : i # k => /\ position'[i] = position[i] /\ at'[i] = at[i]
                                         /\ consumer_pc'[i] = consumer_pc[i]
  BY <1>1, <1>2 DEF P!TypeOK
<1>5. \A q \in Partitions : position[k][q] \in Nat /\ Len(log[k][q]) \in Nat
  BY <1>2, LogType DEF P!TypeOK
<1>6. \A q \in Partitions : position'[k][q] <= Len(log[k][q])
  BY <1>1, <1>2, <1>4, <1>5 DEF OffsetsOK
<1>7. position'[k][at'[k]] >= 1
  BY <1>4, <1>5
<1>8. k = P!Results => NextInv'
  BY <1>4 DEF NextInv
<1>9. UNCHANGED <<selected, files, log>>
  OBVIOUS
<1> QED
  BY <1>3, <1>4, <1>6, <1>7, <1>8, <1>9, MoveKeeps

LEMMA CommitOffsetsKeeps ==
    ASSUME ProcessingInv, UNCHANGED vars, NEW k \in P!Consumers, P!CommitOffsets(k)
    PROVE  ProcessingInv'
<1> USE DEF P!CommitOffsets, P!Goto, P!jobVars
<1>1. P!TypeOK /\ OffsetsOK
  BY DEF ProcessingInv
<1>2. P!TypeOK'
  BY <1>1 DEF P!TypeOK
<1>3. /\ consumer_pc'[k] = "poll"
      /\ \A i \in P!Consumers : i # k => consumer_pc'[i] = consumer_pc[i]
  BY <1>1 DEF P!TypeOK
<1>4. \A q \in Partitions : position'[k][q] <= Len(log[k][q])
  BY <1>1 DEF OffsetsOK
<1>5. k = P!Results => NextInv'
  BY <1>3 DEF NextInv
<1>6. UNCHANGED <<selected, files, log>>
  OBVIOUS
<1> QED
  BY <1>2, <1>3, <1>4, <1>5, <1>6, MoveKeeps

(* A worker without its input, and the result consumer without its row,    *)
(* go back to the record.                                                  *)
LEMMA SeekKeeps ==
    ASSUME ProcessingInv, UNCHANGED vars, NEW k \in P!Consumers, P!SeekBack(k)
    PROVE  ProcessingInv'
<1> USE DEF P!SeekBack, P!Seek, P!Goto, P!jobVars
<1>1. P!TypeOK /\ LogOK /\ OffsetsOK
  BY DEF ProcessingInv
<1>2. at[k] \in Partitions /\ position[k][at[k]] \in 1 .. Len(log[k][at[k]])
  BY <1>1, HeldIsRecord
<1>3. \A q \in Partitions : position[k][q] \in Nat /\ Len(log[k][q]) \in Nat
  BY <1>1, LogType DEF P!TypeOK
<1>4. P!TypeOK'
  BY <1>1, <1>2, <1>3 DEF P!TypeOK
<1>5. /\ consumer_pc'[k] = "poll"
      /\ position'[k][at[k]] = position[k][at[k]] - 1
      /\ \A q \in Partitions : q # at[k] => position'[k][q] = position[k][q]
      /\ \A i \in P!Consumers : i # k => /\ position'[i] = position[i] /\ at'[i] = at[i]
                                         /\ consumer_pc'[i] = consumer_pc[i]
  BY <1>1, <1>2 DEF P!TypeOK
<1>6. \A q \in Partitions : position'[k][q] <= Len(log[k][q])
  BY <1>1, <1>2, <1>3, <1>5 DEF OffsetsOK
<1>7. k = P!Results => NextInv'
  BY <1>5 DEF NextInv
<1>8. selected' = selected
  OBVIOUS
<1> QED
  BY <1>4, <1>5, <1>6, <1>7, <1>8, MoveKeeps

(* The result consumer goes on in its transaction.                         *)
LEMMA ApplyResultKeeps ==
    ASSUME ProcessingInv, UNCHANGED vars, P!ApplyResult
    PROVE  ProcessingInv'
<1> DEFINE R == P!Results
<1>1. P!TypeOK /\ LogOK /\ OffsetsOK /\ R \in P!Consumers
  BY SameStages DEF ProcessingInv
<1>2. /\ consumer_pc[R] = "work"
      /\ consumer_pc' = [consumer_pc EXCEPT ![R] =
                            IF P!Duplicate(P!Held(R)) THEN "commit"
                            ELSE IF P!IsLast(P!Held(R)) THEN "save" ELSE "publish"]
      /\ UNCHANGED <<selected, done, current_stage, job_status, hashed, files, log, position,
                     committed, at, uploads>>
  BY DEF P!ApplyResult, P!Goto, P!jobVars, P!kafkaVars
<1>3. P!TypeOK'
  BY <1>1, <1>2 DEF P!TypeOK
<1>4. \A i \in P!Consumers : i # R => consumer_pc'[i] = consumer_pc[i]
  BY <1>1, <1>2 DEF P!TypeOK
<1>5. position[R][at[R]] >= 1 /\ \A p \in Partitions : position[R][p] <= Len(log[R][p])
  BY <1>1, <1>2 DEF OffsetsOK
<1>6. NextInv'
  <2>1. consumer_pc'[R] = "publish" => ~P!IsLast(P!Held(R))
    BY <1>1, <1>2 DEF P!TypeOK
  <2>2. P!IsLast(P!Held(R))' <=> P!IsLast(P!Held(R))
    BY <1>2 DEF P!IsLast, P!Held
  <2> QED
    BY <2>1, <2>2 DEF NextInv
<1>7. UNCHANGED <<selected, files, log>>
  BY <1>2
<1> QED
  BY <1>1, <1>2, <1>3, <1>4, <1>5, <1>6, <1>7, MoveKeeps

LEMMA SaveResultKeeps ==
    ASSUME ProcessingInv, UNCHANGED vars, P!SaveResult
    PROVE  ProcessingInv'
<1> DEFINE R == P!Results
<1>1. P!TypeOK /\ LogOK /\ OffsetsOK /\ R \in P!Consumers
  BY SameStages DEF ProcessingInv
<1>2. PICK e : e = P!Held(R)
  OBVIOUS
<1>3. /\ consumer_pc[R] = "save"
      /\ done' = [done EXCEPT ![e.job] = @ \cup {e.completed_stage}]
      /\ hashed' = [hashed EXCEPT ![e.job] = @ \/ e.is_initial]
      /\ job_status' = [job_status EXCEPT ![e.job] =
                            IF P!IsLast(e) THEN "COMPLETED" ELSE "PROCESSING"]
      /\ current_stage' = [current_stage EXCEPT ![e.job] =
                              IF P!IsLast(e) THEN e.completed_stage
                              ELSE P!NextStage(selected[e.job], e.completed_stage)]
      /\ consumer_pc' = [consumer_pc EXCEPT ![R] = "commit"]
      /\ UNCHANGED <<selected, files, log, position, committed, at, uploads>>
  BY <1>2 DEF P!SaveResult, P!Goto, P!kafkaVars
<1>4. e \in P!ResultEvent
  BY <1>1, <1>2, <1>3, HeldIsRecord
<1>5. e.job \in Jobs /\ e.completed_stage \in P!Stage /\ e.is_initial \in BOOLEAN
  BY <1>4 DEF P!ResultEvent
<1>6. ~P!IsLast(e) => P!NextStage(selected[e.job], e.completed_stage) \in P!Stage
  BY <1>1, <1>5, StagesOfJob DEF P!IsLast
<1>7. /\ done' \in [Jobs -> SUBSET P!Stage] /\ current_stage' \in [Jobs -> P!Stage]
      /\ job_status' \in [Jobs -> {"QUEUED", "PROCESSING", "COMPLETED"}]
  BY <1>1, <1>3, <1>5, <1>6 DEF P!TypeOK
<1>8. hashed' \in [Jobs -> BOOLEAN]
  BY <1>1, <1>3, <1>5 DEF P!TypeOK
<1>9. P!TypeOK'
  BY <1>1, <1>3, <1>7, <1>8 DEF P!TypeOK
<1>10. \A i \in P!Consumers : i # R => consumer_pc'[i] = consumer_pc[i]
  BY <1>1, <1>3 DEF P!TypeOK
<1>11. position[R][at[R]] >= 1 /\ \A p \in Partitions : position[R][p] <= Len(log[R][p])
  BY <1>1, <1>3 DEF OffsetsOK
<1>12. NextInv'
  BY <1>1, <1>3 DEF P!TypeOK, NextInv
<1> QED
  BY <1>1, <1>3, <1>9, <1>10, <1>11, <1>12, MoveKeeps

(* A worker uploads an output only for a job whose message it holds.       *)
LEMMA UploadOutputKeeps ==
    ASSUME ProcessingInv, UNCHANGED vars, NEW s \in P!Stage, P!UploadOutput(s)
    PROVE  ProcessingInv'
<1>1. /\ P!TypeOK /\ LogOK /\ OffsetsOK /\ NextInv /\ PublishedWork
      /\ s \in P!Consumers /\ s # P!Results
  BY SameStages DEF ProcessingInv
<1>2. PICK h : h = P!Held(s)
  OBVIOUS
<1>3. /\ consumer_pc[s] = "work"
      /\ uploads' = [uploads EXCEPT ![s] = @ + 1]
      /\ files' = [files EXCEPT ![h.job][s] = IF @ < uploads[s] + 1 THEN uploads[s] + 1 ELSE @]
      /\ consumer_pc' = [consumer_pc EXCEPT ![s] =
                            IF uploads[s] + 1 < P!OutputCount(s) THEN "work" ELSE "publish"]
      /\ UNCHANGED <<selected, done, current_stage, job_status, hashed, log, position,
                     committed, at>>
  BY <1>2 DEF P!UploadOutput, P!Goto, P!jobVars, P!kafkaVars
<1>4. h.job \in Jobs /\ published[h.job] > 0
  BY <1>1, <1>2, <1>3, HeldIsRecord DEF PublishedWork
<1>5. /\ files' \in [Jobs -> [P!Stage -> Nat]]
      /\ \A j \in Jobs, t \in P!Stage : files'[j][t] > 0 => files[j][t] > 0 \/ j = h.job
  <2>1. files \in [Jobs -> [P!Stage -> Nat]] /\ uploads[s] + 1 \in Nat
    BY <1>1 DEF P!TypeOK
  <2>2. PICK n : n = IF files[h.job][s] < uploads[s] + 1 THEN uploads[s] + 1
                                                        ELSE files[h.job][s]
    OBVIOUS
  <2>3. n \in Nat /\ files' = [files EXCEPT ![h.job][s] = n]
    BY <1>3, <1>4, <2>1, <2>2
  <2> QED
    BY <1>4, <2>1, <2>3
<1>6. P!TypeOK'
  <2>1. uploads' \in [P!Stage -> Nat]
    BY <1>1, <1>3 DEF P!TypeOK
  <2>2. consumer_pc' \in [P!Consumers -> {"poll", "work", "publish", "save", "commit"}]
    BY <1>1, <1>3 DEF P!TypeOK
  <2> QED
    BY <1>1, <1>3, <1>5, <2>1, <2>2 DEF P!TypeOK
<1>7. LogOK' /\ OffsetsOK'
  <2>1. \A i \in P!Consumers : consumer_pc'[i] # "poll" => consumer_pc[i] # "poll"
    BY <1>1, <1>3 DEF P!TypeOK
  <2> QED
    BY <1>1, <1>3, <2>1 DEF LogOK, OffsetsOK
<1>8. NextInv'
  BY <1>1, <1>3, SameStages DEF P!TypeOK, NextInv, P!IsLast, P!Held
<1>9. PublishedWork'
  <2>1. published' = published /\ log' = log
    BY <1>3 DEF vars
  <2>2. \A j \in Jobs, t \in P!Stage : files'[j][t] > 0 => published[j] > 0
    BY <1>1, <1>4, <1>5 DEF PublishedWork
  <2> QED
    BY <1>1, <2>1, <2>2 DEF PublishedWork, P!RecordsOf
<1> QED
  BY <1>6, <1>7, <1>8, <1>9 DEF ProcessingInv

(* A consumer appends a record for the job of the one it holds.            *)
LEMMA SendKeeps ==
    ASSUME ProcessingInv, UNCHANGED vars, NEW k \in P!Consumers, consumer_pc[k] = "publish",
           NEW topic, NEW m, Fits(topic, m), m.job = P!Held(k).job,
           P!Append1(topic, m.job, m), NEW l \in {"save", "commit"}, P!Goto(k, l),
           UNCHANGED <<selected, done, current_stage, job_status, hashed, files, position,
                       committed, at, uploads>>
    PROVE  ProcessingInv' /\ LogGrows
<1>1. P!TypeOK /\ LogOK /\ OffsetsOK /\ NextInv /\ PublishedWork /\ LogsTyped
  BY DEF ProcessingInv, LogsTyped, P!TypeOK
<1>2. m.job \in Jobs /\ published[m.job] > 0
  BY <1>1, HeldIsRecord DEF PublishedWork
<1>3. /\ LogOK' /\ LogsTyped' /\ LogGrows
      /\ \A i \in P!Consumers, p \in Partitions : \A r \in P!RecordsOf(i, p)' :
            r = m \/ r \in P!RecordsOf(i, p)
  BY <1>1, <1>2, AppendStep
<1>4. consumer_pc' = [consumer_pc EXCEPT ![k] = l]
  BY DEF P!Goto
<1>5. P!TypeOK'
  BY <1>1, <1>3, <1>4 DEF P!TypeOK, LogsTyped
<1>6. OffsetsOK'
  <2>1. ASSUME NEW i \in P!Consumers, NEW p \in Partitions
        PROVE  position[i][p] <= Len(log'[i][p])
    <3>1. Len(log[i][p]) \in Nat
      BY <1>1, LogType
    <3>2. Len(log'[i][p]) \in Nat
      BY <1>3 DEF LogOK
    <3>3. /\ position[i][p] \in Nat /\ position[i][p] <= Len(log[i][p])
          /\ Len(log[i][p]) <= Len(log'[i][p])
      BY <1>1, <1>3 DEF P!TypeOK, OffsetsOK, LogGrows
    <3> QED
      BY <3>1, <3>2, <3>3
  <2>2. \A i \in P!Consumers : consumer_pc'[i] # "poll" => consumer_pc[i] # "poll"
    BY <1>1, <1>4 DEF P!TypeOK
  <2> QED
    BY <1>1, <2>1, <2>2 DEF OffsetsOK
<1>7. NextInv'
  <2>1. consumer_pc'[P!Results] = "publish" =>
            consumer_pc[P!Results] = "publish" /\ k # P!Results
    BY <1>1, <1>4, SameStages DEF P!TypeOK
  <2>2. consumer_pc'[P!Results] = "publish" => P!Held(P!Results)' = P!Held(P!Results)
    BY <1>1, <1>3, <2>1, SameStages, HeldStays
  <2> QED
    BY <1>1, <2>1, <2>2 DEF NextInv, P!IsLast
<1>8. PublishedWork'
  BY <1>1, <1>2, <1>3 DEF PublishedWork, vars
<1> QED
  BY <1>3, <1>5, <1>6, <1>7, <1>8 DEF ProcessingInv

LEMMA PublishResultKeeps ==
    ASSUME ProcessingInv, UNCHANGED vars, NEW s \in P!Stage, P!PublishResult(s)
    PROVE  ProcessingInv' /\ LogGrows
<1> DEFINE m == P!ResultOf(s)
<1>1. P!TypeOK /\ LogOK /\ OffsetsOK /\ s \in P!Consumers
  BY SameStages DEF ProcessingInv
<1>2. /\ consumer_pc[s] = "publish"
      /\ P!Append1(P!Results, P!Held(s).job, m) /\ P!Goto(s, "commit")
      /\ UNCHANGED <<selected, done, current_stage, job_status, hashed, files, position,
                     committed, at, uploads>>
  BY DEF P!PublishResult, P!Send, P!jobVars, P!kafkaVars
<1>3. P!Held(s) \in P!StageMessage
  BY <1>1, <1>2, HeldIsRecord
<1>4. m.job = P!Held(s).job /\ m \in P!ResultEvent
  BY <1>3 DEF P!ResultOf, P!ResultEvent, P!StageMessage
<1>5. Fits(P!Results, m)
  BY <1>4 DEF Fits
<1> HIDE DEF m
<1> QED
  BY <1>1, <1>2, <1>4, <1>5, SendKeeps

LEMMA PublishNextKeeps ==
    ASSUME ProcessingInv, UNCHANGED vars, P!PublishNext
    PROVE  ProcessingInv' /\ LogGrows
<1> DEFINE R == P!Results
<1>1. P!TypeOK /\ LogOK /\ OffsetsOK /\ NextInv /\ R \in P!Consumers
  BY SameStages DEF ProcessingInv
<1>2. PICK e : e = P!Held(R)
  OBVIOUS
<1>3. PICK m, n : m = P!NextMessage(e) /\ n = P!NextStage(selected[e.job], e.completed_stage)
  OBVIOUS
<1>4. /\ consumer_pc[R] = "publish"
      /\ P!Append1(n, e.job, m) /\ P!Goto(R, "save")
      /\ UNCHANGED <<selected, done, current_stage, job_status, hashed, files, position,
                     committed, at, uploads>>
  BY <1>2, <1>3 DEF P!PublishNext, P!Send, P!jobVars, P!kafkaVars
<1>5. e \in P!ResultEvent /\ ~P!IsLast(e)
  BY <1>1, <1>2, <1>4, HeldIsRecord DEF NextInv
<1>6. e.job \in Jobs /\ e.completed_stage \in P!Stage
  BY <1>5 DEF P!ResultEvent
<1>7. n \in P!Stage
  BY <1>1, <1>3, <1>5, <1>6, StagesOfJob DEF P!IsLast
<1>8. m.job = e.job /\ m \in P!StageMessage
  BY <1>3, <1>6 DEF P!NextMessage, P!StageMessage
<1>9. Fits(n, m)
  BY <1>7, <1>8 DEF Fits
<1> QED
  BY <1>1, <1>2, <1>4, <1>8, <1>9, SendKeeps

-----------------------------------------------------------------------------
(* The row of the result at hand.                                          *)

RowStands(j) == status[j] = "QUEUED" /\ row_lock[j] = Nobody

(* The lock of the result's transaction keeps every call's statement away  *)
(* from its row, and no call owns a row it has not locked.                 *)
LEMMA LockedRowStands ==
    ASSUME IInv, NEW j \in Jobs, ResultLocks(j), RowStands(j),
           \/ ClientStep
           \/ \E c \in Calls : ConfirmStep(c) \/ PublishStep(c) \/ FailStep(c)
    PROVE  RowStands(j)'
<1> USE DEF TypeOK, RowStands, dbVars, lockVars, Goto
<1>1. TypeOK /\ RowLockInv /\ PublishInv
  BY DEF IInv
<1>2. CASE ClientStep
  <2>1. ASSUME NEW i \in Jobs, CommitRequest(i) PROVE RowStands(j)'
    BY <1>1, <2>1 DEF CommitRequest, PublishInv
  <2>2. ASSUME NEW c \in Calls, Authenticate(c) PROVE RowStands(j)'
    BY <2>2 DEF Authenticate
  <2>3. ASSUME NEW i \in Jobs, RequestUpload(i) \/ LoseRequest(i) \/ PostObject(i)
        PROVE  RowStands(j)'
    BY <2>3 DEF RequestUpload, LoseRequest, PostObject
  <2> QED
    BY <1>2, <2>1, <2>2, <2>3 DEF ClientStep
<1>3. ASSUME NEW c \in Calls, ConfirmStep(c) PROVE RowStands(j)'
  <2>1. CASE ReadJob(c) \/ HeadObject(c) \/ DeleteObject(c)
    BY <2>1 DEF ReadJob, HeadObject, DeleteObject
  <2>2. CASE ChargeUser(c)
    BY <1>1, <2>2 DEF ChargeUser
  <2>3. CASE CommitConfirm(c)
    <3>1. row_lock[job[c]] = c /\ c # Nobody
      BY <1>1, <2>3 DEF CommitConfirm, RowLockInv
    <3> QED
      BY <1>1, <2>3, <3>1 DEF CommitConfirm
  <2>4. CASE CommitDelete(c)
    <3>1. row_lock[j] # c
      OBVIOUS
    <3> QED
      BY <1>1, <2>4, <3>1 DEF CommitDelete
  <2>5. CASE ~ResultLocks(job[c]) /\ (QueueRow(c) \/ DeleteRow(c))
    <3>1. job[c] # j
      BY <2>5
    <3> QED
      BY <1>1, <2>5, <3>1 DEF QueueRow, DeleteRow
  <2> QED
    BY <1>3, <2>1, <2>2, <2>3, <2>4, <2>5 DEF ConfirmStep
<1>4. ASSUME NEW c \in Calls, PublishStep(c) PROVE RowStands(j)'
  BY <1>4 DEF PublishStep, Publish, PublishTimesOut
<1>5. ASSUME NEW c \in Calls, FailStep(c) PROVE RowStands(j)'
  BY <1>1, <1>5 DEF FailStep, Fail
<1> QED
  BY <1>2, <1>3, <1>4, <1>5

(* A result is applied only to a row that is there, and then it is queued: *)
(* its job's first message was published, so it is no longer pending.      *)
LEMMA AppliedRowStands ==
    ASSUME IInv, ProcessingInv, LockAndApply
    PROVE  RowStands(P!Held(P!Results).job)
<1> DEFINE R == P!Results
           j == P!Held(R).job
<1>1. P!TypeOK /\ LogOK /\ OffsetsOK /\ R \in P!Consumers
  BY SameStages DEF ProcessingInv
<1>2. consumer_pc[R] = "work" /\ row_lock[j] = Nobody /\ status[j] # "NO_ROW"
  BY DEF LockAndApply, RowGone
<1>3. /\ j \in Jobs /\ at[R] \in Partitions
      /\ P!Held(R) \in P!RecordsOf(R, at[R])
  BY <1>1, <1>2, HeldIsRecord
<1>4. published[j] > 0
  BY <1>1, <1>3 DEF ProcessingInv, PublishedWork
<1> HIDE DEF j
<1>5. status[j] \in Statuses /\ status[j] # "PENDING_UPLOAD"
  BY <1>3, <1>4 DEF IInv, TypeOK, PublishedAfterQueued
<1> QED
  BY <1>2, <1>5 DEF Statuses, RowStands, j

-----------------------------------------------------------------------------
(* Every step keeps the invariant.                                         *)

(* A step of the API.                                                      *)
LEMMA ApiKeepsInv ==
    ASSUME SystemInv, SystemNext,
           \/ ClientStep
           \/ \E c \in Calls : ConfirmStep(c) \/ PublishStep(c) \/ FailStep(c)
    PROVE  ProcessingInv' /\ ResultsHaveTheirRow'
<1> DEFINE R == P!Results
<1>1. IInv /\ [Next]_vars /\ ProcessingInv
  BY ApiStep DEF SystemInv, ProcessingInv
<1>2. /\ ProcessingInv' /\ UNCHANGED <<selected, position, at, consumer_pc>>
      /\ LogGrows \/ log' = log
  <2>1. CASE UNCHANGED pipelineVars
    BY <1>1, <2>1, ApiKeepsProcessing DEF pipelineVars, rowVars
  <2>2. ASSUME NEW c \in Calls, PublishStep(c)
        PROVE  /\ ProcessingInv' /\ LogGrows
               /\ UNCHANGED <<selected, position, at, consumer_pc>>
    BY <1>1, <2>2, FirstKeepsProcessing DEF PublishStep, P!PublishFirst, P!jobVars, P!kafkaVars
  <2> QED
    BY <2>1, <2>2 DEF ClientStep, ConfirmStep, FailStep
<1>3. ASSUME consumer_pc'[R] \in {"publish", "save"}
      PROVE  RowStands(P!Held(R).job)' /\ P!Held(R)' = P!Held(R)
  <2>1. consumer_pc[R] \in {"publish", "save"}
    BY <1>2, <1>3
  <2>2. P!TypeOK /\ LogOK /\ OffsetsOK /\ R \in P!Consumers
    BY <1>1, SameStages DEF ProcessingInv
  <2>3. P!Held(R)' = P!Held(R)
    BY <1>2, <2>1, <2>2, HeldStays DEF P!Held
  <2>4. P!Held(R).job \in Jobs
    BY <2>1, <2>2, HeldIsRecord
  <2>5. PICK j \in Jobs : j = P!Held(R).job
    BY <2>4
  <2>6. ResultLocks(j) /\ RowStands(j)
    BY <2>1, <2>5 DEF SystemInv, ResultsHaveTheirRow, ResultLocks, RowStands
  <2>7. RowStands(j)'
    BY <1>1, <2>6, LockedRowStands
  <2> QED
    BY <2>3, <2>5, <2>7 DEF RowStands
<1> QED
  BY <1>2, <1>3 DEF ResultsHaveTheirRow, RowStands

(* A step of a worker: the result consumer and its row stay as they are.   *)
LEMMA WorkerKeepsInv ==
    ASSUME SystemInv, NEW s \in P!Stage, WorkerStep(s)
    PROVE  ProcessingInv' /\ ResultsHaveTheirRow'
<1> DEFINE R == P!Results
<1>1. /\ ProcessingInv /\ UNCHANGED vars /\ s \in P!Consumers /\ s # R /\ R \in P!Consumers
      /\ P!TypeOK /\ LogOK /\ OffsetsOK
  BY SameStages DEF SystemInv, ProcessingInv, WorkerStep
<1>2. ProcessingInv'
  <2>1. CASE P!PublishResult(s)
    BY <1>1, <2>1, PublishResultKeeps
  <2>2. CASE P!CommitOffsets(s)
    BY <1>1, <2>2, CommitOffsetsKeeps
  <2>3. CASE P!UploadOutput(s)
    BY <1>1, <2>3, UploadOutputKeeps
  <2>4. CASE RetryMissing(s)
    BY <1>1, <2>4, SeekKeeps DEF RetryMissing
  <2>5. CASE P!Fetch(s)
    BY <1>1, <2>5, FetchKeeps
  <2>6. CASE Download(s)
    BY <1>1, <2>6, ApiKeepsProcessing DEF Download, SystemInv
  <2> QED
    BY <2>1, <2>2, <2>3, <2>4, <2>5, <2>6 DEF WorkerStep
<1>3. /\ position'[R] = position[R] /\ at'[R] = at[R] /\ consumer_pc'[R] = consumer_pc[R]
  <2>1. CASE P!PublishResult(s)
    BY <1>1, <2>1 DEF P!PublishResult, P!Send, P!Goto, P!kafkaVars, P!TypeOK
  <2>2. CASE P!CommitOffsets(s)
    BY <1>1, <2>2 DEF P!CommitOffsets, P!Goto, P!TypeOK
  <2>3. CASE P!UploadOutput(s)
    BY <1>1, <2>3 DEF P!UploadOutput, P!Goto, P!kafkaVars, P!TypeOK
  <2>4. CASE RetryMissing(s)
    BY <1>1, <2>4 DEF RetryMissing, P!SeekBack, P!Seek, P!Goto, P!TypeOK
  <2>5. CASE P!Fetch(s)
    <3>1. PICK p \in Partitions : /\ position' = [position EXCEPT ![s][p] = @ + 1]
                                  /\ at' = [at EXCEPT ![s] = p]
      BY <2>5 DEF P!Fetch
    <3> QED
      BY <1>1, <2>5, <3>1 DEF P!Fetch, P!Goto, P!TypeOK
  <2>6. CASE Download(s)
    BY <2>6 DEF Download, pipelineVars
  <2> QED
    BY <2>1, <2>2, <2>3, <2>4, <2>5, <2>6 DEF WorkerStep
<1>4. LogGrows \/ log' = log
  BY <1>1, PublishResultKeeps DEF WorkerStep, P!Fetch, P!CommitOffsets, P!UploadOutput, RetryMissing,
                                 P!SeekBack, Download, pipelineVars
<1>5. consumer_pc[R] # "poll" => P!Held(R)' = P!Held(R)
  BY <1>1, <1>3, <1>4, HeldStays DEF P!Held
<1>6. status' = status /\ row_lock' = row_lock
  BY <1>1 DEF vars, dbVars, lockVars
<1> QED
  BY <1>2, <1>3, <1>5, <1>6 DEF SystemInv, ResultsHaveTheirRow

(* A step of the result consumer.                                          *)
LEMMA ResultKeepsInv ==
    ASSUME SystemInv, ResultStep
    PROVE  ProcessingInv' /\ ResultsHaveTheirRow'
<1> DEFINE R == P!Results
<1>1. /\ IInv /\ ProcessingInv /\ UNCHANGED vars /\ R \in P!Consumers
      /\ P!TypeOK /\ LogOK /\ OffsetsOK
  BY SameStages DEF SystemInv, ProcessingInv, ResultStep
<1>2. status' = status /\ row_lock' = row_lock
  BY <1>1 DEF vars, dbVars, lockVars
<1> DEFINE Idle == consumer_pc'[R] \notin {"publish", "save"}
<1>3. Idle => ResultsHaveTheirRow'
  BY DEF ResultsHaveTheirRow
<1>4. CASE P!Fetch(R)
  BY <1>1, <1>3, <1>4, FetchKeeps DEF P!Fetch, P!Goto, P!TypeOK
<1>5. CASE P!CommitOffsets(R)
  BY <1>1, <1>3, <1>5, CommitOffsetsKeeps DEF P!CommitOffsets, P!Goto, P!TypeOK
<1>6. CASE P!SaveResult
  BY <1>1, <1>3, <1>6, SaveResultKeeps DEF P!SaveResult, P!Goto, P!TypeOK
<1>7. CASE RefuseResult
  BY <1>1, <1>3, <1>7, SeekKeeps DEF RefuseResult, P!SeekBack, P!Goto, P!TypeOK
<1>8. CASE LockAndApply
  <2>1. P!ApplyResult
    BY <1>8 DEF LockAndApply
  <2>2. RowStands(P!Held(R).job)
    BY <1>1, <1>8, AppliedRowStands
  <2>3. P!Held(R)' = P!Held(R)
    BY <2>1 DEF P!ApplyResult, P!Held, P!kafkaVars
  <2> QED
    BY <1>1, <1>2, <2>1, <2>2, <2>3, ApplyResultKeeps DEF ResultsHaveTheirRow, RowStands
<1>9. CASE P!PublishNext
  <2>1. ProcessingInv' /\ LogGrows
    BY <1>1, <1>9, PublishNextKeeps
  <2>2. consumer_pc[R] = "publish" /\ position' = position /\ at' = at
    BY <1>9 DEF P!PublishNext, P!kafkaVars
  <2>3. P!Held(R)' = P!Held(R)
    BY <1>1, <2>1, <2>2, HeldStays
  <2> QED
    BY <1>2, <2>1, <2>2, <2>3 DEF SystemInv, ResultsHaveTheirRow
<1> QED
  BY <1>4, <1>5, <1>6, <1>7, <1>8, <1>9 DEF ResultStep

LEMMA SystemStepKeeps == SystemInv /\ [SystemNext]_systemVars => SystemInv'
<1> SUFFICES ASSUME SystemInv, [SystemNext]_systemVars PROVE SystemInv'
  OBVIOUS
<1>1. IInv' /\ ChargeInv'
  BY ApiKeepsUpload, ChargeStep DEF SystemInv
<1> SUFFICES ProcessingInv' /\ ResultsHaveTheirRow'
  BY <1>1 DEF SystemInv, ProcessingInv
<1>2. CASE SystemNext
  BY <1>2, ApiKeepsInv, WorkerKeepsInv, ResultKeepsInv DEF SystemNext, CallStep
<1>3. CASE UNCHANGED systemVars
  <2>1. UNCHANGED vars /\ UNCHANGED pipelineVars
    BY <1>3 DEF systemVars
  <2>2. ProcessingInv'
    BY <2>1, ApiKeepsProcessing DEF SystemInv, ProcessingInv
  <2>3. /\ status' = status /\ row_lock' = row_lock /\ consumer_pc' = consumer_pc
        /\ P!Held(P!Results)' = P!Held(P!Results)
    BY <2>1 DEF vars, dbVars, lockVars, pipelineVars, P!Held
  <2> QED
    BY <2>2, <2>3 DEF SystemInv, ResultsHaveTheirRow
<1> QED
  BY <1>2, <1>3

(* The rows, the topics and the bucket start empty.                        *)
LEMMA SystemInitHolds == SystemInit => SystemInv
<1> SUFFICES ASSUME SystemInit PROVE SystemInv
  OBVIOUS
<1>1. Init /\ P!Init
  BY DEF SystemInit
<1>2. IInv
  BY <1>1, InvInit
<1>3. ChargeInv
  BY <1>1 DEF Init, ChargeInv
<1>4. /\ selected \in [Jobs -> P!Selections]
      /\ done = [j \in Jobs |-> {}]
      /\ current_stage = [j \in Jobs |-> P!FirstStage(selected[j])]
      /\ job_status = [j \in Jobs |-> "QUEUED"]
      /\ hashed = [j \in Jobs |-> FALSE]
      /\ files = [j \in Jobs |-> [s \in P!Stage |-> 0]]
      /\ log = [k \in P!Consumers |-> [p \in Partitions |-> <<>>]]
      /\ position = [k \in P!Consumers |-> [p \in Partitions |-> 0]]
      /\ committed = position
      /\ consumer_pc = [k \in P!Consumers |-> "poll"]
      /\ at = [k \in P!Consumers |-> CHOOSE p \in Partitions : TRUE]
      /\ uploads = [s \in P!Stage |-> 0]
  BY <1>1 DEF P!Init
<1>5. ASSUME NEW j \in Jobs PROVE current_stage[j] \in P!Stage
  <2>1. selected[j] \in SUBSET Stage /\ selected[j] # {}
    BY <1>4, SameStages DEF Selections, ValidSelection
  <2> QED
    BY <1>4, <2>1, FirstIsLeast, SameStages
<1>6. P!TypeOK
  <2>1. current_stage \in [Jobs -> P!Stage]
    BY <1>4, <1>5
  <2>2. \A p \in Partitions : /\ log[P!Results][p] \in Seq(P!ResultEvent)
                              /\ \A s \in P!Stage : log[s][p] \in Seq(P!StageMessage)
    BY <1>4, SameStages
  <2>3. at \in [P!Consumers -> Partitions]
    BY <1>4
  <2>4. /\ done \in [Jobs -> SUBSET P!Stage] /\ hashed \in [Jobs -> BOOLEAN]
        /\ files \in [Jobs -> [P!Stage -> Nat]] /\ uploads \in [P!Stage -> Nat]
        /\ position \in [P!Consumers -> [Partitions -> Nat]]
    BY <1>4
  <2>5. /\ selected \in [Jobs -> P!Selections]
        /\ job_status \in [Jobs -> {"QUEUED", "PROCESSING", "COMPLETED"}]
        /\ committed \in [P!Consumers -> [Partitions -> Nat]]
        /\ consumer_pc \in [P!Consumers -> {"poll", "work", "publish", "save", "commit"}]
    BY <1>4, <2>4
  <2> QED
    BY <2>1, <2>2, <2>3, <2>4, <2>5 DEF P!TypeOK
<1>7. LogOK
  BY <1>4 DEF LogOK
<1>8. OffsetsOK /\ NextInv /\ ResultsHaveTheirRow
  BY <1>4, SameStages DEF OffsetsOK, NextInv, ResultsHaveTheirRow
<1>9. PublishedWork
  BY <1>4 DEF PublishedWork, P!RecordsOf
<1> QED
  BY <1>2, <1>3, <1>6, <1>7, <1>8, <1>9 DEF SystemInv

(* The inductive invariant of the whole system.                            *)
THEOREM SystemInvariant == SystemSpec => []SystemInv
BY SystemInitHolds, SystemStepKeeps, PTL DEF SystemSpec

-----------------------------------------------------------------------------
(* The theorems a reader should know of.                                   *)

(* The API inside the system behaves as Upload says, so that every theorem *)
(* about Upload holds of it: the row lock of the results, their retries    *)
(* and their refusals take nothing from it.                                *)
THEOREM SystemImplementsUpload == SystemSpec => Spec
<1>1. SystemInit => Init
  BY DEF SystemInit
<1>2. SystemInv /\ [SystemNext]_systemVars => [Next]_vars
  BY ApiKeepsUpload DEF SystemInv
<1> QED
  BY <1>1, <1>2, SystemInvariant, PTL DEF SystemSpec, Spec

(* From its SELECT FOR UPDATE to its commit, a result's transaction finds  *)
(* its row confirmed, and no call takes the row away under it.             *)
THEOREM ResultRowsStand == SystemSpec => []ResultsHaveTheirRow
BY SystemInvariant, PTL DEF SystemInv

(* Nothing is processed that was not confirmed and paid for.               *)
LEMMA PublishedIsPaid == SystemInv => WorkIsPaid
<1> SUFFICES ASSUME SystemInv, NEW j \in Jobs,
                    P!Started(j) \/ \E s \in P!Stage : files[j][s] > 0
             PROVE  published[j] > 0 /\ (status[j] = "NO_ROW" \/ charged_bytes[j] > 0)
  BY DEF WorkIsPaid
<1>1. P!TypeOK /\ IInv /\ PublishedWork /\ ChargeInv
  BY DEF SystemInv
<1>2. published[j] > 0
  <2>1. P!FirstStage(selected[j]) \in P!Consumers /\ PartitionOf[j] \in Partitions
    BY <1>1, StagesOfJob, SameStages
  <2> QED
    BY <1>1, <2>1 DEF P!Started, PublishedWork
<1>3. status[j] \in Statuses /\ status[j] # "PENDING_UPLOAD"
  BY <1>1, <1>2 DEF IInv, TypeOK, PublishedAfterQueued
<1> QED
  BY <1>1, <1>2, <1>3 DEF ChargeInv, Statuses

(* No worker starts on a job, and no file of a stage exists, whose size is *)
(* not charged to the user as long as its row stands.                      *)
THEOREM ProcessingIsPaid == SystemSpec => []WorkIsPaid
BY SystemInvariant, PublishedIsPaid, PTL

-----------------------------------------------------------------------------
(* The processing's half: what every step looks like to Pipeline.          *)

(* A call about to publish has published nothing, so that no stage topic   *)
(* holds a record of its job.                                              *)
LEMMA PublishStarts ==
    ASSUME SystemInv, NEW c \in Calls, PublishStep(c)
    PROVE  P!StartJob(job[c])
<1>1. /\ pc[c] = "publish" /\ P!PublishFirst(job[c])
  BY DEF PublishStep, Publish, PublishTimesOut
<1>2. published[job[c]] = 0
  BY <1>1 DEF SystemInv, IInv, PublishInv
<1>3. ASSUME NEW p \in Partitions, NEW s \in P!Stage, NEW i \in 1 .. Len(log[s][p])
      PROVE  log[s][p][i].job # job[c]
  <2>1. s \in P!Consumers /\ log[s][p][i] \in P!RecordsOf(s, p)
    BY <1>3, SameStages DEF P!RecordsOf
  <2>2. published[log[s][p][i].job] > 0
    BY <2>1 DEF SystemInv, PublishedWork
  <2> QED
    BY <1>2, <2>2
<1> QED
  BY <1>1, <1>3 DEF P!StartJob

LEMMA WorkersArePipeline ==
    ASSUME NEW s \in P!Stage, WorkerStep(s)
    PROVE  P!OpenNext \/ UNCHANGED pipelineVars
<1>1. s \in P!Consumers
  BY SameStages
<1>2. CASE RetryMissing(s)
  BY <1>1, <1>2 DEF RetryMissing, P!OpenNext
<1>3. CASE P!Fetch(s) \/ P!PublishResult(s) \/ P!CommitOffsets(s) \/ P!UploadOutput(s)
  BY <1>1, <1>3 DEF P!OpenNext, P!Next, P!Work
<1>4. CASE Download(s)
  BY <1>4 DEF Download
<1> QED
  BY <1>2, <1>3, <1>4 DEF WorkerStep

LEMMA ResultsArePipeline == ResultStep => P!OpenNext
<1> SUFFICES ASSUME ResultStep PROVE P!OpenNext
  OBVIOUS
<1>1. P!Results \in P!Consumers
  BY SameStages
<1>2. CASE RefuseResult
  BY <1>1, <1>2 DEF RefuseResult, P!OpenNext
<1>3. CASE P!Fetch(P!Results) \/ P!PublishNext \/ P!SaveResult \/ P!CommitOffsets(P!Results)
           \/ LockAndApply
  BY <1>1, <1>3 DEF LockAndApply, P!OpenNext, P!Next, P!Work
<1> QED
  BY <1>2, <1>3 DEF ResultStep

LEMMA PipelineStep == SystemInv /\ [SystemNext]_systemVars => [P!OpenNext]_(P!vars)
<1> SUFFICES ASSUME SystemInv, [SystemNext]_systemVars
             PROVE  P!OpenNext \/ UNCHANGED P!vars
  OBVIOUS
<1>1. ASSUME NEW c \in Calls, PublishStep(c) PROVE P!OpenNext
  <2>1. job[c] \in Jobs
    BY DEF SystemInv, IInv, TypeOK
  <2> QED
    BY <1>1, <2>1, PublishStarts DEF P!OpenNext, P!Next
<1>2. CASE UNCHANGED pipelineVars
  BY <1>2 DEF pipelineVars, rowVars, P!vars, P!jobVars, P!kafkaVars
<1>3. CASE ClientStep \/ \E c \in Calls : ConfirmStep(c) \/ FailStep(c)
  BY <1>2, <1>3 DEF ClientStep, ConfirmStep, FailStep
<1>4. CASE UNCHANGED systemVars
  BY <1>2, <1>4 DEF systemVars
<1> QED
  BY <1>1, <1>2, <1>3, <1>4, WorkersArePipeline, ResultsArePipeline DEF SystemNext, CallStep

(* Behind any number of confirm calls that race, fail and delete rows and  *)
(* files under it, the processing behaves as Pipeline says.                *)
THEOREM SystemImplementsPipeline == SystemSpec => ImplementsPipeline
<1>1. SystemInit => P!Init
  BY DEF SystemInit
<1> QED
  BY <1>1, PipelineStep, SystemInvariant, PTL DEF SystemSpec, ImplementsPipeline, P!OpenSpec

-----------------------------------------------------------------------------
(* What is proved of Pipeline holds of the processing in the system.       *)
(*                                                                         *)
(* PP brings PipelineProofs' theorems; its definitions are those of        *)
(* System's P, which the first lemmas say of one after the other.          *)

PP == INSTANCE PipelineProofs WITH status <- job_status, pc <- consumer_pc,
                                   MaxFaults <- 0, faults <- 0

LEMMA SameOperators ==
    /\ P!Stage = PP!Stage /\ P!Selections = PP!Selections
    /\ P!Results = PP!Results /\ P!Original = PP!Original /\ P!Consumers = PP!Consumers
    /\ \A S : P!FirstStage(S) = PP!FirstStage(S)
    /\ \A S, s : P!Later(S, s) = PP!Later(S, s) /\ P!NextStage(S, s) = PP!NextStage(S, s)
    /\ \A s : P!OutputCount(s) = PP!OutputCount(s)
<1>1. P!Stage = PP!Stage /\ P!Selections = PP!Selections
  BY DEF P!Stage, PP!Stage, P!Selections, PP!Selections, P!ValidSelection, PP!ValidSelection
<1>2. \A s : P!Index(s) = PP!Index(s)
  BY DEF P!Index, PP!Index, P!StageOrder, PP!StageOrder
<1>3. \A S : P!FirstStage(S) = PP!FirstStage(S)
  BY <1>2 DEF P!FirstStage, PP!FirstStage
<1>4. \A S, s : P!Later(S, s) = PP!Later(S, s)
  BY <1>2 DEF P!Later, PP!Later
<1>5. \A S, s : P!NextStage(S, s) = PP!NextStage(S, s)
  BY <1>3, <1>4 DEF P!NextStage, PP!NextStage
<1>6. \A s : P!OutputCount(s) = PP!OutputCount(s)
  BY DEF P!OutputCount, PP!OutputCount
<1>7. P!Results = PP!Results /\ P!Original = PP!Original
  BY DEF P!Results, PP!Results, P!Original, PP!Original
<1>8. P!Consumers = PP!Consumers
  BY <1>1, <1>7 DEF P!Consumers, PP!Consumers
<1> QED
  BY <1>1, <1>3, <1>4, <1>5, <1>6, <1>7, <1>8

(* What Pipeline assumes of its constants, System assumes of its own.      *)
LEMMA PipelineAssumed ==
    /\ Partitions # {}
    /\ PartitionOf \in [Jobs -> Partitions]
    /\ Selectable \in [Jobs -> SUBSET PP!Selections]
    /\ 0 \in Nat
BY SameOperators

LEMMA SameInit == P!Init => PP!Init
BY SameOperators DEF P!Init, PP!Init

LEMMA SameBasics ==
    /\ \A k : P!Held(k) = PP!Held(k)
    /\ \A k : P!Seek(k) <=> PP!Seek(k)
    /\ \A k, l : P!Goto(k, l) <=> PP!Goto(k, l)
    /\ \A k, j, m : P!Append1(k, j, m) <=> PP!Append1(k, j, m)
BY DEF P!Held, PP!Held, P!Seek, PP!Seek, P!Goto, PP!Goto, P!Append1, PP!Append1

(* Steps of one are steps of the other; no fault is enabled in either.     *)
LEMMA SameWork ==
    ASSUME NEW k, P!Work(k)
    PROVE  PP!Work(k)
<1>1. P!Fetch(k) => PP!Fetch(k)
  BY SameBasics, SameOperators DEF P!Fetch, PP!Fetch, P!jobVars, PP!jobVars
<1>2. P!CommitOffsets(k) => PP!CommitOffsets(k)
  BY SameBasics DEF P!CommitOffsets, PP!CommitOffsets, P!jobVars, PP!jobVars
<1>3. P!UploadOutput(k) => PP!UploadOutput(k)
  BY SameBasics, SameOperators
     DEF P!UploadOutput, PP!UploadOutput, P!InputsExist, PP!InputsExist,
         P!jobVars, PP!jobVars, P!kafkaVars, PP!kafkaVars
<1>4. P!PublishResult(k) => PP!PublishResult(k)
  BY SameBasics, SameOperators
     DEF P!PublishResult, PP!PublishResult, P!Send, PP!Send, P!ResultOf, PP!ResultOf,
         P!jobVars, PP!jobVars, P!kafkaVars, PP!kafkaVars
<1>5. P!ApplyResult => PP!ApplyResult
  BY SameBasics, SameOperators
     DEF P!ApplyResult, PP!ApplyResult, P!Duplicate, PP!Duplicate, P!Acceptable,
         PP!Acceptable, P!IsLast, PP!IsLast, P!jobVars, PP!jobVars, P!kafkaVars, PP!kafkaVars
<1>6. P!PublishNext => PP!PublishNext
  BY SameBasics, SameOperators
     DEF P!PublishNext, PP!PublishNext, P!Send, PP!Send, P!NextMessage, PP!NextMessage,
         P!jobVars, PP!jobVars, P!kafkaVars, PP!kafkaVars
<1>7. P!SaveResult => PP!SaveResult
  BY SameBasics, SameOperators
     DEF P!SaveResult, PP!SaveResult, P!IsLast, PP!IsLast, P!kafkaVars, PP!kafkaVars
<1> QED
  BY <1>1, <1>2, <1>3, <1>4, <1>5, <1>6, <1>7, SameOperators DEF P!Work, PP!Work

LEMMA NoFault ==
    ASSUME NEW k
    PROVE  ~P!Fault(k)
BY DEF P!Fault, P!Except, P!Restart, P!PublishResultTimesOut, P!PublishNextTimesOut,
       P!SendTimesOut

LEMMA SameStart ==
    ASSUME NEW j, P!StartJob(j)
    PROVE  PP!StartJob(j)
BY SameBasics, SameOperators
   DEF P!StartJob, PP!StartJob, P!PublishFirst, PP!PublishFirst,
       P!jobVars, PP!jobVars, P!kafkaVars, PP!kafkaVars

LEMMA SameNext == [P!OpenNext]_(P!vars) => [PP!OpenNext]_(PP!vars)
<1>1. \A k : P!SeekBack(k) => PP!SeekBack(k)
  BY SameBasics DEF P!SeekBack, PP!SeekBack, P!jobVars, PP!jobVars
<1>2. P!Next => PP!Next
  BY SameWork, NoFault, SameStart, SameOperators DEF P!Next, PP!Next
<1>3. P!OpenNext => PP!OpenNext
  BY <1>1, <1>2, SameOperators DEF P!OpenNext, PP!OpenNext
<1>4. UNCHANGED P!vars => UNCHANGED PP!vars
  BY DEF P!vars, PP!vars, P!jobVars, PP!jobVars, P!kafkaVars, PP!kafkaVars
<1> QED
  BY <1>3, <1>4

(* The invariants of Pipeline, for the processing in the system.           *)
PipelineInv == PP!PInv /\ PP!DoneHasResult

LEMMA PipelineInit == SystemInit => PipelineInv
BY PipelineAssumed, SameInit, PP!InitHolds, PP!DoneHasResultFirst
   DEF SystemInit, PipelineInv

LEMMA PipelineInvStep ==
    SystemInv /\ PipelineInv /\ [SystemNext]_systemVars => PipelineInv'
BY PipelineStep, PipelineAssumed, SameNext, PP!OpenNextHolds, PP!DoneHasResultStep
   DEF PipelineInv

(* Pipeline's safety properties, with its variables read from the system's. *)
ProcessingIsSafe ==
    /\ P!NoResultRefused /\ P!InputsReady /\ P!ResultsAreBacked /\ P!DoneIsBacked
    /\ P!MessagesFollowResults /\ P!OffsetsAreSafe /\ P!RowIsConsistent

LEMMA ProcessingFollows == PipelineInv => ProcessingIsSafe
<1> SUFFICES ASSUME PipelineInv PROVE ProcessingIsSafe
  OBVIOUS
<1>1. PP!Safety
  BY PipelineAssumed, PP!SafetyFollows DEF PipelineInv
<1>2. \A k, p : P!RecordsOf(k, p) = PP!RecordsOf(k, p)
  BY DEF P!RecordsOf, PP!RecordsOf
<1>3. P!NoResultRefused /\ P!InputsReady
  BY <1>1, SameBasics, SameOperators
     DEF PP!Safety, P!NoResultRefused, PP!NoResultRefused, P!InputsReady, PP!InputsReady,
         P!Duplicate, PP!Duplicate, P!Acceptable, PP!Acceptable, P!InputsExist,
         PP!InputsExist
<1>4. P!ResultsAreBacked /\ P!DoneIsBacked
  BY <1>1, <1>2, SameOperators
     DEF PP!Safety, P!ResultsAreBacked, PP!ResultsAreBacked, P!DoneIsBacked, PP!DoneIsBacked
<1>5. P!MessagesFollowResults
  <2>1. \A S, s : P!Previous(S, s) = PP!Previous(S, s)
    BY SameOperators DEF P!Previous, PP!Previous
  <2> QED
    BY <1>1, <1>2, <2>1, SameOperators
       DEF PP!Safety, P!MessagesFollowResults, PP!MessagesFollowResults
<1>6. P!OffsetsAreSafe
  BY <1>1, <1>2, SameOperators DEF PP!Safety, P!OffsetsAreSafe, PP!OffsetsAreSafe
<1>7. P!RowIsConsistent
  BY <1>1, SameOperators DEF PP!Safety, P!RowIsConsistent, PP!RowIsConsistent
<1> QED
  BY <1>3, <1>4, <1>5, <1>6, <1>7 DEF ProcessingIsSafe

(* Whatever the confirm calls do to rows and files, and however often an   *)
(* orphan's record is retried: a result whose row is there is not refused, *)
(* inputs, results and done stages have their files, messages follow their *)
(* results, offsets pass finished work only, and the rows' columns agree.  *)
THEOREM SystemKeepsSafety == SystemSpec => []ProcessingIsSafe
BY SystemInvariant, PipelineInit, PipelineInvStep, ProcessingFollows, PTL DEF SystemSpec

LEMMA SystemProgressStep ==
    SystemInv /\ PipelineInv /\ [SystemNext]_systemVars =>
        [PP!Progress!Next]_(PP!Progress!vars)
BY PipelineStep, SameNext, PipelineAssumed, PP!OpenProgressStep DEF PipelineInv

(* A job's stages are completed one by one, in order and each once, also   *)
(* when its row or its file is deleted on the way: it then stops, but      *)
(* nothing is done twice or out of turn.                                   *)
THEOREM SystemImplementsProgress == SystemSpec => PP!Progress!Spec
<1>1. SystemInit => PP!Progress!Init
  BY PipelineAssumed, SameInit, PP!ProgressInit DEF SystemInit
<1> QED
  BY <1>1, SystemInvariant, PipelineInit, PipelineInvStep, SystemProgressStep, PTL
     DEF SystemSpec, PP!Progress!Spec
=============================================================================

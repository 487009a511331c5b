--------------------------- MODULE TakeoverProofs ---------------------------
(* Proofs about Takeover: with two result consumers at work the row lock   *)
(* keeps the safety of the pipeline and its refinement of JobProgress.     *)
(*                                                                         *)
(* Pipeline's inductive invariant is kept by the stale consumer's steps as *)
(* well, because what it read under its lock is still what the row says:   *)
(* StaleInv.                                                               *)
EXTENDS Takeover, PipelineProofs

USE PipelineAssumption

-----------------------------------------------------------------------------
(* The inductive invariant.                                                *)

Reads == [pc : {"work", "publish", "save"}, event : ResultEvent,
          done : SUBSET Stage, hashed : BOOLEAN]

(* A transaction of the stale consumer holds its row: the row is as it was *)
(* read and the owner has none of the same job.                            *)
StaleInv ==
    stale # NoOther =>
        LET e == stale.event
        IN  /\ stale \in Reads
            /\ e \in RecordsOf(Results, PartitionOf[e.job])
            /\ LocksRow(stale.pc) =>
                  /\ ~Duplicate(e) /\ Acceptable(e)
                  /\ stale.done = done[e.job] /\ stale.hashed = hashed[e.job]
                  /\ stale.pc = "publish" => ~IsLast(e)
                  /\ ~OwnerLocks(e.job)

TInv == PInv /\ StaleInv

-----------------------------------------------------------------------------
(* Steps of Pipeline.                                                      *)

(* What a row loses by a result that is accepted: nothing.                 *)
LEMMA RowKeeps ==
    ASSUME TypeOK, RowIsConsistent, NEW e \in ResultEvent, ~Duplicate(e), Acceptable(e),
           RowAdvances(e), NEW j \in Jobs
    PROVE  /\ done[j] \subseteq done'[j]
           /\ hashed[j] => hashed'[j]
           /\ status[j] = "COMPLETED" => status'[j] = "COMPLETED"
           /\ j # e.job => /\ done'[j] = done[j] /\ hashed'[j] = hashed[j]
                           /\ current_stage'[j] = current_stage[j]
<1>1. e.job \in Jobs /\ e.completed_stage \in selected[e.job]
      /\ e.completed_stage \notin done[e.job]
  BY DEF ResultEvent, Acceptable, Duplicate
<1>2. status[e.job] # "COMPLETED"
  BY <1>1 DEF RowIsConsistent
<1> QED
  BY <1>1, <1>2 DEF RowAdvances, TypeOK

-----------------------------------------------------------------------------
(* The steps of the pipeline.                                              *)

(* What the stale consumer read stays so while its row does.               *)
LEMMA StaleKeeps ==
    ASSUME PInv, PInv', StaleInv, LogGrows, stale' = stale, selected' = selected,
           stale # NoOther /\ LocksRow(stale.pc) =>
               LET j == stale.event.job
               IN  /\ done'[j] = done[j] /\ hashed'[j] = hashed[j]
                   /\ current_stage'[j] = current_stage[j]
                   /\ ~OwnerLocks(j)'
    PROVE  StaleInv'
<1> SUFFICES ASSUME stale # NoOther PROVE StaleInv'
  BY DEF StaleInv
<1>1. PICK e : e = stale.event
  OBVIOUS
<1>2. /\ stale \in Reads /\ e \in ResultEvent /\ e.job \in Jobs
      /\ e \in RecordsOf(Results, PartitionOf[e.job])
  BY <1>1 DEF StaleInv, Reads, ResultEvent
<1>3. e \in RecordsOf(Results, PartitionOf[e.job])'
  <2>1. PICK p \in Partitions : p = PartitionOf[e.job]
    BY <1>2
  <2>2. RecordsOf(Results, p) \subseteq RecordsOf(Results, p)'
    BY RecordsGrow DEF PInv, Consumers
  <2> QED
    BY <1>2, <2>1, <2>2
<1>4. LocksRow(stale.pc) =>
          /\ ~Duplicate(e)' /\ Acceptable(e)'
          /\ stale.done = done'[e.job] /\ stale.hashed = hashed'[e.job]
          /\ stale.pc = "publish" => ~IsLast(e)'
          /\ ~OwnerLocks(e.job)'
  BY <1>1 DEF StaleInv, Duplicate, Acceptable, IsLast
<1>5. stale' = stale /\ stale'.event = e
  BY <1>1
<1>6. stale' \in Reads /\ RecordsOf(Results, PartitionOf[stale.event.job])' =
                           RecordsOf(Results, PartitionOf[e.job])'
  BY <1>2, <1>5 DEF RecordsOf
<1>7. LocksRow(stale.pc)' =>
          /\ ~Duplicate(stale.event)' /\ Acceptable(stale.event)'
          /\ stale'.done = done'[stale'.event.job]
          /\ stale'.hashed = hashed'[stale'.event.job]
          /\ stale'.pc = "publish" => ~IsLast(stale.event)'
          /\ ~OwnerLocks(stale.event.job)'
  BY <1>4, <1>5 DEF LocksRow, Duplicate, Acceptable, IsLast, OwnerLocks
<1> QED
  BY <1>3, <1>5, <1>6, <1>7 DEF StaleInv

(* A worker leaves the result consumer alone.                              *)
LEMMA WorkerElsewhere ==
    ASSUME TypeOK, NEW s \in Stage, Work(s) \/ Fault(s)
    PROVE  /\ pc'[Results] = pc[Results]
           /\ position'[Results] = position[Results] /\ at'[Results] = at[Results]
<1>1. Results \in Consumers /\ s \in Consumers /\ s # Results
  BY DEF Consumers, Results, Stage
<1>2. CASE Fetch(s) \/ CommitOffsets(s) \/ UploadOutput(s) \/ PublishResult(s)
  BY <1>1, <1>2 DEF Fetch, CommitOffsets, UploadOutput, PublishResult, Send, Goto, TypeOK,
                    kafkaVars
<1>3. CASE Except(s) \/ Restart(s) \/ PublishResultTimesOut(s)
  BY <1>1, <1>3 DEF Except, SeekBack, Restart, PublishResultTimesOut, SendTimesOut, Seek,
                    Goto, TypeOK
<1> QED
  BY <1>1, <1>2, <1>3 DEF Work, Fault

LEMMA OthersStepKeeps ==
    ASSUME TInv, PInv', OthersStep
    PROVE  StaleInv'
<1>1. /\ stale' = stale /\ LogGrows /\ UNCHANGED jobVars
      /\ pc'[Results] = pc[Results]
      /\ position'[Results] = position[Results] /\ at'[Results] = at[Results]
  <2>1. CASE \E j \in Jobs : StartJob(j)
    <3>1. pc' = pc /\ position' = position /\ at' = at
      BY <2>1 DEF StartJob, PublishFirst, kafkaVars
    <3> QED
      BY <2>1, <3>1, StartEffect DEF OthersStep, TInv
  <2>2. CASE \E s \in Stage : Work(s) \/ Fault(s)
    <3>1. PICK s \in Stage : Work(s) \/ Fault(s)
      BY <2>2
    <3>2. s \in Consumers /\ s # Results
      BY DEF Consumers, Results, Stage
    <3> QED
      BY <3>1, <3>2, WorkEffect, WorkerElsewhere DEF OthersStep, TInv, PInv
  <2> QED
    BY <2>1, <2>2 DEF OthersStep
<1>2. ASSUME NEW j PROVE OwnerLocks(j)' => OwnerLocks(j)
  <2>1. LocksRow(pc[Results]) => pc[Results] # "poll"
    BY DEF LocksRow
  <2>2. LocksRow(pc[Results]) => Held(Results)' = Held(Results)
    BY <1>1, <2>1, HeldStays DEF TInv, PInv, ConsumerInv, Consumers
  <2> QED
    BY <1>1, <2>2 DEF OwnerLocks, LocksRow
<1>3. stale # NoOther /\ LocksRow(stale.pc) => ~OwnerLocks(stale.event.job)
  BY DEF TInv, StaleInv
<1>4. PICK j : j = stale.event.job
  OBVIOUS
<1> QED
  BY <1>1, <1>2, <1>3, <1>4, StaleKeeps DEF TInv, jobVars

LEMMA OwnerStepKeeps ==
    ASSUME TInv, PInv', OwnerStep
    PROVE  StaleInv'
<1>0. /\ PInv /\ TypeOK /\ LogOK /\ Results \in Consumers /\ Results \notin Stage
      /\ OffsetsOf(Results) /\ RowIsConsistent /\ stale' = stale
  BY DEF TInv, PInv, ConsumerInv, Consumers, Results, Stage, OwnerStep
<1>1. PICK j : j = stale.event.job
  OBVIOUS
<1>2. stale # NoOther /\ LocksRow(stale.pc) => ~OwnerLocks(j) /\ StaleLocks(j) /\ j \in Jobs
  BY <1>1 DEF TInv, StaleInv, StaleLocks, Reads, ResultEvent
<1>3. CASE \/ Fetch(Results) \/ CommitOffsets(Results) \/ Except(Results)
           \/ Restart(Results) \/ PublishNextTimesOut
  <2>1. pc'[Results] \in {"work", "poll"} /\ UNCHANGED jobVars
    BY <1>0, <1>3 DEF Fetch, CommitOffsets, Except, SeekBack, Restart, PublishNextTimesOut,
                      SendTimesOut, Goto, TypeOK
  <2>2. LogGrows
    BY <1>0, <1>3, WorkEffect DEF Work, Fault
  <2>3. ~OwnerLocks(j)'
    BY <2>1 DEF OwnerLocks, LocksRow
  <2> QED
    BY <1>0, <1>1, <2>1, <2>2, <2>3, StaleKeeps DEF TInv, jobVars
<1>4. CASE SaveResult
  <2>1. PICK e \in ResultEvent :
           /\ e = Held(Results) /\ pc[Results] = "save" /\ pc'[Results] = "commit"
           /\ ~Duplicate(e) /\ Acceptable(e) /\ RowAdvances(e)
           /\ UNCHANGED <<selected, files, log>>
    BY <1>0, <1>4, SaveEffect
  <2>2. LogGrows
    BY <1>0, <1>4, WorkEffect DEF Work, Fault
  <2>3. ~OwnerLocks(j)'
    BY <2>1 DEF OwnerLocks, LocksRow
  <2>4. stale # NoOther /\ LocksRow(stale.pc) => j # e.job
    BY <1>2, <2>1 DEF OwnerLocks, LocksRow
  <2>5. stale # NoOther /\ LocksRow(stale.pc) =>
            /\ done'[j] = done[j] /\ hashed'[j] = hashed[j]
            /\ current_stage'[j] = current_stage[j]
    BY <1>0, <1>2, <2>1, <2>4, RowKeeps
  <2> QED
    BY <1>0, <1>1, <2>1, <2>2, <2>3, <2>5, StaleKeeps DEF TInv
<1>5. CASE OwnerApply \/ PublishNext
  <2>1. /\ pc[Results] \in {"work", "publish"} /\ UNCHANGED jobVars
        /\ position' = position /\ at' = at
    BY <1>5 DEF OwnerApply, ApplyResult, PublishNext, kafkaVars
  <2>2. LogGrows
    BY <1>0, <1>5, WorkEffect DEF OwnerApply, Work, Fault
  <2>3. Held(Results)' = Held(Results)
    BY <1>0, <2>1, <2>2, HeldStays
  <2>4. stale # NoOther /\ LocksRow(stale.pc) => Held(Results).job # j
    BY <1>2, <1>5 DEF OwnerApply, PublishNext, OwnerLocks, LocksRow
  <2>5. stale # NoOther /\ LocksRow(stale.pc) => ~OwnerLocks(j)'
    BY <2>3, <2>4 DEF OwnerLocks
  <2> QED
    BY <1>0, <1>1, <2>1, <2>2, <2>5, StaleKeeps DEF TInv, jobVars
<1> QED
  BY <1>0, <1>3, <1>4, <1>5 DEF OwnerStep, Fault

-----------------------------------------------------------------------------
(* The steps of the stale consumer.                                        *)

LEMMA StaleHeld ==
    ASSUME TInv, stale.pc \in {"work", "publish", "save"}
    PROVE  LET e == stale.event
           IN  /\ stale # NoOther /\ stale \in Reads
               /\ e \in ResultEvent /\ e.job \in Jobs
               /\ e \in RecordsOf(Results, PartitionOf[e.job])
               /\ e.completed_stage \in selected[e.job] /\ Started(e.job)
               /\ stale.pc # "work" =>
                     /\ ~Duplicate(e) /\ Acceptable(e) /\ ~OwnerLocks(e.job)
                     /\ stale.done = done[e.job] /\ stale.hashed = hashed[e.job]
                     /\ stale.pc = "publish" => ~IsLast(e)
<1>1. stale # NoOther
  BY DEF NoOther
<1>2. PICK e : e = stale.event
  OBVIOUS
<1>3. /\ stale \in Reads /\ e \in ResultEvent /\ e.job \in Jobs
      /\ e \in RecordsOf(Results, PartitionOf[e.job])
      /\ stale.pc # "work" =>
            /\ ~Duplicate(e) /\ Acceptable(e) /\ ~OwnerLocks(e.job)
            /\ stale.done = done[e.job] /\ stale.hashed = hashed[e.job]
            /\ stale.pc = "publish" => ~IsLast(e)
  BY <1>1, <1>2 DEF TInv, StaleInv, Reads, ResultEvent, LocksRow
<1>4. e.completed_stage \in selected[e.job] /\ Started(e.job)
  BY <1>3 DEF TInv, PInv, LogInv, RecordInv
<1> QED
  BY <1>1, <1>2, <1>3, <1>4

(* An owner whose row stays as it is keeps its invariant.                  *)
LEMMA OwnerStays ==
    ASSUME PInv, LogGrows, selected' = selected, UNCHANGED <<kafkaVars, pc, at>>,
           NEW j, \A i \in Jobs : i # j => /\ done'[i] = done[i]
                                           /\ current_stage'[i] = current_stage[i],
           ~OwnerLocks(j)
    PROVE  HeldInv'
<1>1. pc[Results] \in {"publish", "save"} =>
          Held(Results).job # j /\ Held(Results).job \in Jobs
  BY ResultHeld DEF OwnerLocks, LocksRow
<1> QED
  BY <1>1, HeldKeeps DEF PInv, ConsumerInv, Consumers, kafkaVars

LEMMA OvertakeKeeps ==
    ASSUME TInv, Overtake
    PROVE  TInv'
<1>1. PICK e : e = Held(Results)
  OBVIOUS
<1>2. /\ PInv /\ Results \in Consumers /\ Restart(Results)
      /\ pc[Results] \in {"work", "publish", "save"}
      /\ stale' = [pc |-> pc[Results], event |-> e,
                   done |-> done[e.job], hashed |-> hashed[e.job]]
      /\ TypeOK
  BY <1>1 DEF TInv, PInv, Overtake, Reading, Consumers
<1>3. PInv'
  BY <1>2, RestartStep
<1>4. /\ UNCHANGED <<jobVars, log>> /\ pc'[Results] = "poll"
  BY <1>2 DEF Restart, Goto, TypeOK
<1>5. /\ e \in ResultEvent /\ e.job \in Jobs
      /\ e \in RecordsOf(Results, PartitionOf[e.job])
  BY <1>1, <1>2, ResultHeld
<1>6. stale' \in Reads
  BY <1>2, <1>5 DEF Reads, TypeOK
<1>7. LocksRow(stale'.pc) => /\ ~Duplicate(e) /\ Acceptable(e)
                             /\ stale'.pc = "publish" => ~IsLast(e)
  BY <1>1, <1>2 DEF PInv, HeldInv, LocksRow
<1>8. PICK r : r = stale'
  OBVIOUS
<1>9. r.event = e /\ r.done = done[e.job] /\ r.hashed = hashed[e.job]
  BY <1>2, <1>8
<1> QED
  BY <1>3, <1>4, <1>5, <1>6, <1>7, <1>8, <1>9
     DEF TInv, StaleInv, RecordsOf, Duplicate, Acceptable, IsLast, OwnerLocks, LocksRow,
         jobVars

LEMMA StaleApplyKeeps ==
    ASSUME TInv, StaleApply
    PROVE  TInv'
<1>1. PICK e : e = stale.event
  OBVIOUS
<1>2. /\ PInv /\ TypeOK /\ stale.pc = "work" /\ ~OwnerLocks(e.job) /\ UNCHANGED vars
      /\ \/ stale' = NoOther
         \/ /\ ~Duplicate(e) /\ Acceptable(e)
            /\ stale' = [pc |-> IF IsLast(e) THEN "save" ELSE "publish", event |-> e,
                         done |-> done[e.job], hashed |-> hashed[e.job]]
  BY <1>1 DEF TInv, PInv, StaleApply, Reading
<1>3. PInv'
  BY <1>2, StutterKeeps
<1>4. CASE stale' = NoOther
  BY <1>3, <1>4 DEF TInv, StaleInv
<1>5. CASE stale' # NoOther
  <2>1. /\ e \in ResultEvent /\ e.job \in Jobs
        /\ e \in RecordsOf(Results, PartitionOf[e.job])
    BY <1>1, <1>2, StaleHeld
  <2>2. stale' \in Reads
    BY <1>2, <1>5, <2>1 DEF Reads, TypeOK
  <2>3. PICK r : r = stale'
    OBVIOUS
  <2>4. /\ r.event = e /\ r.done = done[e.job] /\ r.hashed = hashed[e.job]
        /\ r.pc = "publish" => ~IsLast(e)
    BY <1>2, <1>5, <2>3
  <2>5. UNCHANGED <<selected, done, current_stage, status, hashed, log, pc, position, at>>
    BY <1>2 DEF vars, jobVars, kafkaVars
  <2>6. (e \in RecordsOf(Results, PartitionOf[e.job]))'
    BY <2>1, <2>5 DEF RecordsOf
  <2>7. /\ Duplicate(e)' = Duplicate(e) /\ Acceptable(e)' = Acceptable(e)
        /\ IsLast(e)' = IsLast(e)
    BY <2>5 DEF Duplicate, Acceptable, IsLast
  <2>8. OwnerLocks(e.job)' = OwnerLocks(e.job)
    BY <2>5 DEF OwnerLocks, Held, LocksRow
  <2> QED
    BY <1>2, <1>3, <1>5, <2>2, <2>3, <2>4, <2>5, <2>6, <2>7, <2>8 DEF TInv, StaleInv
<1> QED
  BY <1>4, <1>5

LEMMA StalePublishKeeps ==
    ASSUME TInv, StalePublish
    PROVE  TInv'
<1>1. PICK e : e = stale.event
  OBVIOUS
<1>2. /\ PInv /\ TypeOK /\ LogOK /\ LogInv /\ stale.pc = "publish"
      /\ Append1(NextStage(selected[e.job], e.completed_stage), e.job, NextMessage(e))
      /\ stale' = [stale EXCEPT !.pc = "save"]
      /\ UNCHANGED <<jobVars, files, kafkaVars, pc, at, uploads, faults>>
  BY <1>1 DEF TInv, PInv, StalePublish, StaleGoto
<1>3. /\ stale \in Reads /\ e \in ResultEvent /\ e.job \in Jobs
      /\ e \in RecordsOf(Results, PartitionOf[e.job])
      /\ e.completed_stage \in selected[e.job]
      /\ ~Duplicate(e) /\ Acceptable(e) /\ ~IsLast(e) /\ ~OwnerLocks(e.job)
      /\ stale.done = done[e.job] /\ stale.hashed = hashed[e.job]
  BY <1>1, <1>2, StaleHeld
<1>4. /\ LogOK' /\ LogGrows /\ LogInv'
      /\ \A p \in Partitions : /\ log'[Results][p] \in Seq(ResultEvent)
                               /\ \A t \in Stage : log'[t][p] \in Seq(StageMessage)
  BY <1>2, <1>3, SendNext
<1>5. TypeOK'
  BY <1>2, <1>4 DEF TypeOK, jobVars, kafkaVars
<1>6. Grows /\ FilesBounded' /\ RowIsConsistent'
  BY <1>2, <1>4 DEF Grows, PInv, FilesBounded, RowIsConsistent, jobVars, TypeOK
<1>7. HeldInv'
  BY <1>2, <1>3, <1>4, OwnerStays DEF jobVars
<1>8. ASSUME NEW k \in Consumers PROVE ConsumerInv(k)'
  BY <1>2, <1>4, <1>5, <1>6, OthersKeep DEF PInv, LogInv, kafkaVars
<1>9. PInv'
  BY <1>4, <1>5, <1>6, <1>7, <1>8 DEF PInv
<1>10. PICK r : r = stale'
  OBVIOUS
<1>11. /\ r \in Reads /\ r.pc = "save" /\ r.event = e
       /\ r.done = done[e.job] /\ r.hashed = hashed[e.job]
  BY <1>1, <1>2, <1>3, <1>10 DEF Reads
<1>12. e \in RecordsOf(Results, PartitionOf[e.job])'
  <2>1. PICK p \in Partitions : p = PartitionOf[e.job]
    BY <1>3
  <2>2. RecordsOf(Results, p) \subseteq RecordsOf(Results, p)'
    BY <1>2, <1>4, RecordsGrow DEF Consumers
  <2> QED
    BY <1>3, <2>1, <2>2
<1>13. ~OwnerLocks(e.job)'
  <2>1. LocksRow(pc[Results]) => Held(Results)' = Held(Results)
    BY <1>2, <1>4, HeldStays DEF PInv, ConsumerInv, Consumers, LocksRow, kafkaVars
  <2> QED
    BY <1>2, <1>3, <2>1 DEF OwnerLocks
<1>14. stale'.event = e /\ stale' \in Reads /\ stale'.pc = "save"
  BY <1>10, <1>11
<1>15. RecordsOf(Results, PartitionOf[stale.event.job])' =
           RecordsOf(Results, PartitionOf[e.job])'
  BY <1>14 DEF RecordsOf
<1>16. /\ ~Duplicate(stale.event)' /\ Acceptable(stale.event)'
       /\ stale'.done = done'[stale'.event.job] /\ stale'.hashed = hashed'[stale'.event.job]
       /\ ~OwnerLocks(stale.event.job)'
  BY <1>2, <1>3, <1>10, <1>11, <1>13, <1>14
     DEF Duplicate, Acceptable, OwnerLocks, jobVars
<1> QED
  BY <1>9, <1>12, <1>14, <1>15, <1>16 DEF TInv, StaleInv

(* What it saves is what the owner would have saved.                       *)
LEMMA StaleSaveEffect ==
    ASSUME TInv, StaleSave
    PROVE  \E e \in ResultEvent :
              /\ e = stale.event /\ Started(e.job)
              /\ ~Duplicate(e) /\ Acceptable(e) /\ ~OwnerLocks(e.job)
              /\ RowAdvances(e)
              /\ UNCHANGED <<selected, files, log, kafkaVars, pc, at, uploads, faults>>
              /\ stale' = NoOther
<1>1. PICK e : e = stale.event
  OBVIOUS
<1>2. stale.pc = "save"
  BY DEF StaleSave
<1>3. /\ e \in ResultEvent /\ Started(e.job)
      /\ ~Duplicate(e) /\ Acceptable(e) /\ ~OwnerLocks(e.job)
      /\ stale.done = done[e.job] /\ stale.hashed = hashed[e.job]
  BY <1>1, <1>2, StaleHeld
<1>4. RowAdvances(e)
  BY <1>1, <1>3 DEF StaleSave, RowAdvances
<1> QED
  BY <1>1, <1>3, <1>4 DEF StaleSave

LEMMA StaleSaveKeeps ==
    ASSUME TInv, StaleSave
    PROVE  TInv'
<1>1. PICK e \in ResultEvent :
         /\ e = stale.event /\ Started(e.job)
         /\ ~Duplicate(e) /\ Acceptable(e) /\ ~OwnerLocks(e.job)
         /\ RowAdvances(e)
         /\ UNCHANGED <<selected, files, log, kafkaVars, pc, at, uploads, faults>>
         /\ stale' = NoOther
  BY StaleSaveEffect
<1>2. PInv /\ TypeOK /\ LogOK /\ LogInv /\ RowIsConsistent
  BY DEF TInv, PInv
<1>3. /\ RowIsConsistent'
      /\ done' \in [Jobs -> SUBSET Stage] /\ current_stage' \in [Jobs -> Stage]
      /\ status' \in [Jobs -> {"QUEUED", "PROCESSING", "COMPLETED"}]
      /\ hashed' \in [Jobs -> BOOLEAN]
      /\ \A j \in Jobs : done[j] \subseteq done'[j]
      /\ \A j \in Jobs : j # e.job => /\ done'[j] = done[j]
                                      /\ current_stage'[j] = current_stage[j]
  BY <1>1, <1>2, RowStep
<1>4. TypeOK'
  BY <1>1, <1>2, <1>3 DEF TypeOK, kafkaVars
<1>5. LogOK' /\ LogGrows /\ LogInv'
  BY <1>1, <1>2, LogStays, LogType DEF LogOK, LogGrows
<1>6. Grows
  <2>1. \A j \in Jobs, s \in Stage : files[j][s] <= files'[j][s]
    BY <1>1, <1>2 DEF TypeOK
  <2> QED
    BY <1>1, <1>3, <1>5, <2>1 DEF Grows
<1>7. FilesBounded'
  BY <1>1, <1>2 DEF PInv, FilesBounded
<1>8. HeldInv'
  BY <1>1, <1>2, <1>3, <1>5, OwnerStays
<1>9. ASSUME NEW k \in Consumers PROVE ConsumerInv(k)'
  BY <1>1, <1>2, <1>4, <1>5, <1>6, <1>7, OthersKeep DEF PInv, LogInv, kafkaVars
<1> QED
  BY <1>1, <1>3, <1>4, <1>5, <1>7, <1>8, <1>9 DEF TInv, PInv, StaleInv

LEMMA StaleFailsKeeps ==
    ASSUME TInv, StaleFails
    PROVE  TInv'
BY StutterKeeps DEF TInv, StaleFails, StaleInv

-----------------------------------------------------------------------------
(* The invariant holds, and what follows from it.                          *)

LEMMA TakeoverInitHolds == TakeoverInit => TInv
BY InitHolds DEF TakeoverInit, TInv, StaleInv

LEMMA OthersAreNext == OthersStep \/ OwnerStep => Next
<1>1. Stage \subseteq Consumers /\ Results \in Consumers
  BY DEF Consumers
<1>2. OthersStep => Next
  BY <1>1 DEF OthersStep, Next
<1>3. OwnerStep => Work(Results) \/ Fault(Results)
  BY DEF OwnerStep, OwnerApply, Work
<1> QED
  BY <1>1, <1>2, <1>3 DEF Next

LEMMA TakeoverStutterKeeps == TInv /\ UNCHANGED takeoverVars => TInv'
<1> SUFFICES ASSUME TInv, UNCHANGED takeoverVars PROVE TInv'
  OBVIOUS
<1>1. PInv'
  BY StutterKeeps DEF TInv, takeoverVars
<1>2. StaleInv'
  BY DEF TInv, StaleInv, takeoverVars, vars, jobVars, kafkaVars, RecordsOf, Duplicate,
         Acceptable, IsLast, OwnerLocks, Held
<1> QED
  BY <1>1, <1>2 DEF TInv

LEMMA TakeoverNextHolds == TInv /\ [TakeoverNext]_takeoverVars => TInv'
<1> SUFFICES ASSUME TInv, [TakeoverNext]_takeoverVars PROVE TInv'
  OBVIOUS
<1>1. CASE OthersStep \/ OwnerStep
  <2>1. PInv'
    BY <1>1, OthersAreNext, NextHolds DEF TInv
  <2> QED
    BY <1>1, <2>1, OthersStepKeeps, OwnerStepKeeps DEF TInv
<1> QED
  BY <1>1, OvertakeKeeps, StaleApplyKeeps, StalePublishKeeps, StaleSaveKeeps,
     StaleFailsKeeps, TakeoverStutterKeeps DEF TakeoverNext, StaleStep

(* The invariant holds of every behaviour of Takeover.                     *)
THEOREM TakeoverInvariant == TakeoverSpec => []TInv
BY TakeoverInitHolds, TakeoverNextHolds, PTL DEF TakeoverSpec

(* All that is stored has the type of its column, topic or variable.       *)
THEOREM TakeoverTypes == TakeoverSpec => []TypeOK
BY TakeoverInvariant, PTL DEF TInv, PInv

(* process_ml_result raises for no result the workers publish, however     *)
(* often results and messages are repeated and whoever applies them.       *)
THEOREM NoResultIsRefused == TakeoverSpec => []NoResultRefused
<1>1. TInv => NoResultRefused
  BY HeldIsExpected DEF TInv
<1> QED
  BY <1>1, TakeoverInvariant, PTL

(* A worker finds the files its message names.                             *)
THEOREM InputsAreReady == TakeoverSpec => []InputsReady
<1>1. TInv => InputsReady
  BY InputsAreThere DEF TInv
<1> QED
  BY <1>1, TakeoverInvariant, PTL

(* A result in the log means that all the files of its stage are stored.   *)
THEOREM ResultsStayBacked == TakeoverSpec => []ResultsAreBacked
<1>1. TInv => ResultsAreBacked
  BY DEF TInv, PInv, LogInv
<1> QED
  BY <1>1, TakeoverInvariant, PTL

(* A stage gets its message only with the result of the stage before it.   *)
THEOREM MessagesStayInOrder == TakeoverSpec => []MessagesFollowResults
<1>1. TInv => MessagesFollowResults
  BY MessagesAreInOrder DEF TInv
<1> QED
  BY <1>1, TakeoverInvariant, PTL

(* No committed offset passes a record whose work could still be lost.     *)
THEOREM OffsetsStaySafe == TakeoverSpec => []OffsetsAreSafe
<1>1. TInv => OffsetsAreSafe
  BY CommitsAreSafe DEF TInv
<1> QED
  BY <1>1, TakeoverInvariant, PTL

(* The fields of every row agree, whoever wrote it last.                   *)
THEOREM RowsStayConsistent == TakeoverSpec => []RowIsConsistent
BY TakeoverInvariant, PTL DEF TInv, PInv

-----------------------------------------------------------------------------
(* The row lock: what one of the consumers has done stays done.            *)

LEMMA NothingUndone ==
    ASSUME TInv, [TakeoverNext]_takeoverVars, NEW j \in Jobs
    PROVE  /\ done[j] \subseteq done'[j]
           /\ hashed[j] => hashed'[j]
           /\ status[j] = "COMPLETED" => status'[j] = "COMPLETED"
<1>1. PInv /\ TypeOK /\ RowIsConsistent
  BY DEF TInv, PInv
<1>2. CASE UNCHANGED jobVars
  BY <1>2 DEF jobVars
<1>3. CASE SaveResult
  BY <1>1, <1>3, SaveEffect, RowKeeps
<1>4. CASE StaleSave
  BY <1>1, <1>4, StaleSaveEffect, RowKeeps
<1>5. CASE OthersStep \/ OwnerStep
  <2>1. UNCHANGED jobVars \/ SaveResult
    BY <1>1, <1>5, OthersAreNext, WorkEffect, StartEffect DEF Next, vars
  <2> QED
    BY <1>2, <1>3, <2>1
<1>6. CASE Overtake \/ StaleApply \/ StalePublish \/ StaleFails \/ UNCHANGED takeoverVars
  BY <1>2, <1>6 DEF Overtake, Restart, StaleApply, StalePublish, StaleFails, takeoverVars,
                    vars
<1> QED
  BY <1>4, <1>5, <1>6 DEF TakeoverNext, StaleStep

(* No stage that is done is forgotten and no completed job reopened: the   *)
(* lock makes the late writer's columns as fresh as the row.               *)
THEOREM TakeoverUndoesNothing == TakeoverSpec => NothingIsUndone
<1>1. TInv /\ [TakeoverNext]_takeoverVars =>
          [\A j \in Jobs : /\ done[j] \subseteq done'[j]
                           /\ hashed[j] => hashed'[j]
                           /\ status[j] = "COMPLETED" => status'[j] = "COMPLETED"]_takeoverVars
  BY NothingUndone
<1> QED
  BY <1>1, TakeoverInvariant, PTL DEF TakeoverSpec, NothingIsUndone

-----------------------------------------------------------------------------
(* What is done is stored, also what the stale consumer says is done.      *)

LEMMA StalePublishGrows ==
    ASSUME TInv, StalePublish
    PROVE  LogGrows /\ UNCHANGED jobVars
<1>1. PICK e : e = stale.event
  OBVIOUS
<1>2. /\ LogOK /\ LogInv /\ stale.pc = "publish" /\ UNCHANGED <<jobVars, files>>
      /\ Append1(NextStage(selected[e.job], e.completed_stage), e.job, NextMessage(e))
  BY <1>1 DEF TInv, PInv, StalePublish
<1>3. /\ e \in ResultEvent /\ e \in RecordsOf(Results, PartitionOf[e.job])
      /\ e.completed_stage \in selected[e.job] /\ ~IsLast(e)
  BY <1>1, <1>2, StaleHeld
<1> QED
  BY <1>2, <1>3, SendNext DEF TInv, PInv

LEMMA DoneKeepsResult ==
    DoneHasResult /\ TInv /\ [TakeoverNext]_takeoverVars => DoneHasResult'
<1> SUFFICES ASSUME DoneHasResult, TInv, [TakeoverNext]_takeoverVars PROVE DoneHasResult'
  OBVIOUS
<1>1. PInv /\ TypeOK /\ LogOK /\ LogOK' /\ LogInv
  BY TakeoverNextHolds DEF TInv, PInv
<1>2. CASE OthersStep \/ OwnerStep
  <2>1. [OpenNext]_vars
    BY <1>2, OthersAreNext DEF OpenNext
  <2> QED
    BY <1>1, <2>1, DoneHasResultStep
<1>3. CASE StaleSave
  <2>1. PICK e \in ResultEvent : e = stale.event /\ RowAdvances(e) /\ UNCHANGED log
    BY <1>3, StaleSaveEffect
  <2>2. e \in RecordsOf(Results, PartitionOf[e.job])
    BY <1>3, <2>1 DEF TInv, StaleInv, StaleSave, NoOther
  <2> QED
    BY <1>1, <2>1, <2>2, SameLogGrows, AdvanceHasResult
<1>4. CASE StalePublish
  <2>1. LogGrows /\ UNCHANGED jobVars
    BY <1>1, <1>4, StalePublishGrows
  <2> QED
    BY <1>1, <2>1, IdleHasResult DEF jobVars
<1>5. CASE Overtake \/ StaleApply \/ StaleFails \/ UNCHANGED takeoverVars
  <2>1. UNCHANGED <<jobVars, log>>
    BY <1>5 DEF Overtake, Restart, StaleApply, StaleFails, takeoverVars, vars
  <2> QED
    BY <1>1, <2>1, SameLogGrows, IdleHasResult DEF jobVars
<1> QED
  BY <1>2, <1>3, <1>4, <1>5 DEF TakeoverNext, StaleStep

(* A stage that its row calls done has all its files in the bucket,        *)
(* whichever consumer wrote the row and however often the stage was run.   *)
THEOREM DoneStaysBacked == TakeoverSpec => []DoneIsBacked
<1>1. TakeoverInit => DoneHasResult
  BY DoneHasResultFirst DEF TakeoverInit
<1>2. TInv /\ DoneHasResult => DoneIsBacked
  BY ResultsBackDone DEF TInv
<1> QED
  BY <1>1, <1>2, DoneKeepsResult, TakeoverInvariant, PTL DEF TakeoverSpec

-----------------------------------------------------------------------------
(* The refinement survives the takeover.                                   *)

LEMMA TakeoverStep ==
    TInv /\ [TakeoverNext]_takeoverVars => [Progress!Next]_(Progress!vars)
<1> SUFFICES ASSUME TInv, [TakeoverNext]_takeoverVars
             PROVE  Progress!Next \/ UNCHANGED Progress!vars
  OBVIOUS
<1>1. PInv /\ TypeOK /\ LogOK /\ RowIsConsistent
  BY DEF TInv, PInv
<1>2. CASE OthersStep \/ OwnerStep
  BY <1>1, <1>2, OthersAreNext, ProgressStep
<1>3. CASE Overtake \/ StaleApply \/ StaleFails \/ UNCHANGED takeoverVars
  <2>1. UNCHANGED <<jobVars, log>>
    BY <1>3 DEF Overtake, Restart, StaleApply, StaleFails, takeoverVars, vars
  <2> QED
    BY <2>1, SameLogStartsNothing, ProgressIdles DEF jobVars
<1>4. CASE StalePublish
  <2>1. PICK e : e = stale.event
    OBVIOUS
  <2>2. /\ stale.pc = "publish" /\ UNCHANGED jobVars
        /\ Append1(NextStage(selected[e.job], e.completed_stage), e.job, NextMessage(e))
    BY <1>4, <2>1 DEF StalePublish
  <2>3. e \in ResultEvent /\ e.completed_stage \in selected[e.job] /\ ~IsLast(e)
    BY <2>1, <2>2, StaleHeld
  <2> QED
    BY <1>1, <2>2, <2>3, NextStartsNothing, ProgressIdles DEF jobVars
<1>5. CASE StaleSave
  <2>1. PICK e \in ResultEvent : /\ Started(e.job) /\ ~Duplicate(e) /\ Acceptable(e)
                                 /\ RowAdvances(e) /\ log' = log
    BY <1>5, StaleSaveEffect
  <2>2. Progress!Advance(e.job) /\ e.job \in Jobs
    BY <1>1, <2>1, ResultAdvances DEF ResultEvent
  <2> QED
    BY <2>2 DEF Progress!Next
<1> QED
  BY <1>2, <1>3, <1>4, <1>5 DEF TakeoverNext, StaleStep

(* With two consumers, too, each stage of a job is completed once and in   *)
(* order.                                                                  *)
THEOREM TakeoverImplementsProgress == TakeoverSpec => Progress!Spec
<1>1. TakeoverInit => Progress!Init
  BY ProgressInit DEF TakeoverInit
<1> QED
  BY <1>1, TakeoverInvariant, TakeoverStep, PTL DEF TakeoverSpec, Progress!Spec
=============================================================================

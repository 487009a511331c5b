--------------------------- MODULE PipelineProofs ---------------------------
(* Proofs about Pipeline, for every set of jobs, every selection the        *)
(* schema accepts, every number of partitions and of faults.               *)
(*                                                                         *)
(* The inductive invariant says of every partition that what is behind a   *)
(* consumer's position has been dealt with, that each result but a job's    *)
(* first stands behind the result of the stage before, and that a message  *)
(* exists only when that result does.  With the consistency of the row it  *)
(* follows that the result at hand is for the stage the row expects.       *)
EXTENDS Pipeline, StagesProofs

USE PipelineAssumption

-----------------------------------------------------------------------------
(* The inductive invariant.                                                *)

Record == StageMessage \cup ResultEvent

LogOK == log \in [Consumers -> [Partitions -> Seq(Record)]]

(* Records lie on the partition of their job and name selected stages.     *)
RecordInv ==
    \A p \in Partitions :
        /\ \A s \in Stage : \A m \in RecordsOf(s, p) :
              m \in StageMessage /\ PartitionOf[m.job] = p /\ s \in selected[m.job]
        /\ \A e \in RecordsOf(Results, p) :
              /\ e \in ResultEvent /\ PartitionOf[e.job] = p
              /\ e.completed_stage \in selected[e.job]
              /\ e.is_initial = (e.completed_stage = FirstStage(selected[e.job]))
              /\ Started(e.job)

(* A message for a later stage follows the result of the stage before.     *)
HasResult(p, j, s) == \E e \in RecordsOf(Results, p) : e.job = j /\ e.completed_stage = s

MessageInv ==
    \A s \in Stage, p \in Partitions : \A m \in RecordsOf(s, p) :
        IF s = FirstStage(selected[m.job]) THEN m.input = Original
        ELSE /\ Follows(selected[m.job], m.input, s)
             /\ HasResult(p, m.job, m.input)

(* A stage's result stands behind that of the stage before.                *)
OrderInv ==
    \A p \in Partitions : \A i \in 1 .. Len(log[Results][p]) :
        LET e == log[Results][p][i]
        IN  \/ e.completed_stage = FirstStage(selected[e.job])
            \/ \E h \in 1 .. i - 1 :
                  /\ log[Results][p][h].job = e.job
                  /\ Follows(selected[e.job], log[Results][p][h].completed_stage,
                             e.completed_stage)

LogInv == RecordInv /\ MessageInv /\ OrderInv /\ ResultsAreBacked

(* Consumer k's positions lie within the logs; a worker has no transaction. *)
OffsetsOf(k) ==
    /\ k \in Stage => pc[k] # "save"
    /\ pc[k] # "poll" => position[k][at[k]] >= 1
    /\ \A p \in Partitions : /\ position[k][p] <= Len(log[k][p])
                             /\ committed[k][p] <= Len(log[k][p])

(* How far consumer k has dealt with partition p.                          *)
Settled(k, p) ==
    IF at[k] = p /\ pc[k] \in {"work", "publish", "save"} THEN position[k][p] - 1
                                                          ELSE position[k][p]

(* The first n records of partition p have had their effect.               *)
Effective(k, p, n) ==
    \A i \in 1 .. n :
        LET r == log[k][p][i]
        IN  IF k = Results THEN r.completed_stage \in done[r.job]
                           ELSE HasResult(p, r.job, k)

SettledOf(k) ==
    \A p \in Partitions : /\ Effective(k, p, Settled(k, p))
                         /\ Effective(k, p, committed[k][p])

(* A worker has uploaded what it is about to announce.                     *)
UploadsOf(s) ==
    /\ pc[s] = "work" => /\ uploads[s] < OutputCount(s)
                         /\ uploads[s] <= files[Held(s).job][s]
    /\ pc[s] = "publish" => files[Held(s).job][s] = OutputCount(s)

FilesBounded == \A j \in Jobs, s \in Stage : files[j][s] <= OutputCount(s)

ConsumerInv(k) == OffsetsOf(k) /\ SettledOf(k) /\ (k \in Stage => UploadsOf(k))

(* The transaction at work has accepted its result.                        *)
HeldInv ==
    pc[Results] \in {"publish", "save"} =>
        LET e == Held(Results)
        IN  /\ ~Duplicate(e) /\ Acceptable(e)
            /\ pc[Results] = "publish" => ~IsLast(e)

PInv ==
    /\ TypeOK /\ LogOK /\ LogInv
    /\ FilesBounded
    /\ \A k \in Consumers : ConsumerInv(k)
    /\ HeldInv /\ RowIsConsistent

-----------------------------------------------------------------------------
(* Logs and the records in them.                                           *)

(* Nothing that was in a log is lost or moved.                             *)
LogGrows ==
    \A k \in Consumers, p \in Partitions :
        /\ Len(log[k][p]) <= Len(log'[k][p])
        /\ \A i \in 1 .. Len(log[k][p]) : log'[k][p][i] = log[k][p][i]

LEMMA LogType ==
    ASSUME LogOK, NEW k \in Consumers, NEW p \in Partitions
    PROVE  /\ log[k][p] \in Seq(Record)
           /\ Len(log[k][p]) \in Nat
           /\ \A i \in 1 .. Len(log[k][p]) : log[k][p][i] \in Record
BY DEF LogOK

(* What send_job does to the logs.                                         *)
LEMMA AppendStep ==
    ASSUME LogOK, NEW topic \in Consumers, NEW j \in Jobs, NEW m \in Record,
           Append1(topic, j, m)
    PROVE  /\ LogOK'
           /\ LogGrows
           /\ \A k \in Consumers, p \in Partitions :
                 IF k = topic /\ p = PartitionOf[j]
                 THEN /\ Len(log'[k][p]) = Len(log[k][p]) + 1
                      /\ log'[k][p][Len(log[k][p]) + 1] = m
                 ELSE log'[k][p] = log[k][p]
<1> DEFINE q == PartitionOf[j]
<1>1. q \in Partitions
  OBVIOUS
<1>2. log' = [log EXCEPT ![topic] = [log[topic] EXCEPT ![q] = Append(log[topic][q], m)]]
  BY DEF Append1
<1>3. /\ log \in [Consumers -> [Partitions -> Seq(Record)]]
      /\ log[topic] \in [Partitions -> Seq(Record)]
      /\ log[topic][q] \in Seq(Record)
  BY <1>1 DEF LogOK
<1>4. /\ Append(log[topic][q], m) \in Seq(Record)
      /\ Len(Append(log[topic][q], m)) = Len(log[topic][q]) + 1
      /\ Append(log[topic][q], m)[Len(log[topic][q]) + 1] = m
      /\ \A i \in 1 .. Len(log[topic][q]) : Append(log[topic][q], m)[i] = log[topic][q][i]
  BY <1>3
<1>5. LogOK'
  BY <1>1, <1>2, <1>3, <1>4 DEF LogOK
<1>6. /\ log'[topic][q] = Append(log[topic][q], m)
      /\ \A k \in Consumers, p \in Partitions :
            ~(k = topic /\ p = q) => log'[k][p] = log[k][p]
  BY <1>1, <1>2, <1>3
<1>7. LogGrows
  <2> SUFFICES ASSUME NEW k \in Consumers, NEW p \in Partitions
               PROVE  /\ Len(log[k][p]) <= Len(log'[k][p])
                      /\ \A i \in 1 .. Len(log[k][p]) : log'[k][p][i] = log[k][p][i]
    BY DEF LogGrows
  <2>1. CASE k = topic /\ p = q
    <3>1. Len(log[topic][q]) \in Nat
      BY <1>3
    <3> QED
      BY <1>4, <1>6, <2>1, <3>1
  <2>2. CASE ~(k = topic /\ p = q)
    BY <1>6, <2>2, LogType
  <2> QED
    BY <2>1, <2>2
<1> QED
  BY <1>4, <1>5, <1>6, <1>7

LEMMA RecordsAppend ==
    ASSUME LogOK, NEW topic \in Consumers, NEW j \in Jobs, NEW m \in Record,
           Append1(topic, j, m), NEW k \in Consumers, NEW p \in Partitions
    PROVE  RecordsOf(k, p)' = RecordsOf(k, p) \cup
                              (IF k = topic /\ p = PartitionOf[j] THEN {m} ELSE {})
<1>1. CASE k = topic /\ p = PartitionOf[j]
  <2>1. /\ Len(log[k][p]) \in Nat
        /\ Len(log'[k][p]) = Len(log[k][p]) + 1
        /\ log'[k][p][Len(log[k][p]) + 1] = m
        /\ \A i \in 1 .. Len(log[k][p]) : log'[k][p][i] = log[k][p][i]
    BY <1>1, AppendStep, LogType DEF LogGrows
  <2> DEFINE n == Len(log[k][p])
  <2>2. 1 .. n + 1 = (1 .. n) \cup {n + 1}
    BY <2>1
  <2>3. RecordsOf(k, p)' = {log'[k][p][i] : i \in 1 .. n + 1}
    BY <2>1 DEF RecordsOf
  <2>4. {log'[k][p][i] : i \in 1 .. n + 1} = {log'[k][p][i] : i \in 1 .. n} \cup {m}
    BY <2>1, <2>2
  <2>5. {log'[k][p][i] : i \in 1 .. n} = RecordsOf(k, p)
    BY <2>1 DEF RecordsOf
  <2> QED
    BY <1>1, <2>3, <2>4, <2>5
<1>2. CASE ~(k = topic /\ p = PartitionOf[j])
  BY <1>2, AppendStep DEF RecordsOf
<1> QED
  BY <1>1, <1>2

LEMMA RecordsGrow ==
    ASSUME LogOK, LogOK', LogGrows, NEW k \in Consumers, NEW p \in Partitions
    PROVE  RecordsOf(k, p) \subseteq RecordsOf(k, p)'
<1> SUFFICES ASSUME NEW i \in 1 .. Len(log[k][p])
             PROVE  \E h \in 1 .. Len(log'[k][p]) : log'[k][p][h] = log[k][p][i]
  BY DEF RecordsOf
<1>1. /\ Len(log[k][p]) \in Nat /\ Len(log'[k][p]) \in Nat
      /\ Len(log[k][p]) <= Len(log'[k][p])
      /\ log'[k][p][i] = log[k][p][i]
  BY LogType DEF LogGrows, LogOK
<1> QED
  BY <1>1

(* The record a consumer holds lies in the log of its partition.           *)
LEMMA HeldIsRecord ==
    ASSUME TypeOK, LogOK, NEW k \in Consumers, OffsetsOf(k), pc[k] # "poll"
    PROVE  /\ at[k] \in Partitions
           /\ position[k][at[k]] \in 1 .. Len(log[k][at[k]])
           /\ Held(k) = log[k][at[k]][position[k][at[k]]]
           /\ Held(k) \in RecordsOf(k, at[k])
<1>1. /\ at[k] \in Partitions
      /\ position[k][at[k]] \in Nat
      /\ position[k][at[k]] >= 1 /\ position[k][at[k]] <= Len(log[k][at[k]])
  BY DEF TypeOK, OffsetsOf
<1> QED
  BY <1>1, LogType DEF Held, RecordsOf

LEMMA HeldStays ==
    ASSUME TypeOK, LogOK, LogGrows, NEW k \in Consumers, OffsetsOf(k), pc[k] # "poll",
           position'[k] = position[k], at'[k] = at[k]
    PROVE  Held(k)' = Held(k)
<1>1. PICK p, i : p = at[k] /\ i = position[k][p]
  OBVIOUS
<1>2. p \in Partitions /\ i \in 1 .. Len(log[k][p])
  BY <1>1, HeldIsRecord
<1>3. log'[k][p][i] = log[k][p][i]
  BY <1>2 DEF LogGrows
<1>4. at'[k] = p /\ position'[k][p] = i
  BY <1>1
<1> QED
  BY <1>1, <1>3, <1>4 DEF Held

-----------------------------------------------------------------------------
(* The invariants of the logs and the row.                                 *)

LEMMA LogStays ==
    ASSUME LogInv, UNCHANGED <<selected, files, log>>
    PROVE  LogInv'
<1>1. \A k, p : RecordsOf(k, p)' = RecordsOf(k, p)
  BY DEF RecordsOf
<1>2. /\ \A j : Started(j)' = Started(j)
      /\ \A p, j, s : HasResult(p, j, s)' = HasResult(p, j, s)
  BY DEF Started, HasResult, RecordsOf
<1>3. RecordInv'
  BY <1>1, <1>2 DEF LogInv, RecordInv
<1>4. MessageInv'
  BY <1>1, <1>2 DEF LogInv, MessageInv
<1>5. OrderInv'
  BY DEF LogInv, OrderInv
<1>6. ResultsAreBacked'
  BY <1>1 DEF LogInv, ResultsAreBacked
<1> QED
  BY <1>3, <1>4, <1>5, <1>6 DEF LogInv

LEMMA SelectedType ==
    ASSUME TypeOK, NEW j \in Jobs
    PROVE  /\ selected[j] \in SUBSET Stage /\ selected[j] # {}
           /\ FirstStage(selected[j]) \in selected[j]
           /\ FirstStage(selected[j]) \in Stage
<1>1. selected[j] \in SUBSET Stage /\ selected[j] # {}
  BY DEF TypeOK, Selections, ValidSelection
<1> QED
  BY <1>1, FirstIsLeast

LEMMA GrowthKeeps ==
    ASSUME LogOK, LogOK', LogGrows, selected' = selected,
           TypeOK, NEW j \in Jobs
    PROVE  /\ Started(j) => Started(j)'
           /\ \A p \in Partitions : \A s : HasResult(p, j, s) => HasResult(p, j, s)'
<1>1. Results \in Consumers
  BY DEF Consumers
<1>2. FirstStage(selected[j]) \in Consumers
  BY SelectedType DEF Consumers
<1>3. PartitionOf[j] \in Partitions
  OBVIOUS
<1> QED
  BY <1>1, <1>2, <1>3, RecordsGrow DEF Started, HasResult

(* A stage message is appended.                                            *)
LEMMA AppendMessage ==
    ASSUME TypeOK, LogOK, LogInv, UNCHANGED <<selected, files>>,
           NEW s \in Stage, NEW j \in Jobs, NEW m \in StageMessage, m.job = j,
           s \in selected[j], Append1(s, j, m),
           IF s = FirstStage(selected[j]) THEN m.input = Original
           ELSE Follows(selected[j], m.input, s) /\ HasResult(PartitionOf[j], j, m.input)
    PROVE  LogInv'
<1>1. /\ s \in Consumers /\ Results \in Consumers /\ Results # s /\ Stage \subseteq Consumers
      /\ m \in Record
  BY DEF Consumers, Results, Stage, Record
<1>2. LogOK' /\ LogGrows
  BY <1>1, AppendStep
<1>3. \A p \in Partitions : /\ log'[Results][p] = log[Results][p]
                            /\ RecordsOf(Results, p)' = RecordsOf(Results, p)
  BY <1>1, AppendStep DEF RecordsOf
<1>4. ASSUME NEW t \in Stage, NEW p \in Partitions, NEW r \in RecordsOf(t, p)'
      PROVE  r \in RecordsOf(t, p) \/ (t = s /\ p = PartitionOf[j] /\ r = m)
  BY <1>1, <1>4, RecordsAppend
<1>5. \A i \in Jobs : /\ Started(i) => Started(i)'
                      /\ \A p \in Partitions : \A t : HasResult(p, i, t) => HasResult(p, i, t)'
  BY <1>2, GrowthKeeps
<1>6. RecordInv'
  BY <1>3, <1>4, <1>5 DEF LogInv, RecordInv, ResultEvent
<1>7. MessageInv'
  <2> SUFFICES ASSUME NEW t \in Stage, NEW p \in Partitions, NEW r \in RecordsOf(t, p)'
               PROVE  IF t = FirstStage(selected[r.job]) THEN r.input = Original
                      ELSE /\ Follows(selected[r.job], r.input, t)
                           /\ HasResult(p, r.job, r.input)'
    BY DEF MessageInv
  <2>1. CASE r \in RecordsOf(t, p)
    <3>1. r.job \in Jobs
      BY <2>1 DEF LogInv, RecordInv, StageMessage
    <3>2. IF t = FirstStage(selected[r.job]) THEN r.input = Original
          ELSE Follows(selected[r.job], r.input, t) /\ HasResult(p, r.job, r.input)
      BY <2>1 DEF LogInv, MessageInv
    <3> QED
      BY <1>5, <3>1, <3>2
  <2>2. CASE t = s /\ p = PartitionOf[j] /\ r = m
    BY <1>5, <2>2
  <2> QED
    BY <1>4, <2>1, <2>2
<1>8. OrderInv' /\ ResultsAreBacked'
  <2>1. OrderInv'
    BY <1>3 DEF LogInv, OrderInv
  <2>2. ResultsAreBacked'
    BY <1>3 DEF LogInv, ResultsAreBacked
  <2> QED
    BY <2>1, <2>2
<1> QED
  BY <1>6, <1>7, <1>8 DEF LogInv

(* A result is appended.                                                   *)
LEMMA AppendResult ==
    ASSUME TypeOK, LogOK, LogInv, UNCHANGED <<selected, files>>,
           NEW j \in Jobs, NEW e \in ResultEvent, e.job = j, Append1(Results, j, e),
           e.completed_stage \in selected[j], Started(j),
           e.is_initial = (e.completed_stage = FirstStage(selected[j])),
           files[j][e.completed_stage] = OutputCount(e.completed_stage),
           \/ e.completed_stage = FirstStage(selected[j])
           \/ \E t : /\ Follows(selected[j], t, e.completed_stage)
                     /\ HasResult(PartitionOf[j], j, t)
    PROVE  LogInv'
<1> DEFINE q == PartitionOf[j]
           n == Len(log[Results][q])
<1>1. /\ Results \in Consumers /\ Stage \subseteq Consumers /\ Results \notin Stage
      /\ e \in Record /\ q \in Partitions /\ n \in Nat
  BY LogType DEF Consumers, Results, Stage, Record
<1>2. LogOK' /\ LogGrows
  BY <1>1, AppendStep
<1>3. ASSUME NEW t \in Stage, NEW p \in Partitions
      PROVE  RecordsOf(t, p)' = RecordsOf(t, p)
  <2>1. t \in Consumers /\ t # Results
    BY <1>1
  <2>2. \A k \in Consumers, r \in Partitions : k # Results => log'[k][r] = log[k][r]
    BY <1>1, AppendStep
  <2>3. log'[t][p] = log[t][p]
    BY <2>1, <2>2
  <2> QED
    BY <2>3 DEF RecordsOf
<1>4. ASSUME NEW p \in Partitions, NEW r \in RecordsOf(Results, p)'
      PROVE  r \in RecordsOf(Results, p) \/ (p = q /\ r = e)
  BY <1>1, <1>4, RecordsAppend
<1>5. \A i \in Jobs : /\ Started(i) => Started(i)'
                      /\ \A p \in Partitions : \A t : HasResult(p, i, t) => HasResult(p, i, t)'
  BY <1>2, GrowthKeeps
<1>6. RecordInv'
  BY <1>3, <1>4, <1>5 DEF LogInv, RecordInv, ResultEvent
<1>7. MessageInv'
  BY <1>3, <1>5 DEF LogInv, MessageInv, RecordInv, StageMessage
<1>8. ResultsAreBacked'
  BY <1>4 DEF LogInv, ResultsAreBacked
<1>9. ASSUME NEW p \in Partitions, NEW i \in 1 .. Len(log'[Results][p])
      PROVE  LET r == log'[Results][p][i]
             IN  \/ r.completed_stage = FirstStage(selected[r.job])
                 \/ \E h \in 1 .. i - 1 :
                       /\ log'[Results][p][h].job = r.job
                       /\ Follows(selected[r.job], log'[Results][p][h].completed_stage,
                                  r.completed_stage)
  <2>1. CASE p = q /\ i = n + 1
    <3>1. log'[Results][p][i] = e
      BY <1>1, <2>1, AppendStep
    <3>2. CASE e.completed_stage = FirstStage(selected[j])
      BY <3>1, <3>2
    <3>3. ASSUME NEW t, Follows(selected[j], t, e.completed_stage), HasResult(q, j, t)
          PROVE  \E h \in 1 .. i - 1 :
                       /\ log'[Results][p][h].job = j
                       /\ Follows(selected[j], log'[Results][p][h].completed_stage,
                                  e.completed_stage)
      <4>1. PICK h \in 1 .. n : /\ log[Results][q][h].job = j
                                /\ log[Results][q][h].completed_stage = t
        BY <3>3 DEF HasResult, RecordsOf
      <4>2. h \in 1 .. i - 1 /\ log'[Results][p][h] = log[Results][q][h]
        BY <1>1, <1>2, <2>1 DEF LogGrows
      <4> QED
        BY <3>3, <4>1, <4>2
    <3> QED
      BY <3>1, <3>2, <3>3
  <2>2. CASE ~(p = q /\ i = n + 1)
    <3>1. /\ Len(log[Results][p]) \in Nat
          /\ i \in 1 .. Len(log[Results][p])
      BY <1>1, <2>2, AppendStep, LogType
    <3>2. \A h \in 1 .. i : log'[Results][p][h] = log[Results][p][h]
      BY <1>1, <1>2, <3>1 DEF LogGrows
    <3>3. log'[Results][p][i] = log[Results][p][i]
      BY <3>1, <3>2
    <3>4. LET r == log[Results][p][i]
          IN  \/ r.completed_stage = FirstStage(selected[r.job])
              \/ \E h \in 1 .. i - 1 :
                    /\ log[Results][p][h].job = r.job
                    /\ Follows(selected[r.job], log[Results][p][h].completed_stage,
                               r.completed_stage)
      BY <3>1 DEF LogInv, OrderInv
    <3>5. \A h \in 1 .. i - 1 : log'[Results][p][h] = log[Results][p][h]
      BY <3>1, <3>2
    <3> QED
      BY <3>3, <3>4, <3>5
  <2> QED
    BY <2>1, <2>2
<1>10. OrderInv'
  BY <1>9 DEF OrderInv
<1> QED
  BY <1>6, <1>7, <1>8, <1>10 DEF LogInv

(* The row after the result e of its current stage has been saved.         *)
RowAdvances(e) ==
    LET j == e.job
        s == e.completed_stage
    IN  /\ done' = [done EXCEPT ![j] = @ \cup {s}]
        /\ hashed' = [hashed EXCEPT ![j] = @ \/ e.is_initial]
        /\ status' = [status EXCEPT ![j] = IF IsLast(e) THEN "COMPLETED" ELSE "PROCESSING"]
        /\ current_stage' = [current_stage EXCEPT ![j] =
                                IF IsLast(e) THEN s ELSE NextStage(selected[j], s)]
        /\ selected' = selected

LEMMA RowStep ==
    ASSUME TypeOK, RowIsConsistent, NEW e \in ResultEvent, ~Duplicate(e), Acceptable(e),
           RowAdvances(e)
    PROVE  /\ RowIsConsistent'
           /\ done' \in [Jobs -> SUBSET Stage] /\ current_stage' \in [Jobs -> Stage]
           /\ status' \in [Jobs -> {"QUEUED", "PROCESSING", "COMPLETED"}]
           /\ hashed' \in [Jobs -> BOOLEAN]
           /\ \A j \in Jobs : done[j] \subseteq done'[j]
           /\ e.completed_stage \in done'[e.job]
           /\ \A j \in Jobs : j # e.job => /\ done'[j] = done[j]
                                           /\ current_stage'[j] = current_stage[j]
<1> DEFINE j == e.job
           s == e.completed_stage
           S == selected[j]
           n == NextStage(S, s)
<1>1. /\ j \in Jobs /\ s \in Stage /\ e.is_initial \in BOOLEAN
      /\ S \in SUBSET Stage /\ S # {} /\ s \in S /\ current_stage[j] = s
      /\ s \notin done[j]
      /\ FirstStage(S) \in S /\ \A t \in S : Index(FirstStage(S)) <= Index(t)
      /\ e.is_initial = (s = FirstStage(S))
  BY SelectedType, FirstIsLeast DEF ResultEvent, Acceptable, Duplicate
<1>2. ~IsLast(e) => /\ n \in S /\ n \in Stage /\ Index(s) < Index(n)
                    /\ Later(S, s) = {n} \cup Later(S, n)
  BY <1>1, NextIsLeast, LaterOfNext DEF IsLast
<1>3. /\ done'[j] = done[j] \cup {s}
      /\ hashed'[j] = (hashed[j] \/ e.is_initial)
      /\ status'[j] = IF IsLast(e) THEN "COMPLETED" ELSE "PROCESSING"
      /\ current_stage'[j] = IF IsLast(e) THEN s ELSE n
      /\ selected' = selected
      /\ \A i \in Jobs : i # j => /\ done'[i] = done[i] /\ hashed'[i] = hashed[i]
                                  /\ status'[i] = status[i]
                                  /\ current_stage'[i] = current_stage[i]
  BY <1>1 DEF RowAdvances, TypeOK
<1>4. /\ done' \in [Jobs -> SUBSET Stage] /\ current_stage' \in [Jobs -> Stage]
      /\ status' \in [Jobs -> {"QUEUED", "PROCESSING", "COMPLETED"}]
      /\ hashed' \in [Jobs -> BOOLEAN]
  BY <1>1, <1>2 DEF RowAdvances, TypeOK
<1> DEFINE Row(i) ==
        /\ current_stage[i] \in selected[i]
        /\ done[i] = IF status[i] = "COMPLETED" THEN selected[i]
                     ELSE selected[i] \ ({current_stage[i]} \cup
                                         Later(selected[i], current_stage[i]))
        /\ status[i] = "QUEUED" <=> done[i] = {}
        /\ status[i] = "COMPLETED" => Later(selected[i], current_stage[i]) = {}
        /\ hashed[i] <=> done[i] # {}
<1>5. \A i \in Jobs : Row(i)
  BY DEF RowIsConsistent
<1>6. /\ status[j] # "COMPLETED"
      /\ done[j] = S \ ({s} \cup Later(S, s))
  BY <1>1, <1>5
<1>7. hashed'[j]
  <2>1. CASE s = FirstStage(S)
    BY <1>1, <1>3, <2>1
  <2>2. CASE s # FirstStage(S)
    <3>1. FirstStage(S) \in done[j]
      BY <1>1, <1>6, <2>2, IndexType DEF Later
    <3> QED
      BY <1>1, <1>3, <1>5, <3>1
  <2> QED
    BY <2>1, <2>2
<1>8. Row(j)'
  <2>1. CASE IsLast(e)
    <3>1. Later(S, s) = {} /\ done'[j] = S
      BY <1>1, <1>3, <1>6, <2>1 DEF IsLast
    <3> QED
      BY <1>1, <1>3, <1>7, <2>1, <3>1
  <2>2. CASE ~IsLast(e)
    <3>1. s \notin Later(S, s)
      BY <1>1, IndexType DEF Later
    <3>2. done'[j] = S \ ({n} \cup Later(S, n))
      BY <1>1, <1>2, <1>3, <1>6, <2>2, <3>1
    <3> QED
      BY <1>1, <1>2, <1>3, <1>7, <2>2, <3>2
  <2> QED
    BY <2>1, <2>2
<1>9. RowIsConsistent'
  <2>1. ASSUME NEW i \in Jobs PROVE Row(i)'
    <3>1. CASE i = j
      BY <1>8, <3>1
    <3>2. CASE i # j
      <4>1. /\ done'[i] = done[i] /\ hashed'[i] = hashed[i] /\ status'[i] = status[i]
            /\ current_stage'[i] = current_stage[i] /\ selected'[i] = selected[i]
        BY <1>3, <3>2
      <4>2. Row(i)
        BY <1>5
      <4> QED
        BY <4>1, <4>2
    <3> QED
      BY <3>1, <3>2
  <2> QED
    BY <2>1 DEF RowIsConsistent
<1> QED
  BY <1>1, <1>3, <1>4, <1>9

-----------------------------------------------------------------------------
(* The invariants of one consumer.                                         *)

(* What no step takes back.                                                *)
Grows ==
    /\ LogGrows
    /\ selected' = selected
    /\ \A j \in Jobs : /\ done[j] \subseteq done'[j]
                       /\ \A s \in Stage : files[j][s] <= files'[j][s]

LEMMA EffectiveKeeps ==
    ASSUME TypeOK, LogOK, LogOK', Grows, NEW k \in Consumers, NEW p \in Partitions,
           NEW n \in Int, n <= Len(log[k][p]), Effective(k, p, n),
           NEW m \in Int, m <= n
    PROVE  Effective(k, p, m)'
<1>1. ASSUME NEW i \in 1 .. m
      PROVE  /\ i \in 1 .. n
             /\ log'[k][p][i] = log[k][p][i]
             /\ log[k][p][i].job \in Jobs
  <2>1. i \in 1 .. n /\ i \in 1 .. Len(log[k][p])
    BY LogType
  <2> QED
    BY <2>1, LogType DEF Grows, LogGrows, Record, StageMessage, ResultEvent
<1>2. CASE k = Results
  BY <1>1, <1>2 DEF Effective, Grows
<1>3. CASE k # Results
  <2>1. Results \in Consumers
    BY DEF Consumers
  <2>2. RecordsOf(Results, p) \subseteq RecordsOf(Results, p)'
    BY <2>1, RecordsGrow DEF Grows
  <2> QED
    BY <1>1, <1>3, <2>2 DEF Effective, HasResult
<1> QED
  BY <1>2, <1>3

LEMMA SettledType ==
    ASSUME TypeOK, LogOK, NEW k \in Consumers, OffsetsOf(k), NEW p \in Partitions
    PROVE  /\ Settled(k, p) \in Int /\ Settled(k, p) <= Len(log[k][p])
           /\ position[k][p] \in Nat /\ position[k][p] <= Len(log[k][p])
           /\ committed[k][p] \in Nat /\ committed[k][p] <= Len(log[k][p])
<1>1. /\ position[k][p] \in Nat /\ committed[k][p] \in Nat /\ Len(log[k][p]) \in Nat
      /\ position[k][p] <= Len(log[k][p]) /\ committed[k][p] <= Len(log[k][p])
  BY LogType DEF TypeOK, OffsetsOf
<1> QED
  BY <1>1 DEF Settled

(* A consumer that has not moved keeps its invariants whatever the others   *)
(* do.                                                                     *)
LEMMA OthersKeep ==
    ASSUME TypeOK, LogOK, LogOK', Grows, FilesBounded', TypeOK', NEW k \in Consumers,
           ConsumerInv(k), position'[k] = position[k], committed'[k] = committed[k],
           pc'[k] = pc[k], at'[k] = at[k], k \in Stage => uploads'[k] = uploads[k],
           RecordInv
    PROVE  ConsumerInv(k)'
<1>1. OffsetsOf(k)'
  <2>1. ASSUME NEW p \in Partitions
        PROVE  Len(log[k][p]) \in Nat /\ Len(log'[k][p]) \in Nat
               /\ Len(log[k][p]) <= Len(log'[k][p])
    BY LogType DEF Grows, LogGrows, LogOK
  <2>2. OffsetsOf(k)
    BY DEF ConsumerInv
  <2>3. ASSUME NEW p \in Partitions
        PROVE  position'[k][p] <= Len(log'[k][p]) /\ committed'[k][p] <= Len(log'[k][p])
    <3>1. /\ position[k][p] \in Nat /\ position[k][p] <= Len(log[k][p])
          /\ committed[k][p] \in Nat /\ committed[k][p] <= Len(log[k][p])
      BY <2>2, SettledType
    <3>2. Len(log[k][p]) \in Nat /\ Len(log'[k][p]) \in Nat
          /\ Len(log[k][p]) <= Len(log'[k][p])
      BY <2>1
    <3> QED
      BY <3>1, <3>2
  <2> QED
    BY <2>2, <2>3 DEF OffsetsOf
<1>2. SettledOf(k)'
  <2> SUFFICES ASSUME NEW p \in Partitions
               PROVE  Effective(k, p, Settled(k, p))' /\ Effective(k, p, committed[k][p])'
    BY DEF SettledOf
  <2>1. Settled(k, p)' = Settled(k, p) /\ committed'[k][p] = committed[k][p]
    BY DEF Settled
  <2>2. PICK n, m : n = Settled(k, p) /\ m = committed[k][p]
    OBVIOUS
  <2>3. Effective(k, p, n)' /\ Effective(k, p, m)'
    BY <2>2, SettledType, EffectiveKeeps DEF ConsumerInv, SettledOf
  <2> QED
    BY <2>1, <2>2, <2>3 DEF Effective
<1>3. ASSUME k \in Stage PROVE UploadsOf(k)'
  <2> DEFINE h == Held(k)
  <2>1. pc[k] # "poll" => Held(k)' = h
    BY HeldStays DEF Grows, ConsumerInv
  <2>2. pc[k] # "poll" => h.job \in Jobs
    BY <1>3, HeldIsRecord DEF ConsumerInv, RecordInv, StageMessage
  <2>3. h.job \in Jobs =>
            /\ files[h.job][k] \in Nat /\ files'[h.job][k] \in Nat
            /\ files[h.job][k] <= files'[h.job][k]
            /\ files'[h.job][k] <= OutputCount(k)
            /\ uploads[k] \in Nat /\ OutputCount(k) \in Nat
    BY <1>3 DEF Grows, FilesBounded, TypeOK, OutputCount
  <2> QED
    BY <1>3, <2>1, <2>2, <2>3 DEF UploadsOf, ConsumerInv
<1> QED
  BY <1>1, <1>2, <1>3 DEF ConsumerInv

(* The same for the result at hand, as long as its row stays as it is.     *)
LEMMA HeldKeeps ==
    ASSUME TypeOK, LogOK, LogGrows, OffsetsOf(Results), HeldInv, selected' = selected,
           position'[Results] = position[Results], at'[Results] = at[Results],
           pc'[Results] = pc[Results],
           pc[Results] \in {"publish", "save"} =>
               LET j == Held(Results).job
               IN  done'[j] = done[j] /\ current_stage'[j] = current_stage[j]
    PROVE  HeldInv'
<1>1. Results \in Consumers
  BY DEF Consumers
<1>2. pc[Results] # "poll" => Held(Results)' = Held(Results)
  BY <1>1, HeldStays
<1> QED
  BY <1>2 DEF HeldInv, Duplicate, Acceptable, IsLast

-----------------------------------------------------------------------------
(* The steps.                                                              *)

OnlyMoves(k) ==
    \A i \in Consumers : i # k =>
        /\ position'[i] = position[i] /\ committed'[i] = committed[i]
        /\ pc'[i] = pc[i] /\ at'[i] = at[i]
        /\ i \in Stage => uploads'[i] = uploads[i]

(* A step of consumer k.                                                   *)
LEMMA StepKeeps ==
    ASSUME PInv, TypeOK', LogOK', LogInv', FilesBounded', HeldInv', RowIsConsistent',
           Grows, NEW k \in Consumers, OnlyMoves(k), ConsumerInv(k)'
    PROVE  PInv'
<1>1. ASSUME NEW i \in Consumers, i # k PROVE ConsumerInv(i)'
  BY <1>1, OthersKeep DEF PInv, LogInv, OnlyMoves
<1>2. \A i \in Consumers : ConsumerInv(i)'
  BY <1>1
<1> QED
  BY <1>2 DEF PInv

(* A step of consumer k after which it has no transaction to save, when    *)
(* the row and the files stay as they are.                                 *)
LEMMA MoveKeeps ==
    ASSUME PInv, TypeOK', LogOK', LogInv', LogGrows, UNCHANGED <<jobVars, files>>,
           NEW k \in Consumers, OnlyMoves(k), pc'[k] \notin {"publish", "save"},
           OffsetsOf(k)', SettledOf(k)', k \in Stage => UploadsOf(k)'
    PROVE  PInv'
<1>1. Grows
  BY DEF Grows, jobVars, PInv, TypeOK
<1>2. FilesBounded' /\ RowIsConsistent'
  BY DEF PInv, FilesBounded, RowIsConsistent, jobVars
<1>3. HeldInv'
  <2>1. CASE k = Results
    BY <2>1 DEF HeldInv
  <2>2. CASE k # Results
    <3>1. Results \in Consumers
      BY DEF Consumers
    <3> QED
      BY <2>2, <3>1, HeldKeeps DEF PInv, ConsumerInv, OnlyMoves, jobVars
  <2> QED
    BY <2>1, <2>2
<1> QED
  BY <1>1, <1>2, <1>3, StepKeeps DEF ConsumerInv

LEMMA SameLog ==
    ASSUME PInv, UNCHANGED <<jobVars, files, log>>
    PROVE  LogOK' /\ LogInv' /\ LogGrows
BY LogStays, LogType DEF PInv, LogOK, LogGrows, jobVars

LEMMA FetchStep ==
    ASSUME PInv, NEW k \in Consumers, Fetch(k)
    PROVE  PInv'
<1> USE DEF Fetch, Goto
<1>1. PICK p \in Partitions : /\ position[k][p] < Len(log[k][p])
                              /\ position' = [position EXCEPT ![k][p] = @ + 1]
                              /\ at' = [at EXCEPT ![k] = p]
  OBVIOUS
<1>2. TypeOK /\ LogOK /\ LogInv /\ OffsetsOf(k) /\ SettledOf(k)
  BY DEF PInv, ConsumerInv
<1>3. LogOK' /\ LogInv' /\ LogGrows
  BY SameLog
<1>4. TypeOK'
  BY <1>1, <1>2 DEF TypeOK, jobVars
<1>5. /\ OnlyMoves(k)
      /\ pc[k] = "poll" /\ pc'[k] = "work" /\ at'[k] = p /\ committed' = committed
      /\ log' = log /\ files' = files /\ done' = done
      /\ position'[k][p] = position[k][p] + 1
      /\ \A q \in Partitions : q # p => position'[k][q] = position[k][q]
  BY <1>1, <1>2 DEF TypeOK, OnlyMoves, jobVars
<1>6. \A q \in Partitions : position[k][q] \in Nat /\ Len(log[k][q]) \in Nat
  BY <1>2, LogType DEF TypeOK
<1>7. OffsetsOf(k)'
  BY <1>1, <1>2, <1>5, <1>6 DEF OffsetsOf
<1>8. SettledOf(k)'
  <2>1. \A q \in Partitions : Settled(k, q)' = Settled(k, q)
    BY <1>5, <1>6 DEF Settled
  <2> SUFFICES ASSUME NEW q \in Partitions
               PROVE  Effective(k, q, Settled(k, q))' /\ Effective(k, q, committed[k][q])'
    BY DEF SettledOf
  <2>2. PICK n, m : n = Settled(k, q) /\ m = committed[k][q]
    OBVIOUS
  <2>3. Settled(k, q)' = n /\ committed'[k][q] = m
    BY <1>5, <2>1, <2>2
  <2>4. Effective(k, q, n) /\ Effective(k, q, m)
    BY <1>2, <2>2 DEF SettledOf
  <2> QED
    BY <1>5, <2>3, <2>4 DEF Effective, HasResult, RecordsOf
<1>9. ASSUME k \in Stage PROVE UploadsOf(k)'
  <2>1. Held(k)' \in RecordsOf(k, p)
    <3>1. Held(k)' = log[k][p][position[k][p] + 1]
      BY <1>5 DEF Held
    <3>2. position[k][p] + 1 \in 1 .. Len(log[k][p])
      BY <1>1, <1>6
    <3> QED
      BY <3>1, <3>2 DEF RecordsOf
  <2>2. Held(k)'.job \in Jobs
    BY <1>2, <1>9, <2>1 DEF LogInv, RecordInv, StageMessage
  <2>3. uploads'[k] = 0 /\ files'[Held(k)'.job][k] \in Nat
    BY <1>2, <1>9, <2>2 DEF TypeOK
  <2> QED
    BY <1>5, <2>3 DEF UploadsOf, OutputCount
<1> QED
  BY <1>3, <1>4, <1>5, <1>7, <1>8, <1>9, MoveKeeps

LEMMA CommitOffsetsStep ==
    ASSUME PInv, NEW k \in Consumers, CommitOffsets(k)
    PROVE  PInv'
<1> USE DEF CommitOffsets, Goto
<1>1. TypeOK /\ LogOK /\ LogInv /\ OffsetsOf(k) /\ SettledOf(k)
  BY DEF PInv, ConsumerInv
<1>2. LogOK' /\ LogInv' /\ LogGrows
  BY SameLog
<1>3. TypeOK'
  BY <1>1 DEF TypeOK, jobVars
<1>4. /\ OnlyMoves(k)
      /\ pc[k] = "commit" /\ pc'[k] = "poll" /\ committed'[k] = position[k]
      /\ log' = log /\ files' = files /\ done' = done /\ position' = position
  BY <1>1 DEF TypeOK, OnlyMoves, jobVars
<1>5. OffsetsOf(k)'
  BY <1>1, <1>4 DEF OffsetsOf
<1>6. SettledOf(k)'
  <2>1. \A q \in Partitions : /\ Settled(k, q)' = Settled(k, q)
                              /\ committed'[k][q] = Settled(k, q)
    BY <1>4 DEF Settled
  <2> QED
    BY <1>1, <1>4, <2>1 DEF SettledOf, Effective, HasResult, RecordsOf
<1>7. UploadsOf(k)'
  BY <1>4 DEF UploadsOf
<1> QED
  BY <1>2, <1>3, <1>4, <1>5, <1>6, <1>7, MoveKeeps

(* The consumer's position after an exception or a restart.                *)
LEMMA BackKeeps ==
    ASSUME PInv, TypeOK', LogOK', LogInv', LogGrows, UNCHANGED <<jobVars, files>>,
           NEW k \in Consumers, OnlyMoves(k), pc'[k] = "poll", committed' = committed,
           at' = at,
           \A p \in Partitions : \/ position'[k][p] = committed[k][p]
                                 \/ position'[k][p] = Settled(k, p)
                                 \/ position'[k][p] = position[k][p] - 1
    PROVE  PInv'
<1>1. TypeOK /\ LogOK /\ LogInv /\ OffsetsOf(k) /\ SettledOf(k)
  BY DEF PInv, ConsumerInv
<1>2. Grows
  BY DEF Grows, jobVars, PInv, TypeOK
<1>3. ASSUME NEW p \in Partitions
      PROVE  /\ position'[k][p] \in Int
             /\ \/ position'[k][p] <= Settled(k, p) /\ Settled(k, p) <= Len(log[k][p])
                \/ position'[k][p] <= committed[k][p] /\ committed[k][p] <= Len(log[k][p])
  BY <1>1, SettledType DEF Settled
<1>4. OffsetsOf(k)'
  <2>1. ASSUME NEW p \in Partitions
        PROVE  Len(log[k][p]) \in Nat /\ Len(log'[k][p]) \in Nat
               /\ Len(log[k][p]) <= Len(log'[k][p])
    BY <1>1, LogType DEF LogGrows, LogOK
  <2>2. ASSUME NEW p \in Partitions
        PROVE  position'[k][p] <= Len(log'[k][p]) /\ committed[k][p] <= Len(log'[k][p])
    <3>1. /\ Settled(k, p) \in Int /\ committed[k][p] \in Nat
          /\ committed[k][p] <= Len(log[k][p])
      BY <1>1, SettledType
    <3>2. committed[k][p] <= Len(log'[k][p])
      BY <2>1, <3>1
    <3>3. position'[k][p] <= Len(log'[k][p])
      <4>1. \A x, b, l, m \in Int : x <= b /\ b <= l /\ l <= m => x <= m
        OBVIOUS
      <4>2. PICK b \in Int : position'[k][p] <= b /\ b <= Len(log[k][p])
        BY <1>3, <3>1
      <4> QED
        BY <1>3, <2>1, <4>1, <4>2
    <3> QED
      BY <3>2, <3>3
  <2> QED
    BY <2>2 DEF OffsetsOf
<1>5. SettledOf(k)'
  <2> SUFFICES ASSUME NEW p \in Partitions
               PROVE  Effective(k, p, Settled(k, p))' /\ Effective(k, p, committed[k][p])'
    BY DEF SettledOf
  <2>1. PICK m, n, c : m = position'[k][p] /\ n = Settled(k, p) /\ c = committed[k][p]
    OBVIOUS
  <2>2. Effective(k, p, n) /\ Effective(k, p, c)
    BY <1>1, <2>1 DEF SettledOf
  <2>3. Effective(k, p, m)' /\ Effective(k, p, c)'
    BY <1>1, <1>2, <1>3, <2>1, <2>2, SettledType, EffectiveKeeps
  <2>4. Settled(k, p)' = m /\ committed'[k][p] = c
    BY <2>1 DEF Settled
  <2> QED
    BY <2>3, <2>4 DEF Effective
<1>6. UploadsOf(k)'
  BY DEF UploadsOf
<1> QED
  BY <1>4, <1>5, <1>6, MoveKeeps

LEMMA SeekBackStep ==
    ASSUME PInv, NEW k \in Consumers, SeekBack(k), faults' \in 0 .. MaxFaults
    PROVE  PInv'
<1> USE DEF SeekBack, Seek, Goto
<1>1. TypeOK /\ LogOK /\ LogInv /\ OffsetsOf(k)
  BY DEF PInv, ConsumerInv
<1>2. at[k] \in Partitions /\ position[k][at[k]] \in 1 .. Len(log[k][at[k]])
  BY <1>1, HeldIsRecord
<1>3. TypeOK'
  BY <1>1, <1>2 DEF TypeOK, jobVars
<1>4. /\ OnlyMoves(k) /\ pc'[k] = "poll" /\ committed' = committed /\ at' = at
      /\ position'[k][at[k]] = position[k][at[k]] - 1
      /\ \A p \in Partitions : p # at[k] => position'[k][p] = position[k][p]
  BY <1>1, <1>2 DEF TypeOK, OnlyMoves
<1>5. \A p \in Partitions : \/ position'[k][p] = Settled(k, p)
                            \/ position'[k][p] = position[k][p] - 1
  BY <1>4 DEF Settled
<1> QED
  BY <1>3, <1>4, <1>5, SameLog, BackKeeps

LEMMA ExceptStep ==
    ASSUME PInv, NEW k \in Consumers, Except(k)
    PROVE  PInv'
<1>1. faults' \in 0 .. MaxFaults
  BY PipelineAssumption DEF PInv, TypeOK, Except
<1> QED
  BY <1>1, SeekBackStep DEF Except

LEMMA RestartStep ==
    ASSUME PInv, NEW k \in Consumers, Restart(k)
    PROVE  PInv'
<1> USE DEF Restart, Goto
<1>1. TypeOK
  BY DEF PInv
<1>2. TypeOK'
  BY <1>1 DEF TypeOK, jobVars
<1>3. /\ OnlyMoves(k) /\ pc'[k] = "poll" /\ committed' = committed /\ at' = at
      /\ position'[k] = committed[k]
  BY <1>1 DEF TypeOK, OnlyMoves
<1> QED
  BY <1>2, <1>3, SameLog, BackKeeps

(* Consumer k goes on with its record.                                     *)
LEMMA StaysPut ==
    ASSUME PInv, LogOK', Grows, NEW k \in Consumers,
           pc[k] \in {"work", "publish", "save"}, pc'[k] \in {"work", "publish", "save"},
           k \in Stage => pc'[k] # "save",
           position' = position, committed' = committed, at' = at
    PROVE  OffsetsOf(k)' /\ SettledOf(k)'
<1>1. TypeOK /\ LogOK /\ OffsetsOf(k) /\ SettledOf(k)
  BY DEF PInv, ConsumerInv
<1>2. OffsetsOf(k)'
  <2>1. ASSUME NEW p \in Partitions
        PROVE  position'[k][p] <= Len(log'[k][p]) /\ committed'[k][p] <= Len(log'[k][p])
    BY <1>1, SettledType, LogType DEF Grows, LogGrows, LogOK
  <2> QED
    BY <1>1, <2>1 DEF OffsetsOf
<1>3. SettledOf(k)'
  <2> SUFFICES ASSUME NEW p \in Partitions
               PROVE  Effective(k, p, Settled(k, p))' /\ Effective(k, p, committed[k][p])'
    BY DEF SettledOf
  <2>1. PICK n, c : n = Settled(k, p) /\ c = committed[k][p]
    OBVIOUS
  <2>2. Effective(k, p, n)' /\ Effective(k, p, c)'
    BY <1>1, <2>1, SettledType, EffectiveKeeps DEF SettledOf
  <2>3. Settled(k, p)' = n /\ committed'[k][p] = c
    BY <2>1 DEF Settled
  <2> QED
    BY <2>2, <2>3 DEF Effective
<1> QED
  BY <1>2, <1>3

(* Consumer k has done with its record.                                    *)
LEMMA Settles ==
    ASSUME PInv, LogOK', Grows, NEW k \in Consumers,
           pc[k] \in {"work", "publish", "save"}, pc'[k] = "commit",
           position' = position, committed' = committed, at' = at,
           NEW p \in Partitions, at[k] = p, NEW r, Held(k) = r,
           IF k = Results THEN r.completed_stage \in done'[r.job]
                          ELSE HasResult(p, r.job, k)'
    PROVE  OffsetsOf(k)' /\ SettledOf(k)'
<1>1. TypeOK /\ LogOK /\ OffsetsOf(k) /\ SettledOf(k)
  BY DEF PInv, ConsumerInv
<1>2. OffsetsOf(k)'
  <2>1. ASSUME NEW q \in Partitions
        PROVE  position'[k][q] <= Len(log'[k][q]) /\ committed'[k][q] <= Len(log'[k][q])
    BY <1>1, SettledType, LogType DEF Grows, LogGrows, LogOK
  <2> QED
    BY <1>1, <2>1 DEF OffsetsOf
<1>3. SettledOf(k)'
  <2> SUFFICES ASSUME NEW q \in Partitions
               PROVE  Effective(k, q, Settled(k, q))' /\ Effective(k, q, committed[k][q])'
    BY DEF SettledOf
  <2>1. PICK n, c : n = Settled(k, q) /\ c = committed[k][q]
    OBVIOUS
  <2>2. Effective(k, q, n)' /\ Effective(k, q, c)'
    BY <1>1, <2>1, SettledType, EffectiveKeeps DEF SettledOf
  <2>3. CASE q # p
    <3>1. Settled(k, q)' = n /\ committed'[k][q] = c
      BY <2>1, <2>3 DEF Settled
    <3> QED
      BY <2>2, <3>1 DEF Effective
  <2>4. CASE q = p
    <3>1. /\ n \in Int /\ Settled(k, q)' = n + 1 /\ committed'[k][q] = c
          /\ position[k][p] = n + 1
      BY <1>1, <2>1, <2>4, SettledType DEF Settled
    <3>2. r = log[k][p][n + 1] /\ n + 1 \in 1 .. Len(log[k][p])
      BY <1>1, <3>1, HeldIsRecord
    <3>3. log'[k][p][n + 1] = r
      BY <3>2 DEF Grows, LogGrows
    <3>4. \A i \in 1 .. n + 1 : i \in 1 .. n \/ i = n + 1
      BY <3>1
    <3>5. Effective(k, p, n + 1)'
      BY <2>2, <2>4, <3>3, <3>4 DEF Effective
    <3> QED
      BY <2>2, <2>4, <3>1, <3>5 DEF Effective
  <2> QED
    BY <2>3, <2>4
<1> QED
  BY <1>2, <1>3

(* The types of the logs, when the record is of its topic's type.          *)
LEMMA AppendTypes ==
    ASSUME TypeOK, LogOK, NEW topic \in Consumers, NEW j \in Jobs, NEW m,
           Append1(topic, j, m), topic = Results => m \in ResultEvent,
           topic \in Stage => m \in StageMessage
    PROVE  /\ m \in Record
           /\ \A p \in Partitions : /\ log'[Results][p] \in Seq(ResultEvent)
                                    /\ \A s \in Stage : log'[s][p] \in Seq(StageMessage)
<1>1. Results \in Consumers /\ Stage \subseteq Consumers /\ Results \notin Stage
  BY DEF Consumers, Results, Stage
<1>2. m \in Record
  BY DEF Consumers, Record
<1>3. PartitionOf[j] \in Partitions
  OBVIOUS
<1>4. /\ log'[topic][PartitionOf[j]] = Append(log[topic][PartitionOf[j]], m)
      /\ \A k \in Consumers, p \in Partitions :
            ~(k = topic /\ p = PartitionOf[j]) => log'[k][p] = log[k][p]
  BY <1>3 DEF Append1, LogOK
<1>5. ASSUME NEW p \in Partitions PROVE log'[Results][p] \in Seq(ResultEvent)
  <2>1. log[Results][p] \in Seq(ResultEvent)
    BY DEF TypeOK
  <2>2. CASE topic = Results /\ p = PartitionOf[j]
    <3>1. Append(log[Results][p], m) \in Seq(ResultEvent)
      BY <2>1, <2>2
    <3>2. log'[Results][p] = Append(log[Results][p], m)
      BY <1>4, <2>2
    <3> QED
      BY <3>1, <3>2
  <2>3. CASE ~(topic = Results /\ p = PartitionOf[j])
    BY <1>1, <1>4, <2>1, <2>3
  <2> QED
    BY <2>2, <2>3
<1>6. ASSUME NEW p \in Partitions, NEW s \in Stage PROVE log'[s][p] \in Seq(StageMessage)
  <2>1. log[s][p] \in Seq(StageMessage) /\ s \in Consumers
    BY <1>1 DEF TypeOK
  <2>2. CASE topic = s /\ p = PartitionOf[j]
    <3>1. Append(log[s][p], m) \in Seq(StageMessage)
      BY <2>1, <2>2
    <3>2. log'[s][p] = Append(log[s][p], m)
      BY <1>4, <2>2
    <3> QED
      BY <3>1, <3>2
  <2>3. CASE ~(topic = s /\ p = PartitionOf[j])
    BY <1>4, <2>1, <2>3
  <2> QED
    BY <2>2, <2>3
<1> QED
  BY <1>2, <1>5, <1>6

(* The message a worker has, and the result it would publish.              *)
LEMMA WorkerHolds ==
    ASSUME PInv, NEW s \in Stage, pc[s] # "poll"
    PROVE  LET m == Held(s)
           IN  /\ m \in StageMessage /\ m.job \in Jobs
               /\ at[s] = PartitionOf[m.job] /\ at[s] \in Partitions
               /\ s \in selected[m.job]
               /\ \/ s = FirstStage(selected[m.job])
                  \/ /\ Follows(selected[m.job], m.input, s)
                     /\ HasResult(PartitionOf[m.job], m.job, m.input)
               /\ Started(m.job)
               /\ ResultOf(s) \in ResultEvent
               /\ ResultOf(s).job = m.job /\ ResultOf(s).completed_stage = s
               /\ ResultOf(s).is_initial = (s = FirstStage(selected[m.job]))
<1> DEFINE m == Held(s)
           p == at[s]
<1>1. TypeOK /\ LogOK /\ LogInv /\ s \in Consumers /\ OffsetsOf(s) /\ Results \in Consumers
  BY DEF PInv, ConsumerInv, Consumers
<1>2. p \in Partitions /\ m \in RecordsOf(s, p)
  BY <1>1, HeldIsRecord
<1>3. m \in StageMessage /\ PartitionOf[m.job] = p /\ s \in selected[m.job]
  BY <1>1, <1>2 DEF LogInv, RecordInv
<1>4. m.job \in Jobs
  BY <1>3 DEF StageMessage
<1>5. IF s = FirstStage(selected[m.job]) THEN m.input = Original
      ELSE /\ Follows(selected[m.job], m.input, s)
           /\ HasResult(p, m.job, m.input)
  BY <1>1, <1>2 DEF LogInv, MessageInv
<1>6. Started(m.job)
  <2>1. CASE s = FirstStage(selected[m.job])
    BY <1>2, <1>3, <2>1 DEF Started
  <2>2. CASE s # FirstStage(selected[m.job])
    BY <1>1, <1>2, <1>5, <2>2 DEF HasResult, LogInv, RecordInv
  <2> QED
    BY <2>1, <2>2
<1>7. (m.input = Original) = (s = FirstStage(selected[m.job]))
  <2>1. CASE s # FirstStage(selected[m.job])
    <3>1. m.input \in Stage
      BY <1>1, <1>4, <1>5, <2>1, SelectedType DEF Follows
    <3> QED
      BY <2>1, <3>1 DEF Stage, Original
  <2> QED
    BY <1>5, <2>1
<1>8. /\ ResultOf(s) \in ResultEvent
      /\ ResultOf(s).job = m.job /\ ResultOf(s).completed_stage = s
      /\ ResultOf(s).is_initial = (s = FirstStage(selected[m.job]))
  BY <1>4, <1>7 DEF ResultOf, ResultEvent
<1> HIDE DEF m
<1>9. /\ at[s] = PartitionOf[m.job]
      /\ \/ s = FirstStage(selected[m.job])
         \/ /\ Follows(selected[m.job], m.input, s)
            /\ HasResult(PartitionOf[m.job], m.job, m.input)
  BY <1>3, <1>5
<1> QED
  BY <1>2, <1>3, <1>4, <1>6, <1>8, <1>9 DEF m

(* The result at hand.                                                     *)
LEMMA ResultHeld ==
    ASSUME PInv, pc[Results] # "poll"
    PROVE  LET e == Held(Results)
           IN  /\ e \in ResultEvent /\ e.job \in Jobs /\ e.completed_stage \in Stage
               /\ at[Results] = PartitionOf[e.job] /\ at[Results] \in Partitions
               /\ e \in RecordsOf(Results, PartitionOf[e.job])
               /\ e.completed_stage \in selected[e.job]
               /\ e.is_initial = (e.completed_stage = FirstStage(selected[e.job]))
               /\ Started(e.job)
<1> DEFINE e == Held(Results)
           p == at[Results]
<1>1. TypeOK /\ LogOK /\ LogInv /\ OffsetsOf(Results) /\ Results \in Consumers
  BY DEF PInv, ConsumerInv, Consumers
<1>2. p \in Partitions /\ e \in RecordsOf(Results, p)
  BY <1>1, HeldIsRecord
<1>3. /\ e \in ResultEvent /\ PartitionOf[e.job] = p
      /\ e.completed_stage \in selected[e.job]
      /\ e.is_initial = (e.completed_stage = FirstStage(selected[e.job]))
      /\ Started(e.job)
  BY <1>1, <1>2 DEF LogInv, RecordInv
<1>4. e.job \in Jobs /\ e.completed_stage \in Stage
  BY <1>3 DEF ResultEvent
<1> QED
  BY <1>2, <1>3, <1>4

LEMMA StartJobStep ==
    ASSUME PInv, NEW j \in Jobs, StartJob(j)
    PROVE  PInv'
<1> DEFINE s == FirstStage(selected[j])
           m == [job |-> j, input |-> Original]
<1>1. /\ Append1(s, j, m)
      /\ UNCHANGED <<jobVars, files, kafkaVars, pc, at, uploads, faults>>
  BY DEF StartJob, PublishFirst
<1>2. TypeOK /\ LogOK /\ LogInv
  BY DEF PInv
<1>3. s \in Stage /\ s \in Consumers /\ s \in selected[j] /\ s # Results
  BY <1>2, SelectedType DEF Consumers, Results, Stage
<1>4. m \in StageMessage /\ m.job = j /\ m.input = Original
  BY DEF StageMessage
<1> HIDE DEF m
<1>5. /\ m \in Record
      /\ \A p \in Partitions : /\ log'[Results][p] \in Seq(ResultEvent)
                               /\ \A t \in Stage : log'[t][p] \in Seq(StageMessage)
  BY <1>1, <1>2, <1>3, <1>4, AppendTypes
<1>6. LogOK' /\ LogGrows
  BY <1>1, <1>2, <1>3, <1>5, AppendStep
<1>7. LogInv'
  BY <1>1, <1>2, <1>3, <1>4, AppendMessage DEF jobVars
<1>8. TypeOK'
  BY <1>1, <1>2, <1>5 DEF TypeOK, jobVars, kafkaVars
<1>9. Grows /\ FilesBounded' /\ RowIsConsistent'
  BY <1>1, <1>2, <1>6 DEF Grows, PInv, FilesBounded, RowIsConsistent, jobVars, TypeOK
<1>10. HeldInv'
  BY <1>1, <1>2, <1>6, HeldKeeps DEF PInv, ConsumerInv, Consumers, jobVars, kafkaVars
<1>11. ASSUME NEW k \in Consumers PROVE ConsumerInv(k)'
  BY <1>1, <1>2, <1>6, <1>8, <1>9, OthersKeep DEF PInv, LogInv, kafkaVars
<1> QED
  BY <1>6, <1>7, <1>8, <1>9, <1>10, <1>11 DEF PInv

LEMMA UploadOutputStep ==
    ASSUME PInv, NEW s \in Stage, UploadOutput(s)
    PROVE  PInv'
<1> DEFINE n == uploads[s] + 1
<1>1. /\ TypeOK /\ LogOK /\ LogInv /\ FilesBounded /\ s \in Consumers /\ s # Results
      /\ OffsetsOf(s) /\ UploadsOf(s)
  BY DEF PInv, ConsumerInv, Consumers, Stage, Results
<1>2. PICK h : h = Held(s)
  OBVIOUS
<1>3. h.job \in Jobs
  BY <1>2, WorkerHolds DEF UploadOutput
<1>4. PICK j \in Jobs : j = h.job
  BY <1>3
<1>5. /\ pc[s] = "work" /\ uploads[s] \in Nat /\ n <= OutputCount(s) /\ n \in Nat
      /\ uploads[s] <= files[j][s]
      /\ OutputCount(s) \in Nat
  BY <1>1, <1>2, <1>4 DEF UploadsOf, TypeOK, OutputCount, UploadOutput
<1>6. /\ files' = [files EXCEPT ![j][s] = IF @ < n THEN n ELSE @]
      /\ uploads' = [uploads EXCEPT ![s] = n]
      /\ pc' = [pc EXCEPT ![s] = IF n < OutputCount(s) THEN "work" ELSE "publish"]
      /\ UNCHANGED <<jobVars, log, kafkaVars, at, faults>>
  BY <1>2, <1>4 DEF UploadOutput, Goto
<1> HIDE DEF n
<1>7. PICK v \in Nat : /\ v = IF files[j][s] < n THEN n ELSE files[j][s]
                       /\ files' = [files EXCEPT ![j][s] = v]
                       /\ files[j][s] <= v /\ n <= v /\ v <= OutputCount(s) /\ n \in Nat
  <2>1. files[j][s] \in Nat /\ n \in Nat /\ files[j][s] <= OutputCount(s)
    BY <1>1, <1>5 DEF TypeOK, FilesBounded, n
  <2> DEFINE w == IF files[j][s] < n THEN n ELSE files[j][s]
  <2>2. w \in Nat /\ files[j][s] <= w /\ n <= w /\ w <= OutputCount(s)
    BY <1>5, <2>1
  <2>3. files' = [files EXCEPT ![j][s] = w]
    BY <1>6
  <2> HIDE DEF w
  <2>4. w = IF files[j][s] < n THEN n ELSE files[j][s]
    BY DEF w
  <2> QED
    BY <2>1, <2>2, <2>3, <2>4
<1>8. /\ TypeOK'
      /\ \A i \in Jobs, t \in Stage : /\ files[i][t] <= files'[i][t]
                                      /\ files'[i][t] <= OutputCount(t)
                                      /\ files[i][t] \in Nat /\ files'[i][t] \in Nat
      /\ n <= files'[j][s] /\ uploads'[s] = n
      /\ pc'[s] = IF n < OutputCount(s) THEN "work" ELSE "publish"
  <2>1. files' \in [Jobs -> [Stage -> Nat]] /\ files'[j][s] = v
    BY <1>1, <1>7 DEF TypeOK
  <2>2. /\ pc' \in [Consumers -> {"poll", "work", "publish", "save", "commit"}]
        /\ uploads' \in [Stage -> Nat] /\ uploads'[s] = n
        /\ pc'[s] = IF n < OutputCount(s) THEN "work" ELSE "publish"
    BY <1>1, <1>6, <1>7 DEF TypeOK
  <2>3. TypeOK'
    BY <1>1, <1>6, <2>1, <2>2 DEF TypeOK, jobVars, kafkaVars
  <2>4. ASSUME NEW i \in Jobs, NEW t \in Stage
        PROVE  /\ files[i][t] <= files'[i][t]
               /\ files'[i][t] <= OutputCount(t)
               /\ files[i][t] \in Nat /\ files'[i][t] \in Nat
    <3>1. files[i][t] \in Nat /\ files[i][t] <= OutputCount(t)
      BY <1>1 DEF TypeOK, FilesBounded
    <3>2. ~(i = j /\ t = s) => files'[i][t] = files[i][t]
      BY <1>1, <1>7 DEF TypeOK
    <3> QED
      BY <1>7, <2>1, <3>1, <3>2
  <2> QED
    BY <1>7, <2>1, <2>2, <2>3, <2>4
<1>9. LogOK' /\ LogGrows /\ Grows
  <2>1. \A i \in Jobs : done[i] \subseteq done'[i]
    BY <1>6 DEF jobVars
  <2> QED
    BY <1>1, <1>6, <1>8, <2>1, LogType DEF LogOK, LogGrows, Grows, jobVars
<1>10. LogInv'
  <2>1. RecordInv' /\ MessageInv' /\ OrderInv'
    BY <1>1, <1>6 DEF LogInv, RecordInv, MessageInv, OrderInv, HasResult, Started,
       RecordsOf, jobVars
  <2>2. ResultsAreBacked'
    <3> SUFFICES ASSUME NEW p \in Partitions, NEW e \in RecordsOf(Results, p)
                 PROVE  files'[e.job][e.completed_stage] = OutputCount(e.completed_stage)
      BY <1>6 DEF ResultsAreBacked, RecordsOf
    <3>1. /\ files[e.job][e.completed_stage] = OutputCount(e.completed_stage)
          /\ e.job \in Jobs /\ e.completed_stage \in Stage
      BY <1>1 DEF LogInv, ResultsAreBacked, RecordInv, ResultEvent
    <3>2. OutputCount(e.completed_stage) \in Nat
      BY DEF OutputCount
    <3> QED
      BY <1>8, <3>1, <3>2
  <2> QED
    BY <2>1, <2>2 DEF LogInv
<1>11. FilesBounded' /\ RowIsConsistent'
  BY <1>6, <1>8 DEF PInv, FilesBounded, RowIsConsistent, jobVars
<1>12. OnlyMoves(s) /\ pc'[s] \in {"work", "publish"} /\ position' = position
       /\ committed' = committed /\ at' = at
  BY <1>1, <1>6 DEF OnlyMoves, TypeOK, kafkaVars
<1>13. HeldInv'
  BY <1>1, <1>6, <1>9, <1>12, HeldKeeps DEF PInv, ConsumerInv, Consumers, OnlyMoves, jobVars
<1>14. OffsetsOf(s)' /\ SettledOf(s)'
  BY <1>1, <1>5, <1>9, <1>12, StaysPut
<1>15. UploadsOf(s)'
  <2>1. Held(s)' = h
    BY <1>1, <1>2, <1>5, <1>9, <1>12, HeldStays
  <2>2. n \in Nat /\ n <= OutputCount(s)
    BY <1>5, <1>7 DEF n
  <2>3. /\ files'[j][s] \in Nat /\ files'[j][s] <= OutputCount(s)
        /\ n <= files'[j][s] /\ uploads'[s] = n
        /\ pc'[s] = IF n < OutputCount(s) THEN "work" ELSE "publish"
    BY <1>8
  <2>4. CASE n < OutputCount(s)
    BY <1>4, <2>1, <2>3, <2>4 DEF UploadsOf
  <2>5. CASE ~(n < OutputCount(s))
    <3>1. files'[j][s] = OutputCount(s)
      BY <1>5, <2>2, <2>3, <2>5
    <3> QED
      BY <1>4, <2>1, <2>3, <2>5, <3>1 DEF UploadsOf
  <2> QED
    BY <2>4, <2>5
<1> QED
  BY <1>1, <1>8, <1>9, <1>10, <1>11, <1>12, <1>13, <1>14, <1>15, StepKeeps DEF ConsumerInv

(* What both outcomes of a worker's send do.                               *)
LEMMA SendResult ==
    ASSUME PInv, NEW s \in Stage, pc[s] = "publish",
           Append1(Results, Held(s).job, ResultOf(s)), UNCHANGED <<jobVars, files>>
    PROVE  /\ LogOK' /\ LogGrows /\ LogInv'
           /\ \A p \in Partitions : /\ log'[Results][p] \in Seq(ResultEvent)
                                    /\ \A t \in Stage : log'[t][p] \in Seq(StageMessage)
           /\ \A p, j : at[s] = p /\ Held(s).job = j => HasResult(p, j, s)'
<1>1. /\ TypeOK /\ LogOK /\ LogInv /\ s \in Consumers /\ UploadsOf(s)
      /\ Results \in Consumers /\ Results \notin Stage
  BY DEF PInv, ConsumerInv, Consumers, Stage, Results
<1>2. PICK j, e : j = Held(s).job /\ e = ResultOf(s)
  OBVIOUS
<1>3. /\ j \in Jobs /\ s \in selected[j] /\ Started(j) /\ e \in ResultEvent
      /\ e.job = j /\ e.completed_stage = s
      /\ e.is_initial = (s = FirstStage(selected[j]))
      /\ \/ s = FirstStage(selected[j])
         \/ \E t : Follows(selected[j], t, s) /\ HasResult(PartitionOf[j], j, t)
      /\ at[s] = PartitionOf[j]
  BY <1>2, WorkerHolds
<1>4. files[j][s] = OutputCount(s)
  BY <1>1, <1>2 DEF UploadsOf
<1>5. Append1(Results, j, e)
  BY <1>2
<1>6. /\ e \in Record
      /\ \A p \in Partitions : /\ log'[Results][p] \in Seq(ResultEvent)
                               /\ \A t \in Stage : log'[t][p] \in Seq(StageMessage)
  BY <1>1, <1>3, <1>5, AppendTypes
<1>7. LogOK' /\ LogGrows
  BY <1>1, <1>3, <1>5, <1>6, AppendStep
<1>8. LogInv'
  BY <1>1, <1>3, <1>4, <1>5, AppendResult DEF jobVars
<1>9. HasResult(PartitionOf[j], j, s)'
  <2>1. PartitionOf[j] \in Partitions
    BY <1>3
  <2>2. e \in RecordsOf(Results, PartitionOf[j])'
    BY <1>1, <1>3, <1>5, <1>6, <2>1, RecordsAppend
  <2> QED
    BY <1>3, <2>2 DEF HasResult
<1>10. ASSUME NEW p, NEW i, at[s] = p, Held(s).job = i PROVE HasResult(p, i, s)'
  <2>1. p = PartitionOf[j] /\ i = j
    BY <1>2, <1>3, <1>10
  <2> QED
    BY <1>9, <2>1 DEF HasResult
<1> QED
  BY <1>6, <1>7, <1>8, <1>10

LEMMA PublishResultStep ==
    ASSUME PInv, NEW s \in Stage, PublishResult(s)
    PROVE  PInv'
<1>1. /\ TypeOK /\ LogOK /\ s \in Consumers /\ s # Results
  BY DEF PInv, Consumers, Stage, Results
<1>2. /\ pc[s] = "publish" /\ pc' = [pc EXCEPT ![s] = "commit"]
      /\ Append1(Results, Held(s).job, ResultOf(s))
      /\ UNCHANGED <<jobVars, files, kafkaVars, at, uploads, faults>>
  BY DEF PublishResult, Send, Goto
<1>3. /\ LogOK' /\ LogGrows /\ LogInv'
      /\ \A p \in Partitions : /\ log'[Results][p] \in Seq(ResultEvent)
                               /\ \A t \in Stage : log'[t][p] \in Seq(StageMessage)
      /\ \A p, j : at[s] = p /\ Held(s).job = j => HasResult(p, j, s)'
  BY <1>2, SendResult DEF jobVars
<1>4. TypeOK'
  BY <1>1, <1>2, <1>3 DEF TypeOK, jobVars, kafkaVars
<1>5. /\ OnlyMoves(s) /\ pc'[s] = "commit"
      /\ position' = position /\ committed' = committed /\ at' = at
  BY <1>1, <1>2 DEF OnlyMoves, TypeOK, kafkaVars
<1>6. Grows
  BY <1>1, <1>2, <1>3 DEF Grows, TypeOK, jobVars
<1>7. OffsetsOf(s)' /\ SettledOf(s)'
  <2>1. PICK p, r : at[s] = p /\ Held(s) = r
    OBVIOUS
  <2>2. HasResult(p, r.job, s)' /\ p \in Partitions
    <3>1. PICK j : j = r.job
      OBVIOUS
    <3>2. HasResult(p, j, s)'
      BY <1>3, <2>1, <3>1
    <3> QED
      BY <1>1, <2>1, <3>1, <3>2 DEF HasResult, TypeOK
  <2> QED
    BY <1>1, <1>2, <1>3, <1>5, <1>6, <2>1, <2>2, Settles
<1>8. UploadsOf(s)'
  BY <1>5 DEF UploadsOf
<1> QED
  BY <1>1, <1>2, <1>3, <1>4, <1>5, <1>7, <1>8, MoveKeeps

LEMMA PublishResultTimesOutStep ==
    ASSUME PInv, NEW s \in Stage, PublishResultTimesOut(s)
    PROVE  PInv'
<1>1. /\ TypeOK /\ LogOK /\ s \in Consumers /\ s # Results /\ OffsetsOf(s)
  BY DEF PInv, ConsumerInv, Consumers, Stage, Results
<1>2. /\ pc[s] = "publish" /\ pc' = [pc EXCEPT ![s] = "poll"]
      /\ Append1(Results, Held(s).job, ResultOf(s))
      /\ position' = [position EXCEPT ![s][at[s]] = @ - 1]
      /\ faults < MaxFaults /\ faults' = faults + 1
      /\ UNCHANGED <<jobVars, files, committed, at, uploads>>
  BY DEF PublishResultTimesOut, SendTimesOut, Seek, Goto
<1>3. /\ LogOK' /\ LogGrows /\ LogInv'
      /\ \A p \in Partitions : /\ log'[Results][p] \in Seq(ResultEvent)
                               /\ \A t \in Stage : log'[t][p] \in Seq(StageMessage)
  BY <1>2, SendResult
<1>4. at[s] \in Partitions /\ position[s][at[s]] \in 1 .. Len(log[s][at[s]])
  BY <1>1, <1>2, HeldIsRecord
<1>5. TypeOK'
  BY <1>1, <1>2, <1>3, <1>4 DEF TypeOK, jobVars
<1>6. /\ OnlyMoves(s) /\ pc'[s] = "poll"
      /\ position'[s][at[s]] = position[s][at[s]] - 1
      /\ \A p \in Partitions : p # at[s] => position'[s][p] = position[s][p]
  BY <1>1, <1>2, <1>4 DEF OnlyMoves, TypeOK
<1>7. \A p \in Partitions : \/ position'[s][p] = Settled(s, p)
                            \/ position'[s][p] = position[s][p] - 1
  BY <1>6 DEF Settled
<1> QED
  BY <1>1, <1>2, <1>3, <1>5, <1>6, <1>7, BackKeeps

(* The row is checked: a result that is no duplicate is accepted.          *)
LEMMA ApplyResultStep ==
    ASSUME PInv, ApplyResult
    PROVE  PInv'
<1>1. /\ TypeOK /\ LogOK /\ Results \in Consumers /\ OffsetsOf(Results)
      /\ Results \notin Stage
  BY DEF PInv, ConsumerInv, Consumers, Stage, Results
<1>2. PICK e : e = Held(Results)
  OBVIOUS
<1>3. /\ pc[Results] = "work"
      /\ Duplicate(e) \/ Acceptable(e)
      /\ pc' = [pc EXCEPT ![Results] = IF Duplicate(e) THEN "commit"
                                       ELSE IF IsLast(e) THEN "save" ELSE "publish"]
      /\ UNCHANGED <<jobVars, files, log, kafkaVars, at, uploads, faults>>
  BY <1>2 DEF ApplyResult, Goto
<1>4. LogOK' /\ LogInv' /\ LogGrows
  BY <1>3, SameLog
<1>5. TypeOK'
  BY <1>1, <1>3 DEF TypeOK, jobVars, kafkaVars
<1>6. /\ OnlyMoves(Results)
      /\ position' = position /\ committed' = committed /\ at' = at
      /\ pc'[Results] = IF Duplicate(e) THEN "commit"
                        ELSE IF IsLast(e) THEN "save" ELSE "publish"
  BY <1>1, <1>3 DEF OnlyMoves, TypeOK, kafkaVars
<1>7. Grows
  BY <1>1, <1>3, <1>4 DEF Grows, TypeOK, jobVars
<1>8. CASE Duplicate(e)
  <2>1. pc'[Results] = "commit"
    BY <1>6, <1>8
  <2>2. PICK p \in Partitions : at[Results] = p
    BY <1>1, <1>3, HeldIsRecord
  <2>3. e.completed_stage \in done'[e.job]
    BY <1>3, <1>8 DEF Duplicate, jobVars
  <2>4. OffsetsOf(Results)' /\ SettledOf(Results)'
    BY <1>1, <1>2, <1>3, <1>4, <1>6, <1>7, <2>1, <2>2, <2>3, Settles
  <2> QED
    BY <1>1, <1>3, <1>4, <1>5, <1>6, <2>1, <2>4, MoveKeeps
<1>9. CASE ~Duplicate(e)
  <2>1. pc'[Results] = IF IsLast(e) THEN "save" ELSE "publish"
    BY <1>6, <1>9
  <2>2. OffsetsOf(Results)' /\ SettledOf(Results)'
    BY <1>1, <1>3, <1>4, <1>6, <1>7, <2>1, StaysPut
  <2>3. Held(Results)' = e
    BY <1>1, <1>2, <1>3, <1>4, <1>6, HeldStays
  <2>4. HeldInv'
    BY <1>3, <1>9, <2>1, <2>3 DEF HeldInv, Duplicate, Acceptable, IsLast, jobVars
  <2>5. FilesBounded' /\ RowIsConsistent'
    BY <1>3 DEF PInv, FilesBounded, RowIsConsistent, jobVars
  <2> QED
    BY <1>1, <1>4, <1>5, <1>6, <1>7, <2>2, <2>4, <2>5, StepKeeps DEF ConsumerInv
<1> QED
  BY <1>8, <1>9

(* The message for the stage after the one that is done.                   *)
LEMMA SendNext ==
    ASSUME TypeOK, LogOK, LogInv, NEW e \in ResultEvent,
           e \in RecordsOf(Results, PartitionOf[e.job]),
           e.completed_stage \in selected[e.job], ~IsLast(e),
           Append1(NextStage(selected[e.job], e.completed_stage), e.job, NextMessage(e)),
           UNCHANGED <<jobVars, files>>
    PROVE  /\ LogOK' /\ LogGrows /\ LogInv'
           /\ \A p \in Partitions : /\ log'[Results][p] \in Seq(ResultEvent)
                                    /\ \A t \in Stage : log'[t][p] \in Seq(StageMessage)
<1> DEFINE j == e.job
           S == selected[j]
           s == NextStage(S, e.completed_stage)
           m == NextMessage(e)
<1>1. /\ j \in Jobs /\ e.completed_stage \in Stage
      /\ S \in SUBSET Stage /\ e.completed_stage \in S
      /\ Later(S, e.completed_stage) # {}
  BY SelectedType DEF ResultEvent, IsLast
<1>2. /\ s \in Stage /\ s \in S /\ s # FirstStage(S)
      /\ Follows(S, e.completed_stage, s)
      /\ s \in Consumers /\ s # Results
  BY <1>1, NextIsLeast DEF Follows, Consumers, Stage, Results
<1>3. /\ m \in StageMessage /\ m.job = j /\ m.input = e.completed_stage
  BY <1>1 DEF NextMessage, StageMessage
<1>4. HasResult(PartitionOf[j], j, m.input)
  BY <1>3 DEF HasResult
<1>5. Append1(s, j, m)
  OBVIOUS
<1> HIDE DEF m, s
<1>6. /\ m \in Record
      /\ \A p \in Partitions : /\ log'[Results][p] \in Seq(ResultEvent)
                               /\ \A t \in Stage : log'[t][p] \in Seq(StageMessage)
  BY <1>1, <1>2, <1>3, <1>5, AppendTypes
<1>7. LogOK' /\ LogGrows
  BY <1>1, <1>2, <1>5, <1>6, AppendStep
<1>8. LogInv'
  BY <1>1, <1>2, <1>3, <1>4, <1>5, AppendMessage DEF jobVars
<1> QED
  BY <1>6, <1>7, <1>8

LEMMA PublishNextStep ==
    ASSUME PInv, PublishNext
    PROVE  PInv'
<1>1. /\ TypeOK /\ LogOK /\ LogInv /\ Results \in Consumers /\ OffsetsOf(Results)
      /\ Results \notin Stage
  BY DEF PInv, ConsumerInv, Consumers, Stage, Results
<1>2. PICK e : e = Held(Results)
  OBVIOUS
<1>3. /\ pc[Results] = "publish" /\ pc' = [pc EXCEPT ![Results] = "save"]
      /\ Append1(NextStage(selected[e.job], e.completed_stage), e.job, NextMessage(e))
      /\ UNCHANGED <<jobVars, files, kafkaVars, at, uploads, faults>>
  BY <1>2 DEF PublishNext, Send, Goto
<1>4. /\ e \in ResultEvent /\ e \in RecordsOf(Results, PartitionOf[e.job])
      /\ e.completed_stage \in selected[e.job]
      /\ ~Duplicate(e) /\ Acceptable(e) /\ ~IsLast(e)
  BY <1>2, <1>3, ResultHeld DEF PInv, HeldInv
<1>5. /\ LogOK' /\ LogGrows /\ LogInv'
      /\ \A p \in Partitions : /\ log'[Results][p] \in Seq(ResultEvent)
                               /\ \A t \in Stage : log'[t][p] \in Seq(StageMessage)
  BY <1>1, <1>3, <1>4, SendNext
<1>6. TypeOK'
  BY <1>1, <1>3, <1>5 DEF TypeOK, jobVars, kafkaVars
<1>7. /\ OnlyMoves(Results) /\ pc'[Results] = "save"
      /\ position' = position /\ committed' = committed /\ at' = at
  BY <1>1, <1>3 DEF OnlyMoves, TypeOK, kafkaVars
<1>8. Grows
  BY <1>1, <1>3, <1>5 DEF Grows, TypeOK, jobVars
<1>9. OffsetsOf(Results)' /\ SettledOf(Results)'
  BY <1>1, <1>3, <1>5, <1>7, <1>8, StaysPut
<1>10. HeldInv'
  <2>1. Held(Results)' = e
    BY <1>1, <1>2, <1>3, <1>5, <1>7, HeldStays
  <2> QED
    BY <1>3, <1>4, <1>7, <2>1 DEF HeldInv, Duplicate, Acceptable, jobVars
<1>11. FilesBounded' /\ RowIsConsistent'
  BY <1>3 DEF PInv, FilesBounded, RowIsConsistent, jobVars
<1> QED
  BY <1>1, <1>5, <1>6, <1>7, <1>8, <1>9, <1>10, <1>11, StepKeeps DEF ConsumerInv

LEMMA PublishNextTimesOutStep ==
    ASSUME PInv, PublishNextTimesOut
    PROVE  PInv'
<1>1. /\ TypeOK /\ LogOK /\ LogInv /\ Results \in Consumers /\ OffsetsOf(Results)
      /\ Results \notin Stage
  BY DEF PInv, ConsumerInv, Consumers, Stage, Results
<1>2. PICK e : e = Held(Results)
  OBVIOUS
<1>3. /\ pc[Results] = "publish" /\ pc' = [pc EXCEPT ![Results] = "poll"]
      /\ Append1(NextStage(selected[e.job], e.completed_stage), e.job, NextMessage(e))
      /\ position' = [position EXCEPT ![Results][at[Results]] = @ - 1]
      /\ faults < MaxFaults /\ faults' = faults + 1
      /\ UNCHANGED <<jobVars, files, committed, at, uploads>>
  BY <1>2 DEF PublishNextTimesOut, SendTimesOut, Seek, Goto
<1>4. /\ e \in ResultEvent /\ e \in RecordsOf(Results, PartitionOf[e.job])
      /\ e.completed_stage \in selected[e.job] /\ ~IsLast(e)
  BY <1>2, <1>3, ResultHeld DEF PInv, HeldInv
<1>5. /\ LogOK' /\ LogGrows /\ LogInv'
      /\ \A p \in Partitions : /\ log'[Results][p] \in Seq(ResultEvent)
                               /\ \A t \in Stage : log'[t][p] \in Seq(StageMessage)
  BY <1>1, <1>3, <1>4, SendNext
<1>6. at[Results] \in Partitions
      /\ position[Results][at[Results]] \in 1 .. Len(log[Results][at[Results]])
  BY <1>1, <1>3, HeldIsRecord
<1>7. TypeOK'
  BY <1>1, <1>3, <1>5, <1>6 DEF TypeOK, jobVars
<1>8. /\ OnlyMoves(Results) /\ pc'[Results] = "poll"
      /\ position'[Results][at[Results]] = position[Results][at[Results]] - 1
      /\ \A p \in Partitions : p # at[Results] => position'[Results][p] = position[Results][p]
  BY <1>1, <1>3, <1>6 DEF OnlyMoves, TypeOK
<1>9. \A p \in Partitions : \/ position'[Results][p] = Settled(Results, p)
                            \/ position'[Results][p] = position[Results][p] - 1
  BY <1>8 DEF Settled
<1> QED
  BY <1>1, <1>3, <1>5, <1>7, <1>8, <1>9, BackKeeps

LEMMA SaveResultStep ==
    ASSUME PInv, SaveResult
    PROVE  PInv'
<1>1. /\ TypeOK /\ LogOK /\ LogInv /\ Results \in Consumers /\ OffsetsOf(Results)
      /\ Results \notin Stage /\ RowIsConsistent
  BY DEF PInv, ConsumerInv, Consumers, Stage, Results
<1>2. PICK e : e = Held(Results)
  OBVIOUS
<1>3. /\ pc[Results] = "save" /\ pc' = [pc EXCEPT ![Results] = "commit"]
      /\ RowAdvances(e)
      /\ UNCHANGED <<selected, files, log, kafkaVars, at, uploads, faults>>
  BY <1>2 DEF SaveResult, Goto, RowAdvances
<1>4. e \in ResultEvent /\ ~Duplicate(e) /\ Acceptable(e)
  BY <1>2, <1>3, ResultHeld DEF PInv, HeldInv
<1>5. /\ RowIsConsistent'
      /\ done' \in [Jobs -> SUBSET Stage] /\ current_stage' \in [Jobs -> Stage]
      /\ status' \in [Jobs -> {"QUEUED", "PROCESSING", "COMPLETED"}]
      /\ hashed' \in [Jobs -> BOOLEAN]
      /\ \A j \in Jobs : done[j] \subseteq done'[j]
      /\ e.completed_stage \in done'[e.job]
  BY <1>1, <1>3, <1>4, RowStep
<1>6. TypeOK' /\ LogOK' /\ LogGrows /\ LogInv'
  <2>1. TypeOK'
    BY <1>1, <1>3, <1>5 DEF TypeOK, kafkaVars
  <2> QED
    BY <1>1, <1>3, <2>1, LogStays, LogType DEF LogOK, LogGrows
<1>7. /\ OnlyMoves(Results) /\ pc'[Results] = "commit"
      /\ position' = position /\ committed' = committed /\ at' = at
  BY <1>1, <1>3 DEF OnlyMoves, TypeOK, kafkaVars
<1>8. Grows
  <2>1. \A j \in Jobs, s \in Stage : files[j][s] <= files'[j][s]
    BY <1>1, <1>3 DEF TypeOK
  <2> QED
    BY <1>3, <1>5, <1>6, <2>1 DEF Grows
<1>9. OffsetsOf(Results)' /\ SettledOf(Results)'
  <2>1. PICK p \in Partitions : at[Results] = p
    BY <1>1, <1>3, HeldIsRecord
  <2> QED
    BY <1>1, <1>2, <1>3, <1>5, <1>6, <1>7, <1>8, <2>1, Settles
<1>10. HeldInv'
  BY <1>7 DEF HeldInv
<1>11. FilesBounded'
  BY <1>3 DEF PInv, FilesBounded
<1> QED
  BY <1>1, <1>5, <1>6, <1>7, <1>8, <1>9, <1>10, <1>11, StepKeeps DEF ConsumerInv

-----------------------------------------------------------------------------
(* The invariant holds, and what follows from it.                          *)

LEMMA InitHolds == Init => PInv
<1> SUFFICES ASSUME Init PROVE PInv
  OBVIOUS
<1> USE DEF Init
<1>1. ASSUME NEW j \in Jobs
      PROVE  /\ selected[j] \in SUBSET Stage /\ selected[j] # {}
             /\ FirstStage(selected[j]) \in selected[j]
             /\ \A t \in selected[j] : Index(FirstStage(selected[j])) <= Index(t)
  <2>1. selected[j] \in SUBSET Stage /\ selected[j] # {}
    BY DEF Selections, ValidSelection
  <2> QED
    BY <2>1, FirstIsLeast
<1>2. TypeOK
  <2>1. (CHOOSE p \in Partitions : TRUE) \in Partitions
    OBVIOUS
  <2>2. current_stage \in [Jobs -> Stage]
    BY <1>1
  <2>3. \A p \in Partitions : /\ log[Results][p] \in Seq(ResultEvent)
                              /\ \A s \in Stage : log[s][p] \in Seq(StageMessage)
    <3>1. \A k \in Consumers, p \in Partitions : log[k][p] = <<>>
      OBVIOUS
    <3>2. Results \in Consumers /\ Stage \subseteq Consumers
      BY DEF Consumers
    <3> QED
      BY <3>1, <3>2
  <2>4. /\ selected \in [Jobs -> Selections] /\ done \in [Jobs -> SUBSET Stage]
        /\ status \in [Jobs -> {"QUEUED", "PROCESSING", "COMPLETED"}]
        /\ hashed \in [Jobs -> BOOLEAN] /\ files \in [Jobs -> [Stage -> Nat]]
    OBVIOUS
  <2>5. /\ position \in [Consumers -> [Partitions -> Nat]]
        /\ committed \in [Consumers -> [Partitions -> Nat]]
        /\ pc \in [Consumers -> {"poll", "work", "publish", "save", "commit"}]
        /\ uploads \in [Stage -> Nat] /\ faults \in 0 .. MaxFaults
    OBVIOUS
  <2>6. at \in [Consumers -> Partitions]
    BY <2>1
  <2> QED
    BY <2>2, <2>3, <2>4, <2>5, <2>6 DEF TypeOK
<1>3. LogOK
  BY DEF LogOK
<1>4. ASSUME NEW k \in Consumers, NEW p \in Partitions
      PROVE  Len(log[k][p]) = 0 /\ RecordsOf(k, p) = {}
  <2>1. log[k][p] = <<>>
    OBVIOUS
  <2>2. Len(log[k][p]) = 0
    BY <2>1
  <2>3. 1 .. Len(log[k][p]) = {}
    BY <2>2
  <2> QED
    BY <2>2, <2>3 DEF RecordsOf
<1>5. LogInv
  <2>1. Results \in Consumers /\ Stage \subseteq Consumers
    BY DEF Consumers
  <2>2. /\ \A p \in Partitions : RecordsOf(Results, p) = {}
        /\ \A s \in Stage, p \in Partitions : RecordsOf(s, p) = {}
        /\ \A p \in Partitions : Len(log[Results][p]) = 0
    BY <1>4, <2>1
  <2>3. RecordInv
    BY <2>2 DEF RecordInv
  <2>4. MessageInv
    BY <2>2 DEF MessageInv
  <2>5. OrderInv
    <3> SUFFICES ASSUME NEW p \in Partitions, NEW i \in 1 .. Len(log[Results][p])
                 PROVE  FALSE
      BY DEF OrderInv
    <3>1. Len(log[Results][p]) = 0
      BY <2>2
    <3>2. i \in 1 .. 0
      BY <3>1
    <3> QED
      BY <3>2
  <2>6. ResultsAreBacked
    BY <2>2 DEF ResultsAreBacked
  <2> QED
    BY <2>3, <2>4, <2>5, <2>6 DEF LogInv
<1>6. FilesBounded
  BY DEF FilesBounded, OutputCount
<1>7. ASSUME NEW k \in Consumers PROVE ConsumerInv(k)
  <2>1. /\ pc[k] = "poll"
        /\ \A p \in Partitions : position[k][p] = 0 /\ committed[k][p] = 0
    OBVIOUS
  <2> QED
    BY <1>4, <2>1 DEF ConsumerInv, OffsetsOf, SettledOf, Settled, Effective, UploadsOf
<1>8. HeldInv
  BY DEF HeldInv, Consumers
<1>9. RowIsConsistent
  <2> SUFFICES ASSUME NEW j \in Jobs
               PROVE  /\ current_stage[j] \in selected[j]
                      /\ done[j] = selected[j] \ ({current_stage[j]} \cup
                                                  Later(selected[j], current_stage[j]))
    BY DEF RowIsConsistent
  <2> DEFINE f == FirstStage(selected[j])
  <2>1. /\ current_stage[j] = f /\ done[j] = {}
        /\ f \in selected[j] /\ selected[j] \in SUBSET Stage
    BY <1>1
  <2>2. Later(selected[j], f) = selected[j] \ {f}
    BY <2>1, LaterThanFirst
  <2> HIDE DEF f
  <2> QED
    BY <2>1, <2>2
<1> QED
  BY <1>2, <1>3, <1>5, <1>6, <1>7, <1>8, <1>9 DEF PInv

LEMMA StutterKeeps == PInv /\ UNCHANGED vars => PInv'
<1> SUFFICES ASSUME PInv, UNCHANGED vars PROVE PInv'
  OBVIOUS
<1> USE DEF vars, jobVars, kafkaVars
<1>1. TypeOK' /\ LogOK' /\ RowIsConsistent' /\ FilesBounded'
  BY DEF PInv, TypeOK, LogOK, RowIsConsistent, FilesBounded
<1>2. LogInv' /\ LogGrows
  BY SameLog
<1>3. Grows
  <2>1. \A j \in Jobs, s \in Stage : files[j][s] <= files'[j][s]
    BY DEF PInv, TypeOK
  <2> QED
    BY <1>2, <2>1 DEF Grows
<1>4. HeldInv'
  BY DEF PInv, HeldInv, Held, Duplicate, Acceptable, IsLast
<1>5. ASSUME NEW k \in Consumers PROVE ConsumerInv(k)'
  BY <1>1, <1>3, OthersKeep DEF PInv, LogInv
<1> QED
  BY <1>1, <1>2, <1>4, <1>5 DEF PInv

LEMMA WorkStep ==
    ASSUME PInv, NEW k \in Consumers, Work(k) \/ Fault(k)
    PROVE  PInv'
BY FetchStep, CommitOffsetsStep, UploadOutputStep, PublishResultStep, ApplyResultStep,
   PublishNextStep, SaveResultStep, ExceptStep, RestartStep, PublishResultTimesOutStep,
   PublishNextTimesOutStep DEF Work, Fault

LEMMA NextHolds == PInv /\ [Next]_vars => PInv'
BY StartJobStep, WorkStep, StutterKeeps DEF Next

LEMMA OpenNextHolds == PInv /\ [OpenNext]_vars => PInv'
<1> SUFFICES ASSUME PInv, [OpenNext]_vars PROVE PInv'
  OBVIOUS
<1>1. ASSUME NEW k \in Consumers, SeekBack(k), UNCHANGED faults PROVE PInv'
  <2>1. faults' \in 0 .. MaxFaults
    BY <1>1 DEF PInv, TypeOK
  <2> QED
    BY <1>1, <2>1, SeekBackStep
<1> QED
  BY <1>1, NextHolds DEF OpenNext

(* The invariant holds of every behaviour of Pipeline.                     *)
THEOREM PipelineInvariant == Spec => []PInv
BY InitHolds, NextHolds, PTL DEF Spec

(* Also when records fail without end.                                     *)
THEOREM OpenInvariant == OpenSpec => []PInv
BY InitHolds, OpenNextHolds, PTL DEF OpenSpec

(* The result at hand is for the stage the row expects: everything before  *)
(* it in its partition is done, the stage before it among them.            *)
LEMMA HeldIsExpected == PInv => NoResultRefused
<1> SUFFICES ASSUME PInv, pc[Results] = "work", ~Duplicate(Held(Results))
             PROVE  Acceptable(Held(Results))
  BY DEF NoResultRefused
<1> DEFINE e == Held(Results)
           j == e.job
           s == e.completed_stage
           S == selected[j]
           p == at[Results]
           n == position[Results][p]
<1>1. /\ TypeOK /\ LogOK /\ LogInv /\ Results \in Consumers /\ OffsetsOf(Results)
      /\ SettledOf(Results) /\ RowIsConsistent
  BY DEF PInv, ConsumerInv, Consumers
<1>2. /\ j \in Jobs /\ s \in Stage /\ s \in S /\ p \in Partitions
      /\ e.is_initial = (s = FirstStage(S))
      /\ S \in SUBSET Stage /\ S # {}
  BY <1>1, ResultHeld, SelectedType
<1>3. /\ n \in 1 .. Len(log[Results][p]) /\ e = log[Results][p][n]
      /\ Settled(Results, p) = n - 1
  BY <1>1, HeldIsRecord DEF Settled
<1>4. s \notin done[j]
  BY DEF Duplicate
<1>5. /\ current_stage[j] \in S
      /\ done[j] = IF status[j] = "COMPLETED" THEN S
                   ELSE S \ ({current_stage[j]} \cup Later(S, current_stage[j]))
  BY <1>1, <1>2 DEF RowIsConsistent
<1>6. done[j] = S \ ({current_stage[j]} \cup Later(S, current_stage[j]))
  BY <1>2, <1>4, <1>5
<1>7. Index(current_stage[j]) <= Index(s)
  BY <1>2, <1>4, <1>5, <1>6, IndexType DEF Later
<1>8. current_stage[j] = s
  <2>1. CASE s = FirstStage(S)
    BY <1>2, <1>5, <1>7, <2>1, FirstIsUnique, FirstIsLeast, IndexType
  <2>2. CASE s # FirstStage(S)
    <3>1. PICK h \in 1 .. n - 1 :
             /\ log[Results][p][h].job = j
             /\ Follows(S, log[Results][p][h].completed_stage, s)
      BY <1>1, <1>2, <1>3, <2>2 DEF LogInv, OrderInv
    <3>2. PICK t : t = log[Results][p][h].completed_stage
      OBVIOUS
    <3>3. t \in done[j]
      BY <1>1, <1>2, <1>3, <3>1, <3>2 DEF SettledOf, Effective
    <3>4. /\ t \in S /\ Index(t) < Index(s)
          /\ \A u \in S : Index(u) <= Index(t) \/ Index(s) <= Index(u)
      BY <1>2, <3>1, <3>2, FollowsIsBehind
    <3>5. ~(Index(current_stage[j]) <= Index(t))
      BY <1>2, <1>5, <1>6, <3>3, <3>4, IndexType DEF Later
    <3> QED
      BY <1>2, <1>5, <1>7, <3>4, <3>5, IndexType
  <2> QED
    BY <2>1, <2>2
<1> QED
  BY <1>2, <1>8 DEF Acceptable

LEMMA InputsAreThere == PInv => InputsReady
<1> SUFFICES ASSUME PInv, NEW s \in Stage, pc[s] = "work" PROVE InputsExist(Held(s))
  BY DEF InputsReady
<1> DEFINE m == Held(s)
           p == at[s]
<1>1. TypeOK /\ LogOK /\ LogInv /\ s \in Consumers /\ OffsetsOf(s)
  BY DEF PInv, ConsumerInv, Consumers
<1>2. p \in Partitions /\ m \in RecordsOf(s, p)
  BY <1>1, HeldIsRecord
<1>3. IF s = FirstStage(selected[m.job]) THEN m.input = Original
      ELSE HasResult(p, m.job, m.input)
  BY <1>1, <1>2 DEF LogInv, MessageInv
<1>4. CASE s = FirstStage(selected[m.job])
  BY <1>3, <1>4 DEF InputsExist
<1>5. CASE s # FirstStage(selected[m.job])
  <2>1. PICK e \in RecordsOf(Results, p) : e.job = m.job /\ e.completed_stage = m.input
    BY <1>3, <1>5 DEF HasResult
  <2>2. files[m.job][m.input] = OutputCount(m.input)
    BY <1>1, <1>2, <2>1 DEF LogInv, ResultsAreBacked
  <2> QED
    BY <2>2 DEF InputsExist, OutputCount
<1> QED
  BY <1>4, <1>5

LEMMA MessagesAreInOrder == PInv => MessagesFollowResults
<1> SUFFICES ASSUME PInv, NEW s \in Stage, NEW p \in Partitions, NEW m \in RecordsOf(s, p)
             PROVE  IF s = FirstStage(selected[m.job])
                    THEN m.input = Original
                    ELSE /\ m.input = Previous(selected[m.job], s)
                         /\ \E e \in RecordsOf(Results, p) :
                               e.job = m.job /\ e.completed_stage = m.input
  BY DEF MessagesFollowResults
<1> DEFINE S == selected[m.job]
<1>1. IF s = FirstStage(S) THEN m.input = Original
      ELSE Follows(S, m.input, s) /\ HasResult(p, m.job, m.input)
  BY DEF PInv, LogInv, MessageInv
<1>2. S \in SUBSET Stage
  BY SelectedType DEF PInv, LogInv, RecordInv, StageMessage
<1>3. Follows(S, m.input, s) => m.input = Previous(S, s)
  <2> SUFFICES ASSUME Follows(S, m.input, s) PROVE m.input = Previous(S, s)
    OBVIOUS
  <2> HIDE DEF S
  <2>1. \A t : t \in S /\ Later(S, t) # {} /\ NextStage(S, t) = s <=> Follows(S, t, s)
    BY DEF Follows
  <2>2. Follows(S, Previous(S, s), s)
    BY <2>1 DEF Previous
  <2> QED
    BY <1>2, <2>2, FollowsIsUnique
<1> QED
  BY <1>1, <1>3 DEF HasResult

LEMMA CommitsAreSafe == PInv => OffsetsAreSafe
<1> SUFFICES ASSUME PInv, NEW p \in Partitions
             PROVE  /\ \A s \in Stage : \A i \in 1 .. committed[s][p] :
                          \E e \in RecordsOf(Results, p) :
                              e.job = log[s][p][i].job /\ e.completed_stage = s
                    /\ \A i \in 1 .. committed[Results][p] :
                          log[Results][p][i].completed_stage
                              \in done[log[Results][p][i].job]
  BY DEF OffsetsAreSafe
<1>1. Results \in Consumers /\ Stage \subseteq Consumers /\ Results \notin Stage
  BY DEF Consumers, Results, Stage
<1>2. \A k \in Consumers : Effective(k, p, committed[k][p])
  BY DEF PInv, ConsumerInv, SettledOf
<1> QED
  BY <1>1, <1>2 DEF Effective, HasResult

(* Every safety property of the pipeline follows.                          *)
-----------------------------------------------------------------------------
(* What a step does to the logs and the rows.                              *)

LEMMA SaveEffect ==
    ASSUME PInv, SaveResult
    PROVE  \E e \in ResultEvent :
              /\ e = Held(Results) /\ pc[Results] = "save" /\ pc'[Results] = "commit"
              /\ ~Duplicate(e) /\ Acceptable(e) /\ RowAdvances(e)
              /\ UNCHANGED <<selected, files, log>>
<1>1. PICK e : e = Held(Results)
  OBVIOUS
<1>2. /\ pc[Results] = "save" /\ pc'[Results] = "commit" /\ RowAdvances(e)
      /\ UNCHANGED <<selected, files, log>>
  BY <1>1 DEF SaveResult, RowAdvances, Goto, PInv, TypeOK, Consumers
<1>3. e \in ResultEvent /\ ~Duplicate(e) /\ Acceptable(e)
  BY <1>1, <1>2, ResultHeld DEF PInv, HeldInv
<1> QED
  BY <1>1, <1>2, <1>3

LEMMA WorkEffect ==
    ASSUME PInv, NEW k \in Consumers, Work(k) \/ Fault(k)
    PROVE  LogGrows /\ (UNCHANGED jobVars \/ (k = Results /\ SaveResult))
<1>0. TypeOK /\ LogOK /\ LogInv /\ Results \in Consumers
  BY DEF PInv, Consumers
<1>1. CASE \/ Fetch(k) \/ CommitOffsets(k) \/ Except(k) \/ Restart(k)
           \/ UploadOutput(k) \/ ApplyResult
  <2>1. UNCHANGED <<jobVars, log>>
    BY <1>1 DEF Fetch, CommitOffsets, Except, SeekBack, Restart, UploadOutput, ApplyResult
  <2> QED
    BY <1>0, <2>1, LogType DEF LogGrows
<1>2. CASE k \in Stage /\ (PublishResult(k) \/ PublishResultTimesOut(k))
  <2>1. /\ pc[k] = "publish" /\ Append1(Results, Held(k).job, ResultOf(k))
        /\ UNCHANGED jobVars
    BY <1>2 DEF PublishResult, PublishResultTimesOut, Send, SendTimesOut
  <2>2. PICK j, m : j = Held(k).job /\ m = ResultOf(k)
    OBVIOUS
  <2>3. j \in Jobs /\ m \in Record /\ Append1(Results, j, m)
    BY <1>2, <2>1, <2>2, WorkerHolds DEF Record
  <2> QED
    BY <1>0, <2>1, <2>3, AppendStep
<1>3. CASE PublishNext \/ PublishNextTimesOut
  <2>1. PICK e : e = Held(Results)
    OBVIOUS
  <2>2. /\ pc[Results] = "publish"
        /\ Append1(NextStage(selected[e.job], e.completed_stage), e.job, NextMessage(e))
        /\ UNCHANGED <<jobVars, files>>
    BY <1>3, <2>1 DEF PublishNext, PublishNextTimesOut, Send, SendTimesOut
  <2>3. /\ e \in ResultEvent /\ e \in RecordsOf(Results, PartitionOf[e.job])
        /\ e.completed_stage \in selected[e.job] /\ ~IsLast(e)
    BY <2>1, <2>2, ResultHeld DEF PInv, HeldInv
  <2> QED
    BY <1>0, <2>2, <2>3, SendNext
<1>4. CASE k = Results /\ SaveResult
  <2>1. log' = log
    BY <1>4 DEF SaveResult
  <2> QED
    BY <1>0, <1>4, <2>1, LogType DEF LogGrows
<1>5. \/ Fetch(k) \/ CommitOffsets(k) \/ Except(k) \/ Restart(k)
      \/ UploadOutput(k) \/ ApplyResult
      \/ k \in Stage /\ (PublishResult(k) \/ PublishResultTimesOut(k))
      \/ PublishNext \/ PublishNextTimesOut \/ (k = Results /\ SaveResult)
  BY DEF Work, Fault
<1> QED
  BY <1>1, <1>2, <1>3, <1>4, <1>5

LEMMA StartEffect ==
    ASSUME PInv, NEW j \in Jobs, StartJob(j)
    PROVE  LogGrows /\ UNCHANGED jobVars
<1> DEFINE s == FirstStage(selected[j])
           m == [job |-> j, input |-> Original]
<1>1. Append1(s, j, m) /\ UNCHANGED jobVars
  BY DEF StartJob, PublishFirst
<1>2. LogOK /\ s \in Consumers /\ m \in Record
  BY SelectedType DEF PInv, Consumers, StageMessage, Record
<1> HIDE DEF s, m
<1> QED
  BY <1>1, <1>2, AppendStep

-----------------------------------------------------------------------------
(* What is done is stored: the row learns of a stage only from a result,   *)
(* and a result stays in its log.                                          *)

DoneHasResult == \A j \in Jobs : \A s \in done[j] : HasResult(PartitionOf[j], j, s)

LEMMA ResultsRemain ==
    ASSUME LogOK, LogOK', LogGrows, NEW p \in Partitions, NEW j, NEW s, HasResult(p, j, s)
    PROVE  HasResult(p, j, s)'
<1>1. Results \in Consumers
  BY DEF Consumers
<1>2. RecordsOf(Results, p) \subseteq RecordsOf(Results, p)'
  BY <1>1, RecordsGrow
<1> QED
  BY <1>2 DEF HasResult

(* The transaction that marks a stage done holds a result from the log.    *)
LEMMA AdvanceHasResult ==
    ASSUME TypeOK, LogOK, LogOK', LogGrows, DoneHasResult, NEW e \in ResultEvent, RowAdvances(e),
           e \in RecordsOf(Results, PartitionOf[e.job])
    PROVE  DoneHasResult'
<1> SUFFICES ASSUME NEW j \in Jobs, NEW s \in done'[j]
             PROVE  HasResult(PartitionOf[j], j, s)'
  BY DEF DoneHasResult
<1>1. s \in done[j] \/ (j = e.job /\ s = e.completed_stage)
  BY DEF RowAdvances, TypeOK, ResultEvent
<1>2. HasResult(PartitionOf[j], j, s)
  BY <1>1 DEF DoneHasResult, HasResult
<1> QED
  BY <1>2, ResultsRemain

LEMMA IdleHasResult ==
    ASSUME LogOK, LogOK', LogGrows, DoneHasResult, UNCHANGED done
    PROVE  DoneHasResult'
BY ResultsRemain DEF DoneHasResult

LEMMA SameLogGrows ==
    ASSUME LogOK, UNCHANGED log
    PROVE  LogGrows
BY LogType DEF LogGrows

(* The stages done are results that arrived, after every step.             *)
LEMMA DoneHasResultStep ==
    DoneHasResult /\ PInv /\ [OpenNext]_vars => DoneHasResult'
<1> SUFFICES ASSUME DoneHasResult, PInv, [OpenNext]_vars PROVE DoneHasResult'
  OBVIOUS
<1>1. TypeOK /\ LogOK /\ LogOK'
  BY OpenNextHolds DEF PInv
<1>2. CASE SaveResult
  <2>1. PICK e \in ResultEvent : /\ e = Held(Results) /\ pc[Results] = "save"
                                 /\ RowAdvances(e) /\ UNCHANGED log
    BY <1>2, SaveEffect
  <2>2. e \in RecordsOf(Results, PartitionOf[e.job])
    BY <2>1, ResultHeld
  <2> QED
    BY <1>1, <2>1, <2>2, SameLogGrows, AdvanceHasResult
<1>3. CASE LogGrows /\ UNCHANGED jobVars
  BY <1>1, <1>3, IdleHasResult DEF jobVars
<1>4. CASE UNCHANGED <<jobVars, log>>
  BY <1>1, <1>3, <1>4, SameLogGrows
<1>5. CASE Next
  BY <1>2, <1>3, <1>5, WorkEffect, StartEffect DEF Next
<1>6. ASSUME NEW k \in Consumers, SeekBack(k) PROVE DoneHasResult'
  BY <1>4, <1>6 DEF SeekBack
<1> QED
  BY <1>4, <1>5, <1>6 DEF OpenNext, vars

LEMMA DoneHasResultFirst == Init => DoneHasResult
BY DEF Init, DoneHasResult

LEMMA ResultsBackDone == PInv /\ DoneHasResult => DoneIsBacked
<1> SUFFICES ASSUME PInv, DoneHasResult, NEW j \in Jobs, NEW s \in done[j]
             PROVE  files[j][s] = OutputCount(s)
  BY DEF DoneIsBacked
<1>1. PICK e \in RecordsOf(Results, PartitionOf[j]) : e.job = j /\ e.completed_stage = s
  BY DEF DoneHasResult, HasResult
<1> QED
  BY <1>1 DEF PInv, LogInv, ResultsAreBacked

-----------------------------------------------------------------------------
(* Safety.                                                                 *)

Safety ==
    /\ TypeOK /\ NoResultRefused /\ InputsReady /\ ResultsAreBacked /\ DoneIsBacked
    /\ MessagesFollowResults /\ OffsetsAreSafe /\ RowIsConsistent

LEMMA SafetyFollows == PInv /\ DoneHasResult => Safety
BY HeldIsExpected, InputsAreThere, ResultsBackDone, MessagesAreInOrder, CommitsAreSafe
   DEF Safety, PInv, LogInv

LEMMA NextIsOpen == [Next]_vars => [OpenNext]_vars
BY DEF OpenNext

(* Under any number of faults no result a worker publishes is refused, no  *)
(* worker starts before its input is there, and a result, a message and a  *)
(* committed offset stand for work that has been done.                     *)
THEOREM PipelineSafety ==
    Spec => [](/\ TypeOK /\ NoResultRefused /\ InputsReady /\ ResultsAreBacked
               /\ DoneIsBacked /\ MessagesFollowResults /\ OffsetsAreSafe
               /\ RowIsConsistent)
BY PipelineInvariant, DoneHasResultFirst, DoneHasResultStep, NextIsOpen, SafetyFollows, PTL
   DEF Spec, Safety

(* The same with records that fail for ever, as those of a job whose row   *)
(* or original is gone: seeking back without end disturbs nothing.         *)
THEOREM OpenSafety == OpenSpec => []Safety
BY OpenInvariant, DoneHasResultFirst, DoneHasResultStep, SafetyFollows, PTL DEF OpenSpec

-----------------------------------------------------------------------------
(* The refinement: what every step looks like to JobProgress.              *)

(* Both modules order the stages alike.                                    *)
LEMMA SameOrder ==
    /\ \A S : Progress!FirstStage(S) = FirstStage(S)
    /\ \A S, s : /\ Progress!Later(S, s) = Later(S, s)
                 /\ Progress!NextStage(S, s) = NextStage(S, s)
    /\ Progress!Selections = Selections
<1>1. \A S : Progress!FirstStage(S) = FirstStage(S)
  BY DEF Progress!FirstStage, FirstStage, Progress!Index, Index, Progress!StageOrder,
         StageOrder
<1>2. \A S, s : Progress!Later(S, s) = Later(S, s)
  BY DEF Progress!Later, Later, Progress!Index, Index, Progress!StageOrder, StageOrder
<1>3. Progress!Selections = Selections
  BY DEF Progress!Selections, Selections, Progress!ValidSelection, ValidSelection,
         Progress!Stage, Stage
<1> QED
  BY <1>1, <1>2, <1>3 DEF Progress!NextStage, NextStage

LEMMA ProgressIdles ==
    ASSUME UNCHANGED <<selected, done, current_stage, status>>,
           \A j \in Jobs : Started(j)' <=> Started(j)
    PROVE  UNCHANGED Progress!vars
<1>1. \A j \in Jobs : Started(j)' = Started(j)
  BY DEF Started
<1> QED
  BY <1>1 DEF Progress!vars

(* A job is started by a message for its first stage and by nothing else.  *)
LEMMA StartedStays ==
    ASSUME TypeOK, LogOK, selected' = selected,
           NEW topic \in Consumers, NEW i \in Jobs, NEW m \in Record, m.job = i,
           Append1(topic, i, m), NEW j \in Jobs,
           i = j => topic # FirstStage(selected[j])
    PROVE  Started(j)' <=> Started(j)
<1> DEFINE s == FirstStage(selected[j])
           p == PartitionOf[j]
<1>1. s \in Consumers /\ p \in Partitions
  BY SelectedType DEF Consumers
<1>2. RecordsOf(s, p)' = RecordsOf(s, p) \cup
                         (IF s = topic /\ p = PartitionOf[i] THEN {m} ELSE {})
  BY <1>1, RecordsAppend
<1>3. \A r \in RecordsOf(s, p)' : r.job = j => r \in RecordsOf(s, p)
  BY <1>2
<1>4. Started(j)' <=> \E r \in RecordsOf(s, p)' : r.job = j
  BY DEF Started, RecordsOf
<1> QED
  BY <1>2, <1>3, <1>4 DEF Started

LEMMA StartJobStarts ==
    ASSUME PInv, NEW j \in Jobs, StartJob(j)
    PROVE  Progress!Start(j)
<1> DEFINE s == FirstStage(selected[j])
           m == [job |-> j, input |-> Original]
           p == PartitionOf[j]
<1>1. /\ Append1(s, j, m) /\ UNCHANGED jobVars
      /\ \A q \in Partitions : \A t \in Stage : \A i \in 1 .. Len(log[t][q]) :
            log[t][q][i].job # j
  BY DEF StartJob, PublishFirst
<1>2. TypeOK /\ LogOK /\ s \in Stage /\ s \in Consumers /\ p \in Partitions
  BY SelectedType DEF PInv, Consumers
<1>3. m \in Record /\ m.job = j
  BY DEF StageMessage, Record
<1> HIDE DEF m
<1>4. ~Started(j)
  BY <1>1, <1>2 DEF Started, RecordsOf
<1>5. Started(j)'
  <2>1. PICK t \in Consumers : t = s
    BY <1>2
  <2>2. RecordsOf(t, p)' = RecordsOf(t, p) \cup {m}
    BY <1>1, <1>2, <1>3, <2>1, RecordsAppend
  <2>3. FirstStage(selected'[j]) = t
    BY <1>1, <2>1 DEF jobVars
  <2> QED
    BY <1>3, <2>2, <2>3 DEF Started
<1>6. \A i \in Jobs : i # j => (Started(i)' <=> Started(i))
  BY <1>1, <1>2, <1>3, StartedStays DEF jobVars
<1>7. \A i \in Jobs : Started(i)' = IF i = j THEN TRUE ELSE Started(i)
  BY <1>5, <1>6 DEF Started
<1> QED
  BY <1>1, <1>4, <1>7 DEF Progress!Start, jobVars

(* An accepted result advances its job by the stage the row is at.         *)
LEMMA ResultAdvances ==
    ASSUME TypeOK, RowIsConsistent, NEW e \in ResultEvent, Started(e.job),
           ~Duplicate(e), Acceptable(e), RowAdvances(e), log' = log
    PROVE  Progress!Advance(e.job)
<1> DEFINE j == e.job
<1>1. /\ j \in Jobs /\ current_stage[j] = e.completed_stage
      /\ e.completed_stage \in selected[j] /\ e.completed_stage \notin done[j]
  BY DEF ResultEvent, Acceptable, Duplicate
<1>2. status[j] # "COMPLETED"
  BY <1>1 DEF RowIsConsistent
<1>3. \A i \in Jobs : Started(i)' = Started(i)
  BY DEF Started, RecordsOf, RowAdvances
<1>4. IsLast(e) <=> Later(selected[j], current_stage[j]) = {}
  BY <1>1 DEF IsLast
<1>5. /\ done' = [done EXCEPT ![j] = @ \cup {current_stage[j]}]
      /\ current_stage' = [current_stage EXCEPT ![j] =
             IF Later(selected[j], current_stage[j]) = {} THEN current_stage[j]
             ELSE NextStage(selected[j], current_stage[j])]
      /\ status' = [status EXCEPT ![j] =
             IF Later(selected[j], current_stage[j]) = {} THEN "COMPLETED" ELSE "PROCESSING"]
      /\ selected' = selected
  BY <1>1, <1>4 DEF RowAdvances
<1>6. [i \in Jobs |-> Started(i)]' = [i \in Jobs |-> Started(i)]
  BY <1>3
<1> QED
  BY <1>1, <1>2, <1>5, <1>6, SameOrder DEF Progress!Advance

(* What the backend publishes for the next stage starts no job.            *)
LEMMA NextStartsNothing ==
    ASSUME TypeOK, LogOK, selected' = selected, NEW e \in ResultEvent,
           e.completed_stage \in selected[e.job], ~IsLast(e),
           Append1(NextStage(selected[e.job], e.completed_stage), e.job, NextMessage(e)),
           NEW j \in Jobs
    PROVE  Started(j)' <=> Started(j)
<1> DEFINE i == e.job
           S == selected[i]
           s == NextStage(S, e.completed_stage)
           m == NextMessage(e)
<1>1. /\ i \in Jobs /\ e.completed_stage \in Stage
      /\ S \in SUBSET Stage /\ e.completed_stage \in S
      /\ Later(S, e.completed_stage) # {}
  BY SelectedType DEF ResultEvent, IsLast
<1>2. s \in Stage /\ s # FirstStage(S) /\ s \in Consumers
  BY <1>1, NextIsLeast DEF Consumers
<1>3. m \in Record /\ m.job = i
  BY <1>1 DEF NextMessage, StageMessage, Record
<1>4. Append1(s, i, m)
  OBVIOUS
<1> HIDE DEF m, s
<1> QED
  BY <1>1, <1>2, <1>3, <1>4, StartedStays

LEMMA ResultStartsNothing ==
    ASSUME PInv, selected' = selected, NEW s \in Stage, pc[s] = "publish",
           Append1(Results, Held(s).job, ResultOf(s)), NEW j \in Jobs
    PROVE  Started(j)' <=> Started(j)
<1> DEFINE i == Held(s).job
           e == ResultOf(s)
<1>1. TypeOK /\ LogOK /\ Results \in Consumers /\ FirstStage(selected[j]) # Results
  BY SelectedType DEF PInv, Consumers, Stage, Results
<1>2. i \in Jobs /\ e \in Record /\ e.job = i
  BY WorkerHolds DEF ResultOf, ResultEvent, Record
<1>3. Append1(Results, i, e)
  OBVIOUS
<1> HIDE DEF e
<1> QED
  BY <1>1, <1>2, <1>3, StartedStays

LEMMA SameLogStartsNothing ==
    ASSUME UNCHANGED <<selected, log>>, NEW j \in Jobs
    PROVE  Started(j)' <=> Started(j)
BY DEF Started, RecordsOf

LEMMA WorkRefines ==
    ASSUME PInv, NEW k \in Consumers, Work(k) \/ Fault(k)
    PROVE  Progress!Next \/ UNCHANGED Progress!vars
<1>1. CASE \/ Fetch(k) \/ CommitOffsets(k) \/ Except(k) \/ Restart(k)
           \/ UploadOutput(k) \/ ApplyResult
  <2>1. UNCHANGED <<jobVars, log>>
    BY <1>1 DEF Fetch, CommitOffsets, Except, SeekBack, Restart, UploadOutput, ApplyResult
  <2> QED
    BY <2>1, SameLogStartsNothing, ProgressIdles DEF jobVars
<1>2. CASE k \in Stage /\ (PublishResult(k) \/ PublishResultTimesOut(k))
  <2>1. /\ pc[k] = "publish" /\ Append1(Results, Held(k).job, ResultOf(k))
        /\ UNCHANGED jobVars
    BY <1>2 DEF PublishResult, PublishResultTimesOut, Send, SendTimesOut
  <2> QED
    BY <1>2, <2>1, ResultStartsNothing, ProgressIdles DEF jobVars
<1>3. CASE PublishNext \/ PublishNextTimesOut
  <2>1. PICK e : e = Held(Results)
    OBVIOUS
  <2>2. /\ pc[Results] = "publish"
        /\ Append1(NextStage(selected[e.job], e.completed_stage), e.job, NextMessage(e))
        /\ UNCHANGED jobVars
    BY <1>3, <2>1 DEF PublishNext, PublishNextTimesOut, Send, SendTimesOut
  <2>3. /\ TypeOK /\ LogOK /\ e \in ResultEvent
        /\ e.completed_stage \in selected[e.job] /\ ~IsLast(e)
    BY <2>1, <2>2, ResultHeld DEF PInv, HeldInv
  <2> QED
    BY <2>2, <2>3, NextStartsNothing, ProgressIdles DEF jobVars
<1>4. CASE SaveResult
  <2>1. PICK e : e = Held(Results)
    OBVIOUS
  <2>2. pc[Results] = "save" /\ RowAdvances(e) /\ log' = log
    BY <1>4, <2>1 DEF SaveResult, RowAdvances
  <2>3. /\ TypeOK /\ RowIsConsistent /\ e \in ResultEvent /\ e.job \in Jobs
        /\ Started(e.job) /\ ~Duplicate(e) /\ Acceptable(e)
    BY <2>1, <2>2, ResultHeld DEF PInv, HeldInv
  <2>4. Progress!Advance(e.job)
    BY <2>2, <2>3, ResultAdvances
  <2> QED
    BY <2>3, <2>4 DEF Progress!Next
<1>5. \/ Fetch(k) \/ CommitOffsets(k) \/ Except(k) \/ Restart(k)
      \/ UploadOutput(k) \/ ApplyResult
      \/ k \in Stage /\ (PublishResult(k) \/ PublishResultTimesOut(k))
      \/ PublishNext \/ PublishNextTimesOut \/ SaveResult
  BY DEF Work, Fault
<1> QED
  BY <1>1, <1>2, <1>3, <1>4, <1>5
LEMMA ProgressStep == PInv /\ [Next]_vars => [Progress!Next]_(Progress!vars)
<1> SUFFICES ASSUME PInv, [Next]_vars PROVE Progress!Next \/ UNCHANGED Progress!vars
  OBVIOUS
<1>1. CASE UNCHANGED vars
  BY <1>1, SameLogStartsNothing, ProgressIdles DEF vars, jobVars
<1>2. ASSUME NEW j \in Jobs, StartJob(j) PROVE Progress!Next
  BY <1>2, StartJobStarts DEF Progress!Next
<1> QED
  BY <1>1, <1>2, WorkRefines DEF Next

LEMMA ProgressInit == Init => Progress!Init
<1> SUFFICES ASSUME Init PROVE Progress!Init
  OBVIOUS
<1>1. PInv
  BY InitHolds
<1>2. ASSUME NEW j \in Jobs PROVE Started(j) = FALSE
  <2>1. /\ FirstStage(selected[j]) \in Consumers /\ PartitionOf[j] \in Partitions
    BY <1>1, SelectedType DEF PInv, Consumers
  <2>2. log[FirstStage(selected[j])][PartitionOf[j]] = <<>>
    BY <2>1 DEF Init
  <2>3. Len(log[FirstStage(selected[j])][PartitionOf[j]]) = 0
    BY <2>2
  <2> QED
    BY <2>3 DEF Started, RecordsOf
<1>3. [j \in Jobs |-> Started(j)] = [j \in Jobs |-> FALSE]
  BY <1>2
<1> QED
  BY <1>3, SameOrder DEF Init, Progress!Init

(* Workers, topics and the result consumer together complete the stages of *)
(* a job one by one in order and each once, whatever is retried, delivered *)
(* twice or restarted.                                                     *)
THEOREM PipelineImplementsProgress == Spec => Progress!Spec
BY PipelineInvariant, ProgressInit, ProgressStep, PTL DEF Spec, Progress!Spec

LEMMA OpenProgressStep == PInv /\ [OpenNext]_vars => [Progress!Next]_(Progress!vars)
<1> SUFFICES ASSUME PInv, [OpenNext]_vars PROVE [Progress!Next]_(Progress!vars)
  OBVIOUS
<1>1. ASSUME NEW k \in Consumers, SeekBack(k) PROVE UNCHANGED Progress!vars
  BY <1>1, SameLogStartsNothing, ProgressIdles DEF SeekBack, jobVars
<1> QED
  BY <1>1, ProgressStep DEF OpenNext

(* Nor does a record that fails for ever take a job out of its order.      *)
THEOREM OpenImplementsProgress == OpenSpec => Progress!Spec
BY OpenInvariant, ProgressInit, OpenProgressStep, PTL DEF OpenSpec, Progress!Spec
=============================================================================

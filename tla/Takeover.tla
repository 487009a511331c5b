------------------------------ MODULE Takeover ------------------------------
(***************************************************************************)
(* Pipeline with two result consumers at once.  The consumer group hands   *)
(* the partitions of an instance that seems to be gone (its heartbeats or  *)
(* its polls were late, its host is cut off, a new container was started)  *)
(* to another one, while the transaction it is in goes on: the same result *)
(* is then applied by both.                                                *)
(*                                                                         *)
(* Pipeline's result consumer is always the owner of the partitions; the   *)
(* other one finishes the record it has and can commit no offset any more. *)
(***************************************************************************)
EXTENDS Pipeline

VARIABLE stale  \* the instance that lost its partitions: where it is, its
                \* result, and the columns of the row as it read them

takeoverVars == <<vars, stale>>

NoOther == [pc |-> "gone"]

TakeoverInit == Init /\ stale = NoOther

-----------------------------------------------------------------------------
Reading(label, e) == [pc |-> label, event |-> e,
                      done |-> done[e.job], hashed |-> hashed[e.job]]

(* Fault: the row is read without FOR UPDATE.                              *)
NoRowLock(label) == FALSE

(* SELECT ... FOR UPDATE holds the row until the transaction ends.         *)
LocksRow(label) == label \in {"publish", "save"}

StaleLocks(j) == stale # NoOther /\ stale.event.job = j /\ LocksRow(stale.pc)
OwnerLocks(j) == LocksRow(pc[Results]) /\ Held(Results).job = j

(* The group moves the partitions to the next owner, which resumes at the  *)
(* committed offsets.                                                      *)
Overtake ==
    /\ stale = NoOther
    /\ pc[Results] \in {"work", "publish", "save"}
    /\ stale' = Reading(pc[Results], Held(Results))
    /\ Restart(Results)

StaleGoto(label) == stale' = [stale EXCEPT !.pc = label]

StaleApply ==
    /\ stale.pc = "work"
    /\ ~OwnerLocks(stale.event.job)
    /\ stale' = IF Duplicate(stale.event) \/ ~Acceptable(stale.event) THEN NoOther
                ELSE Reading(IF IsLast(stale.event) THEN "save" ELSE "publish", stale.event)
    /\ UNCHANGED vars

StalePublish ==
    LET e == stale.event
    IN  /\ stale.pc = "publish"
        /\ Append1(NextStage(selected[e.job], e.completed_stage), e.job, NextMessage(e))
        /\ StaleGoto("save")
        /\ UNCHANGED <<jobVars, files, kafkaVars, pc, at, uploads, faults>>

(* The transaction commits what it computed from the row it read.          *)
StaleSave ==
    LET e == stale.event
        j == e.job
        s == e.completed_stage
    IN  /\ stale.pc = "save"
        /\ done' = [done EXCEPT ![j] = stale.done \cup {s}]
        /\ hashed' = [hashed EXCEPT ![j] = stale.hashed \/ e.is_initial]
        /\ status' = [status EXCEPT ![j] = IF IsLast(e) THEN "COMPLETED" ELSE "PROCESSING"]
        /\ current_stage' = [current_stage EXCEPT ![j] =
                                IF IsLast(e) THEN s ELSE NextStage(selected[j], s)]
        /\ stale' = NoOther
        /\ UNCHANGED <<selected, files, log, kafkaVars, pc, at, uploads, faults>>

(* It dies or raises: its transaction is rolled back.                      *)
StaleFails ==
    /\ stale # NoOther
    /\ stale' = NoOther
    /\ UNCHANGED vars

-----------------------------------------------------------------------------
(* The owner waits for the row.                                            *)
OwnerApply ==
    /\ pc[Results] = "work"
    /\ ~StaleLocks(Held(Results).job)
    /\ ApplyResult

OwnerStep ==
    /\ \/ OwnerApply \/ PublishNext \/ SaveResult
       \/ Fetch(Results) \/ CommitOffsets(Results) \/ Fault(Results)
    /\ UNCHANGED stale

OthersStep ==
    /\ \/ \E j \in Jobs : StartJob(j)
       \/ \E s \in Stage : Work(s) \/ Fault(s)
    /\ UNCHANGED stale

StaleStep == StaleApply \/ StalePublish \/ StaleSave \/ StaleFails

TakeoverNext == OthersStep \/ OwnerStep \/ Overtake \/ StaleStep

TakeoverSpec == TakeoverInit /\ [][TakeoverNext]_takeoverVars

-----------------------------------------------------------------------------
(* Properties.                                                             *)

(* "Lock the row so two result messages cannot update this job at once"    *)
(* (services.py:179): whoever applies a result late, no stage that is done *)
(* is forgotten, and no completed job is reopened.                         *)
NothingIsUndone ==
    [][\A j \in Jobs : /\ done[j] \subseteq done'[j]
                       /\ hashed[j] => hashed'[j]
                       /\ status[j] = "COMPLETED" => status'[j] = "COMPLETED"]_takeoverVars
=============================================================================

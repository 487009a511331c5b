----------------------------- MODULE JobProgress -----------------------------
(***************************************************************************)
(* What the pipeline promises of each confirmed job, without topics,       *)
(* workers or failures: once its first stage is published, the selected    *)
(* stages are completed one by one in pipeline order, each exactly once,   *)
(* and with the last one the job is COMPLETED.                             *)
(***************************************************************************)
EXTENDS Stages

CONSTANT Jobs

VARIABLES selected,      \* jobs.selected_options
          started,       \* the first stage's message is on its topic
          done,          \* the stages whose status is "done"
          current_stage, \* jobs.current_stage
          status         \* jobs.status

vars == <<selected, started, done, current_stage, status>>

Init ==
    /\ selected \in [Jobs -> Selections]
    /\ started = [j \in Jobs |-> FALSE]
    /\ done = [j \in Jobs |-> {}]
    /\ current_stage = [j \in Jobs |-> FirstStage(selected[j])]
    /\ status = [j \in Jobs |-> "QUEUED"]

Start(j) ==
    /\ ~started[j]
    /\ started' = [started EXCEPT ![j] = TRUE]
    /\ UNCHANGED <<selected, done, current_stage, status>>

Advance(j) ==
    /\ started[j]
    /\ status[j] # "COMPLETED"
    /\ LET s == current_stage[j]
           last == Later(selected[j], s) = {}
       IN  /\ done' = [done EXCEPT ![j] = @ \cup {s}]
           /\ current_stage' = [current_stage EXCEPT ![j] =
                                   IF last THEN s ELSE NextStage(selected[j], s)]
           /\ status' = [status EXCEPT ![j] =
                                   IF last THEN "COMPLETED" ELSE "PROCESSING"]
    /\ UNCHANGED <<selected, started>>

Next == \E j \in Jobs : Start(j) \/ Advance(j)

Spec == Init /\ [][Next]_vars

(* A started job is never abandoned.                                       *)
FairSpec == Spec /\ \A j \in Jobs : WF_vars(Advance(j))
=============================================================================

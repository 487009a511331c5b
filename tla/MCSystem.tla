------------------------------ MODULE MCSystem ------------------------------
(* Instances of System for TLC.                                            *)
EXTENDS System, TLC

CONSTANTS j1, j2, c1, c2, c3

SamePartition == (j1 :> 1) @@ (j2 :> 1)
OnlyDenoise == [j \in Jobs |-> {{"denoise"}}]

(* Two calls compete for the first job, the second job has one.            *)
CallsOfJobs == job = (c1 :> j1) @@ (c2 :> j1) @@ (c3 :> j2)

(* A client that requests both jobs and posts the second file before it    *)
(* sends a call, may replace the first file by a smaller one, and sends    *)
(* the two equal calls in their order: only what it chooses is cut.        *)
Client ==
    /\ (\E c \in Calls : pc[c] = "idle" /\ pc'[c] # "idle") =>
           posts[j2] = 1 /\ \A j \in Jobs : request[j] = "done"
    /\ posts'[j2] <= 1 /\ object'[j2] # 1
    /\ object'[j1] # NoObject => posts'[j1] + object'[j1] = 3
    /\ pc'[c2] # "idle" => pc'[c1] # "idle"

MCInit == SystemInit /\ CallsOfJobs

MCSpec == MCInit /\ [][SystemNext]_systemVars /\ Fairness
=============================================================================

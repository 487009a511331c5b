-------------------------- MODULE SupervisorProofs --------------------------
(* Proofs about Supervisor, for any number of workers and of faults.       *)
EXTENDS Supervisor, TLAPS

USE SupervisorAssumption

(* While the launcher goes through its workers, next is one of them.       *)
NextInv == pc \in {"launch", "scan", "terminate", "join"} => next \in Workers

(* No restart is planned before all the workers have been started.         *)
LaunchInv == pc = "launch" => \A w \in Workers : restart_in[w] = NoRestart

(* The workers that were joined are closed, and nothing starts them again. *)
JoinInv ==
    /\ pc = "join" => \A w \in Workers : w < next => process[w] = "closed"
    /\ pc = "exited" => \A w \in Workers : process[w] = "closed"

IInv ==
    /\ TypeOK
    /\ NextInv /\ LaunchInv /\ JoinInv
    /\ RestartsAreForTheDead

LEMMA InitHolds == Init => IInv
<1> SUFFICES ASSUME Init PROVE IInv
  OBVIOUS
<1>1. /\ 1 \in Workers /\ 1 \in 1 .. Count + 1 /\ 0 \in 0 .. Polling /\ 0 \in 0 .. MaxDeaths
  BY DEF Workers, Polling
<1>2. TypeOK
  BY <1>1 DEF Init, TypeOK
<1>3. NextInv /\ LaunchInv /\ JoinInv /\ RestartsAreForTheDead
  BY <1>1 DEF Init, NextInv, LaunchInv, JoinInv, RestartsAreForTheDead
<1> QED
  BY <1>2, <1>3 DEF IInv

(* The invariants but the types, for a step that names its effect.         *)
LEMMA WorkerStep ==
    ASSUME IInv, NEW w \in Workers, Connect(w) \/ ConnectFails(w) \/ WorkerDies(w)
    PROVE  IInv'
<1>1. TypeOK /\ w \in Workers /\ process[w] = "alive" /\ w \in Int
  BY DEF IInv, Connect, ConnectFails, WorkerDies, Workers
<1>2. /\ UNCHANGED <<pc, next, stop_event, restart_in>>
      /\ process' = process \/ process' = [process EXCEPT ![w] = "dead"]
  BY DEF Connect, ConnectFails, WorkerDies, Dies
<1>3. attempts' \in [Workers -> 0 .. Polling] /\ deaths' \in 0 .. MaxDeaths
  BY <1>1 DEF Connect, ConnectFails, WorkerDies, Dies, TypeOK, Polling
<1>4. TypeOK'
  BY <1>1, <1>2, <1>3 DEF TypeOK
<1>5. NextInv' /\ LaunchInv'
  BY <1>2 DEF IInv, NextInv, LaunchInv
<1>6. JoinInv'
  BY <1>1, <1>2 DEF IInv, JoinInv, TypeOK
<1>7. RestartsAreForTheDead'
  BY <1>1, <1>2 DEF IInv, RestartsAreForTheDead, TypeOK
<1> QED
  BY <1>4, <1>5, <1>6, <1>7 DEF IInv

LEMMA LaunchStep ==
    ASSUME IInv, Launch \/ InstallHandlers \/ LaunchFails \/ KilledEarly \/ RequestStop
    PROVE  IInv'
<1>1. TypeOK /\ NextInv /\ LaunchInv /\ JoinInv /\ RestartsAreForTheDead
  BY DEF IInv
<1>2. CASE Launch
  <2>1. next \in Workers /\ next \in 1 .. Count /\ next \in Int
    BY <1>1, <1>2 DEF Launch, NextInv, Workers
  <2>2. TypeOK'
    BY <1>1, <1>2, <2>1 DEF Launch, Spawn, TypeOK, Polling
  <2>3. NextInv' /\ LaunchInv' /\ JoinInv'
    BY <1>1, <1>2, <2>1 DEF Launch, NextInv, LaunchInv, JoinInv, Workers
  <2>4. RestartsAreForTheDead'
    BY <1>1, <1>2, <2>1 DEF Launch, LaunchInv, RestartsAreForTheDead
  <2> QED
    BY <2>2, <2>3, <2>4 DEF IInv
<1>3. CASE InstallHandlers \/ LaunchFails \/ KilledEarly \/ RequestStop
  <2>1. /\ UNCHANGED <<next, process, attempts, restart_in>>
        /\ pc' = pc \/ pc' \in {"wait", "aborted"}
    BY <1>3 DEF InstallHandlers, LaunchFails, KilledEarly, RequestStop
  <2>2. stop_event' \in BOOLEAN /\ deaths' \in 0 .. MaxDeaths
    <3>1. stop_event \in BOOLEAN /\ deaths \in 0 .. MaxDeaths
      BY <1>1 DEF TypeOK
    <3>2. CASE LaunchFails
      BY <3>1, <3>2 DEF LaunchFails
    <3>3. CASE RequestStop
      BY <3>1, <3>3 DEF RequestStop
    <3>4. CASE InstallHandlers \/ KilledEarly
      BY <3>1, <3>4 DEF InstallHandlers, KilledEarly
    <3> QED
      BY <1>3, <3>2, <3>3, <3>4
  <2>3. TypeOK'
    BY <1>1, <2>1, <2>2 DEF TypeOK
  <2> QED
    BY <1>1, <2>1, <2>3 DEF IInv, NextInv, LaunchInv, JoinInv, RestartsAreForTheDead
<1> QED
  BY <1>2, <1>3

(* Time passes for the planned restarts, and for them alone.               *)
LEMMA WakeStep ==
    ASSUME IInv, Wake
    PROVE  IInv'
<1>1. TypeOK /\ NextInv /\ LaunchInv /\ JoinInv /\ RestartsAreForTheDead
  BY DEF IInv
<1>2. /\ restart_in' \in [Workers -> {NoRestart} \cup 0 .. RestartDelay]
      /\ \A w \in Workers : restart_in'[w] # NoRestart => restart_in[w] # NoRestart
  <2>1. CASE stop_event
    BY <1>1, <2>1 DEF Wake, TypeOK
  <2>2. CASE ~stop_event
    <3>1. PICK elapsed \in 1 .. 2 :
             restart_in' = [w \in Workers |->
                 IF restart_in[w] = NoRestart THEN NoRestart
                 ELSE IF restart_in[w] > elapsed THEN restart_in[w] - elapsed ELSE 0]
      BY <2>2 DEF Wake
    <3> QED
      BY <1>1, <3>1 DEF TypeOK, NoRestart
  <2> QED
    BY <2>1, <2>2
<1>3. pc' \in {"terminate", "scan"} /\ next' = 1 /\ UNCHANGED <<process, attempts, deaths>>
      /\ stop_event' = stop_event
  BY DEF Wake
<1>4. 1 \in Workers /\ 1 \in 1 .. Count + 1
  BY DEF Workers
<1>5. TypeOK'
  BY <1>1, <1>2, <1>3, <1>4 DEF TypeOK
<1>6. NextInv' /\ LaunchInv' /\ JoinInv' /\ RestartsAreForTheDead'
  BY <1>1, <1>2, <1>3, <1>4 DEF NextInv, LaunchInv, JoinInv, RestartsAreForTheDead
<1> QED
  BY <1>5, <1>6 DEF IInv

LEMMA ScanStep ==
    ASSUME IInv, Notice \/ Skip \/ Respawn \/ RespawnFails
    PROVE  IInv'
<1>1. TypeOK /\ NextInv /\ LaunchInv /\ JoinInv /\ RestartsAreForTheDead
  BY DEF IInv
<1>2. next \in Workers /\ next \in 1 .. Count /\ pc = "scan"
  BY <1>1 DEF Notice, Skip, Respawn, RespawnFails, NextInv, Workers
<1>3. pc' \in {"scan", "wait", "terminate"} /\ next' \in 1 .. Count /\ next' \in Workers
  BY <1>2 DEF Notice, Skip, Respawn, RespawnFails, Advance, Workers
<1>4. TypeOK'
  BY <1>1, <1>2, <1>3 DEF Notice, Skip, Respawn, RespawnFails, Spawn, TypeOK, Polling
<1>5. NextInv' /\ LaunchInv' /\ JoinInv'
  BY <1>3 DEF NextInv, LaunchInv, JoinInv
<1>6. RestartsAreForTheDead'
  BY <1>1, <1>2 DEF Notice, Skip, Respawn, RespawnFails, Spawn, TypeOK,
                    RestartsAreForTheDead
<1> QED
  BY <1>4, <1>5, <1>6 DEF IInv

LEMMA StopStep ==
    ASSUME IInv, Terminate \/ Join
    PROVE  IInv'
<1>1. TypeOK /\ NextInv /\ LaunchInv /\ JoinInv /\ RestartsAreForTheDead
  BY DEF IInv
<1>2. next \in Workers /\ next \in 1 .. Count /\ pc \in {"terminate", "join"}
  BY <1>1 DEF Terminate, Join, NextInv, Workers
<1>3. pc' \in {"terminate", "join", "exited", "crashed"} /\ next' \in 1 .. Count
      /\ next' \in Workers
  BY <1>2 DEF Terminate, Join, Workers
<1>4. TypeOK'
  BY <1>1, <1>2, <1>3 DEF Terminate, Join, TypeOK
<1>5. NextInv' /\ LaunchInv'
  BY <1>3 DEF NextInv, LaunchInv
<1>6. JoinInv'
  <2>1. CASE Terminate
    <3>1. pc' = "join" => next' = 1
      BY <2>1 DEF Terminate
    <3>2. pc' # "exited"
      BY <2>1 DEF Terminate
    <3> QED
      BY <3>1, <3>2 DEF JoinInv, Workers
  <2>2. CASE Join
    <3>1. \A w \in Workers : process'[w] = IF w = next THEN "closed" ELSE process[w]
      BY <1>1, <2>2 DEF Join, TypeOK
    <3>2. \A w \in Workers : w < next \/ w = next => process'[w] = "closed"
      BY <1>1, <2>2, <3>1 DEF Join, JoinInv
    <3> QED
      BY <1>2, <2>2, <3>2 DEF Join, JoinInv, Workers
  <2> QED
    BY <2>1, <2>2
<1>7. RestartsAreForTheDead'
  BY <1>1, <1>2 DEF Terminate, Join, TypeOK, RestartsAreForTheDead
<1> QED
  BY <1>4, <1>5, <1>6, <1>7 DEF IInv

LEMMA NextHolds == IInv /\ [Next]_vars => IInv'
<1> SUFFICES ASSUME IInv, [Next]_vars PROVE IInv'
  OBVIOUS
<1>1. CASE UNCHANGED vars
  BY <1>1 DEF vars, IInv, TypeOK, NextInv, LaunchInv, JoinInv, RestartsAreForTheDead
<1> QED
  BY <1>1, WorkerStep, LaunchStep, WakeStep, ScanStep, StopStep DEF Next, Loop

(* The invariant holds of every behaviour of Supervisor.                   *)
THEOREM SupervisorInvariant == Spec => []IInv
BY InitHolds, NextHolds, PTL DEF Spec

(* The launcher's indexes, clocks and attempt counts stay in their ranges. *)
THEOREM SupervisorTypes == Spec => []TypeOK
BY SupervisorInvariant, PTL DEF IInv

(* A restart is planned only for a worker that is dead, so that no live    *)
(* one is ever replaced.                                                   *)
THEOREM RestartsAreJust == Spec => []RestartsAreForTheDead
BY SupervisorInvariant, PTL DEF IInv

(* A launcher that ends by itself has closed all its workers.              *)
THEOREM ExitIsClean == Spec => []ExitLeavesNoWorker
<1>1. IInv => ExitLeavesNoWorker
  BY DEF IInv, JoinInv, ExitLeavesNoWorker
<1> QED
  BY <1>1, SupervisorInvariant, PTL
=============================================================================

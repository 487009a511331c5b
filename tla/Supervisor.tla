----------------------------- MODULE Supervisor -----------------------------
(***************************************************************************)
(* The launcher of the stage workers (src/ml/start_consumers.py) and the   *)
(* start of a worker up to its poll loop (KafkaProducer.start and          *)
(* run_consumer in src/ml/src/sonclarus_ml/shared).                        *)
(*                                                                         *)
(* The launcher looks at its workers once a second, one after the other,   *)
(* restarts a dead one some seconds after it noticed, and stops them all   *)
(* when it ends.  Workers die at any moment, also between two statements   *)
(* of the launcher.  restart_in holds restart_at minus the clock, so that  *)
(* time needs no bound.                                                    *)
(***************************************************************************)
EXTENDS Integers, FiniteSets

CONSTANTS Count,             \* stages selected, numbered in the dict's order
          RestartDelay,      \* RESTART_DELAY_SECONDS
          StartMaxAttempts,  \* settings.kafka.start_max_attempts
          MaxDeaths          \* bound: failed attempts, dying workers and failed starts

ASSUME SupervisorAssumption ==
    /\ Count \in Nat \ {0}
    /\ RestartDelay \in Nat \ {0}
    /\ StartMaxAttempts \in Nat \ {0}
    /\ MaxDeaths \in Nat

Workers == 1 .. Count
NoRestart == -1        \* restart_at[stage] is None

VARIABLES
    pc,          \* where the launcher is
    next,        \* the worker it looks at next
    stop_event,  \* set by the signal handlers
    process,     \* the Process objects: "none", "alive", "dead", "closed"
    attempts,    \* failed attempts to reach Kafka; StartMaxAttempts + 1: polling
    restart_in,  \* seconds until restart_at, or NoRestart
    deaths

vars == <<pc, next, stop_event, process, attempts, restart_in, deaths>>

Polling == StartMaxAttempts + 1

TypeOK ==
    /\ pc \in {"launch", "handlers", "wait", "scan", "terminate", "join",
               "exited", "crashed", "aborted"}
    /\ next \in 1 .. Count + 1
    /\ stop_event \in BOOLEAN
    /\ process \in [Workers -> {"none", "alive", "dead", "closed"}]
    /\ attempts \in [Workers -> 0 .. Polling]
    /\ restart_in \in [Workers -> {NoRestart} \cup 0 .. RestartDelay]
    /\ deaths \in 0 .. MaxDeaths

Init ==
    /\ pc = "launch"
    /\ next = 1
    /\ stop_event = FALSE
    /\ process = [w \in Workers |-> "none"]
    /\ attempts = [w \in Workers |-> 0]
    /\ restart_in = [w \in Workers |-> NoRestart]
    /\ deaths = 0

-----------------------------------------------------------------------------
(* A worker: it connects its producer, with a bounded number of attempts,  *)
(* and polls for messages until it dies.                                   *)

Dies(w) ==
    /\ process' = [process EXCEPT ![w] = "dead"]
    /\ deaths' = deaths + 1

Connect(w) ==
    /\ process[w] = "alive"
    /\ attempts[w] # Polling
    /\ attempts' = [attempts EXCEPT ![w] = Polling]
    /\ UNCHANGED <<pc, next, stop_event, process, restart_in, deaths>>

(* The broker is not reachable: the last attempt raises KafkaPublishError,  *)
(* which ends the process.                                                 *)
ConnectFails(w) ==
    /\ process[w] = "alive"
    /\ attempts[w] # Polling
    /\ deaths < MaxDeaths
    /\ attempts' = [attempts EXCEPT ![w] = @ + 1]
    /\ IF attempts[w] + 1 = StartMaxAttempts THEN Dies(w)
       ELSE deaths' = deaths + 1 /\ UNCHANGED process
    /\ UNCHANGED <<pc, next, stop_event, restart_in>>

(* An import fails, the consumer raises, the system kills it.              *)
WorkerDies(w) ==
    /\ process[w] = "alive"
    /\ deaths < MaxDeaths
    /\ Dies(w)
    /\ UNCHANGED <<pc, next, stop_event, attempts, restart_in>>

-----------------------------------------------------------------------------
(* The launcher.                                                           *)

Spawn(w) ==
    /\ process' = [process EXCEPT ![w] = "alive"]
    /\ attempts' = [attempts EXCEPT ![w] = 0]

(* The workers are started one by one, outside the try statement.          *)
Launch ==
    /\ pc = "launch"
    /\ Spawn(next)
    /\ next' = next + 1
    /\ pc' = IF next = Count THEN "handlers" ELSE "launch"
    /\ UNCHANGED <<stop_event, restart_in, deaths>>

(* process.start() raises: main ends without stop_workers.                 *)
LaunchFails ==
    /\ pc = "launch"
    /\ deaths < MaxDeaths
    /\ deaths' = deaths + 1
    /\ pc' = "aborted"
    /\ UNCHANGED <<next, stop_event, process, attempts, restart_in>>

(* A signal that arrives before the handlers are set ends the launcher     *)
(* where it is; nobody stops the workers it has started.                   *)
KilledEarly ==
    /\ pc \in {"launch", "handlers"}
    /\ pc' = "aborted"
    /\ UNCHANGED <<next, stop_event, process, attempts, restart_in, deaths>>

InstallHandlers ==
    /\ pc = "handlers"
    /\ pc' = "wait"
    /\ UNCHANGED <<next, stop_event, process, attempts, restart_in, deaths>>

RequestStop ==
    /\ pc \notin {"launch", "handlers", "exited", "crashed", "aborted"}
    /\ stop_event' = TRUE
    /\ UNCHANGED <<pc, next, process, attempts, restart_in, deaths>>

(* stop_event.wait(timeout=1) ends the loop, or a second or more has       *)
(* passed when the workers are looked at again.                            *)
Wake ==
    /\ pc = "wait"
    /\ next' = 1
    /\ IF stop_event
       THEN pc' = "terminate" /\ UNCHANGED restart_in
       ELSE /\ pc' = "scan"
            /\ \E elapsed \in 1 .. 2 :
                  restart_in' = [w \in Workers |->
                     IF restart_in[w] = NoRestart THEN NoRestart
                     ELSE IF restart_in[w] > elapsed THEN restart_in[w] - elapsed ELSE 0]
    /\ UNCHANGED <<stop_event, process, attempts, deaths>>

Advance == /\ next' = IF next = Count THEN 1 ELSE next + 1
           /\ pc' = IF next = Count THEN "wait" ELSE "scan"

(* Fault: a dead worker's restart is put off each time it is seen.         *)
NoticeAgain ==
    /\ pc = "scan"
    /\ process[next] # "alive"
    /\ restart_in[next] # 0
    /\ restart_in' = [restart_in EXCEPT ![next] = RestartDelay]
    /\ Advance
    /\ UNCHANGED <<stop_event, process, attempts, deaths>>

(* Fault: the delay is added to the time of the restart already planned.   *)
NoticeAdds ==
    /\ pc = "scan"
    /\ process[next] = "dead"
    /\ restart_in[next] # 0
    /\ restart_in' = [restart_in EXCEPT ![next] = @ + RestartDelay]
    /\ Advance
    /\ UNCHANGED <<stop_event, process, attempts, deaths>>

(* The worker is found dead for the first time.                            *)
Notice ==
    /\ pc = "scan"
    /\ process[next] = "dead"
    /\ restart_in[next] = NoRestart
    /\ restart_in' = [restart_in EXCEPT ![next] = RestartDelay]
    /\ Advance
    /\ UNCHANGED <<stop_event, process, attempts, deaths>>

(* It is alive, or its time has not come.                                  *)
Skip ==
    /\ pc = "scan"
    /\ process[next] = "alive" \/ restart_in[next] > 0
    /\ Advance
    /\ UNCHANGED <<stop_event, process, attempts, restart_in, deaths>>

(* Fault: restart_at is not reset after a restart.                         *)
RespawnNoReset ==
    /\ pc = "scan"
    /\ process[next] = "dead"
    /\ restart_in[next] = 0
    /\ Spawn(next)
    /\ Advance
    /\ UNCHANGED <<stop_event, restart_in, deaths>>

(* Its process object is closed and a new one takes its place.             *)
Respawn ==
    /\ pc = "scan"
    /\ process[next] = "dead"
    /\ restart_in[next] = 0
    /\ Spawn(next)
    /\ restart_in' = [restart_in EXCEPT ![next] = NoRestart]
    /\ Advance
    /\ UNCHANGED <<stop_event, deaths>>

(* start_worker raises between the close and the assignment: the finally   *)
(* clause finds the closed object in its dict.                             *)
RespawnFails ==
    /\ pc = "scan"
    /\ process[next] = "dead"
    /\ restart_in[next] = 0
    /\ deaths < MaxDeaths
    /\ deaths' = deaths + 1
    /\ process' = [process EXCEPT ![next] = "closed"]
    /\ pc' = "terminate"
    /\ next' = 1
    /\ UNCHANGED <<stop_event, attempts, restart_in>>

(* stop_workers, first loop: is_alive() raises ValueError on a closed      *)
(* object; SIGTERM ends a live worker, unless it is stuck.                 *)
Terminate ==
    /\ pc = "terminate"
    /\ IF process[next] = "closed"
       THEN pc' = "crashed" /\ UNCHANGED <<next, process>>
       ELSE /\ \/ process' = [process EXCEPT ![next] = "dead"]
               \/ process[next] = "alive" /\ UNCHANGED process
            /\ next' = IF next = Count THEN 1 ELSE next + 1
            /\ pc' = IF next = Count THEN "join" ELSE "terminate"
    /\ UNCHANGED <<stop_event, attempts, restart_in, deaths>>

(* Fault: a worker that did not stop in time is left alone.                *)
JoinNoKill ==
    /\ pc = "join"
    /\ next' = IF next = Count THEN 1 ELSE next + 1
    /\ pc' = IF next = Count THEN "exited" ELSE "join"
    /\ UNCHANGED <<stop_event, process, attempts, restart_in, deaths>>

(* Fault: join without a timeout.                                          *)
JoinForever ==
    /\ pc = "join"
    /\ process[next] = "dead"
    /\ process' = [process EXCEPT ![next] = "closed"]
    /\ next' = IF next = Count THEN 1 ELSE next + 1
    /\ pc' = IF next = Count THEN "exited" ELSE "join"
    /\ UNCHANGED <<stop_event, attempts, restart_in, deaths>>

(* Second loop: join for 15 seconds, kill, close.                          *)
Join ==
    /\ pc = "join"
    /\ process' = [process EXCEPT ![next] = "closed"]
    /\ next' = IF next = Count THEN 1 ELSE next + 1
    /\ pc' = IF next = Count THEN "exited" ELSE "join"
    /\ UNCHANGED <<stop_event, attempts, restart_in, deaths>>

-----------------------------------------------------------------------------
Loop == Launch \/ InstallHandlers \/ Wake \/ Notice \/ Skip \/ Respawn \/ Terminate \/ Join

Next ==
    \/ Loop
    \/ LaunchFails \/ KilledEarly \/ RespawnFails \/ RequestStop
    \/ \E w \in Workers : Connect(w) \/ ConnectFails(w) \/ WorkerDies(w)

Spec == Init /\ [][Next]_vars

(* The launcher's loop runs on, and a worker that can reach Kafka in the   *)
(* end does.  Nobody has to ask for a stop.                                *)
FairSpec ==
    /\ Spec
    /\ WF_vars(Loop)
    /\ \A w \in Workers : WF_vars(Connect(w))

-----------------------------------------------------------------------------
(* Properties.                                                             *)

(* A pending restart belongs to a worker that is dead: no restart is left  *)
(* over from an earlier death, which would replace the next dead worker at *)
(* once or close a live one (start_consumers.py:112-125).                  *)
RestartsAreForTheDead ==
    \A w \in Workers : restart_in[w] # NoRestart => process[w] \in {"dead", "closed"}

(* A launcher that ends by itself has left no worker alive, also none that *)
(* it restarted or that died while the stop was requested, and none that   *)
(* ignored SIGTERM (start_consumers.py:58-69).                             *)
ExitLeavesNoWorker ==
    pc = "exited" => \A w \in Workers : process[w] # "alive"

(* "Stop all running consumers and wait for their processes to exit"       *)
(* (start_consumers.py:57): no worker is alive when stop_workers is left,  *)
(* normally or by an exception.                                            *)
NoWorkerLeft ==
    pc \in {"exited", "crashed"} => \A w \in Workers : process[w] # "alive"

Ending == stop_event \/ pc \in {"terminate", "join", "exited", "crashed", "aborted"}

(* A worker that dies is polling again, whatever the other workers do in   *)
(* the same second and however often it fails to connect, unless the       *)
(* launcher itself ends (start_consumers.py:106-125).                      *)
WorkersComeBack ==
    \A w \in Workers :
        (process[w] = "dead") ~> (Ending \/ (process[w] = "alive" /\ attempts[w] = Polling))

(* A stop that was asked for ends, although workers ignore SIGTERM and     *)
(* although restarts are pending (start_consumers.py:63-69, 106).  It ends *)
(* with main: by its return, or by the exception of a closed process (see  *)
(* NoWorkerLeft), after which the interpreter would still wait for the     *)
(* children that are left.  That wait is no code of the launcher.          *)
StopsEnd == stop_event ~> (pc \in {"exited", "crashed"})
=============================================================================

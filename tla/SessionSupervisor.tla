-------------------------- MODULE SessionSupervisor --------------------------
(***************************************************************************)
(* The processes that work for a task: the command that launches it        *)
(* (session_actions.execute), its supervisor (session_supervisor), the     *)
(* execution runner (session_runner, eoh_frozen/__main__.cmd_run) and the  *)
(* EoH worker (eoh_frozen/worker), with the watchdogs that end a child     *)
(* whose parent has died (eval_worker._watch_parent).                      *)
(*                                                                         *)
(* Each step is one database transaction or one system call of the code;   *)
(* between any two of them every process can die.                          *)
(***************************************************************************)
EXTENDS SessionLedger

(* A dead process has lost its local variables: the runner the request its *)
(* bridge forwards, either process the evaluation it runs.                 *)
ForgetLocal ==
  /\ inflight'   = [t \in Tasks |-> IF runner'[t] = "working" THEN inflight[t] ELSE NoId]
  /\ evaluating' = [t \in Tasks |->
       IF worker'[t] = "alive" \/ (worker'[t] = "none" /\ runner'[t] = "working")
       THEN evaluating[t] ELSE NoId]

(* ExecutionTree.terminate: a Windows Job ends every descendant.  A POSIX  *)
(* group does not hold the worker, which _start_worker puts in a session   *)
(* of its own.                                                             *)
TreeKill(t) ==
  /\ runner' = [runner EXCEPT ![t] = IF @ \in RunnerAlive THEN "dead" ELSE @]
  /\ worker' = [worker EXCEPT ![t] = IF JobObject /\ @ = "alive" THEN "dead" ELSE @]
  /\ ForgetLocal

(* Fault: what is left of the tree when the supervisor ends stays alive. *)
TreeLeft(t) == UNCHANGED <<runner, worker, local>>

(* ExecutionTree.close with the terminate that precedes it in the finally  *)
(* clause; JOB_OBJECT_LIMIT_KILL_ON_JOB_CLOSE makes the operating system   *)
(* do the same when the supervisor dies.                                   *)
TreeClose(t) == TreeKill(t)

-----------------------------------------------------------------------------
(* The launching command.                                                  *)

Launch(t) ==
  /\ sup[t] = "launching"
  /\ sup' = [sup EXCEPT ![t] = "spawned"]
  /\ UNCHANGED <<control, ledgers, supReason, runner, worker, local>>

(* Popen failed: the command itself calls mark_terminal. *)
LaunchFails(t) ==
  /\ sup[t] = "launching"
  /\ sup' = [sup EXCEPT ![t] = "marking"]
  /\ supReason' = [supReason EXCEPT ![t] = "FAILED"]
  /\ UNCHANGED <<control, ledgers, runner, worker, local>>

-----------------------------------------------------------------------------
(* The supervisor.                                                         *)

(* A supervisor that finds its task stopped, or the run no longer running, *)
(* leaves without touching either: it does not own the task.               *)
MayOwn(t) == tasks[t].state = "STARTING" /\ runState = "RUNNING"

Own(t) ==
  /\ sup[t] = "spawned"
  /\ MayOwn(t)
  /\ tasks' = [tasks EXCEPT ![t] = [@ EXCEPT !.state = "RUNNING", !.proc = "supervisor"]]
  /\ sup' = [sup EXCEPT ![t] = "owner"]
  /\ UNCHANGED <<runState, activeRound, rounds, ledgers, supReason, runner, worker, local>>

NotOwned(t) ==
  /\ sup[t] = "spawned"
  /\ ~MayOwn(t)
  /\ sup' = [sup EXCEPT ![t] = "gone"]
  /\ UNCHANGED <<control, ledgers, supReason, runner, worker, local>>

(* A frozen file does not verify: the transaction is rolled back and the   *)
(* finally clause marks the task FAILED.                                   *)
OwnFails(t) ==
  /\ sup[t] = "spawned"
  /\ MayOwn(t)
  /\ sup' = [sup EXCEPT ![t] = "closing"]
  /\ supReason' = [supReason EXCEPT ![t] = "FAILED"]
  /\ UNCHANGED <<control, ledgers, runner, worker, local>>

(* Popen of the runner, which waits for a line on its standard input. *)
SpawnRunner(t) ==
  /\ sup[t] = "owner"
  /\ sup' = [sup EXCEPT ![t] = "started"]
  /\ runner' = [runner EXCEPT ![t] = "waiting"]
  /\ UNCHANGED <<control, ledgers, supReason, worker, local>>

(* Fault: the launch of the runner is not taken for an external effect. *)
LaunchUnmarked(t) == FALSE

(* A stop that came first leaves the task without an effect. *)
LaunchMarks(t) == tasks[t].state = "RUNNING" /\ runState = "RUNNING"
MarkedBy(t) == IF LaunchMarks(t) THEN TRUE ELSE tasks[t].effect

(* The runner's process id is durable before it may start: the launch      *)
(* receipt, and the first external effect.                                 *)
RegisterRunner(t) ==
  /\ sup[t] = "started"
  /\ sup' = [sup EXCEPT ![t] = "registered"]
  /\ tasks' = [tasks EXCEPT ![t] =
                            [@ EXCEPT !.proc = "runner", !.effect = MarkedBy(t)]]
  /\ rounds' = IF LaunchMarks(t)
               THEN [rounds EXCEPT ![tasks[t].round].state = "EXECUTING"] ELSE rounds
  /\ UNCHANGED <<runState, activeRound, ledgers, supReason, runner, worker, local>>

(* runner.stdin.write(b"go\n") *)
Release(t) ==
  /\ sup[t] = "registered" /\ runner[t] = "waiting"
  /\ sup' = [sup EXCEPT ![t] = "monitoring"]
  /\ runner' = [runner EXCEPT ![t] = "released"]
  /\ UNCHANGED <<control, ledgers, supReason, worker, local>>

(* Any exception: Popen, the database, a broken pipe, a tree that does not *)
(* end.                                                                    *)
SupervisorFails(t) ==
  /\ sup[t] \in {"owner", "started", "registered", "monitoring"}
  /\ sup' = [sup EXCEPT ![t] = "closing"]
  /\ supReason' = [supReason EXCEPT ![t] = "FAILED"]
  /\ UNCHANGED <<control, ledgers, runner, worker, local>>

(* monitor_runner: the hard deadline, or a task that is not RUNNING any    *)
(* more; the tree is ended and the runner is reaped.                       *)
MonitorKill(t, reason) ==
  /\ sup[t] = "monitoring" /\ runner[t] \in RunnerAlive
  /\ reason = "CANCELLED" => tasks[t].state # "RUNNING"
  /\ sup' = [sup EXCEPT ![t] = "closing"]
  /\ supReason' = [supReason EXCEPT ![t] = reason]
  /\ TreeKill(t)
  /\ UNCHANGED <<control, ledgers>>

(* ... or the runner has exited, with or without an error. *)
RunnerExited(t) ==
  /\ sup[t] = "monitoring" /\ runner[t] \in {"done", "early", "dead"}
  /\ sup' = [sup EXCEPT ![t] = IF runner[t] = "dead" THEN "closing" ELSE "summary"]
  /\ supReason' = [supReason EXCEPT ![t] = "FAILED"]
  /\ UNCHANGED <<control, ledgers, runner, worker, local>>

(* A stop is looked for again, but a busy database hides it (stop_requested *)
(* gives up after 50 ms); a runner that left early has no summary.          *)
ReadSummary(t, reason) ==
  /\ sup[t] = "summary"
  /\ \/ runner[t] = "early" /\ reason = "FAILED"
     \/ runner[t] = "done" /\ reason \in SummaryReasons \cup {"FAILED"}
     \/ tasks[t].state # "RUNNING" /\ reason = "CANCELLED"
  /\ sup' = [sup EXCEPT ![t] = "closing"]
  /\ supReason' = [supReason EXCEPT ![t] = reason]
  /\ UNCHANGED <<control, ledgers, runner, worker, local>>

(* The finally clause: what is left of the tree is ended first ... *)
Close(t) ==
  /\ sup[t] = "closing"
  /\ sup' = [sup EXCEPT ![t] = "marking"]
  /\ TreeClose(t)
  /\ UNCHANGED <<control, ledgers, supReason>>

(* ... and then mark_terminal settles the ledgers and the task in one      *)
(* transaction, unless somebody has.                                       *)
MarkTerminal(t) ==
  /\ sup[t] = "marking"
  /\ sup' = [sup EXCEPT ![t] = "gone"]
  /\ IF tasks[t].state \notin LiveTask
     THEN UNCHANGED <<tasks, requests, solverCalls>>
     ELSE /\ tasks' = [tasks EXCEPT ![t] = [@ EXCEPT !.state = "EXITED", !.reason = supReason[t]]]
          /\ requests' = ReconciledRequests(t)
          /\ solverCalls' = ReconciledCalls(t)
  /\ supReason' = [supReason EXCEPT ![t] = "FAILED"]
  /\ UNCHANGED <<runState, activeRound, rounds, runner, worker, local>>

(* The launching command or the supervisor dies: power, kill -9, an        *)
(* exception in the finally clause.                                        *)
SupCrash(t) ==
  /\ sup[t] \notin {"none", "gone"}
  /\ sup' = [sup EXCEPT ![t] = "gone"]
  /\ supReason' = [supReason EXCEPT ![t] = "FAILED"]
  /\ IF JobObject THEN TreeClose(t) ELSE UNCHANGED <<runner, worker, local>>
  /\ UNCHANGED <<control, ledgers>>

(* What the supervisor does when it is scheduled and does not die. *)
SupervisorWork(t) ==
  \/ Launch(t) \/ LaunchFails(t)
  \/ Own(t) \/ NotOwned(t) \/ OwnFails(t)
  \/ SpawnRunner(t) \/ RegisterRunner(t) \/ Release(t) \/ SupervisorFails(t)
  \/ \E reason \in {"DEADLINE_EXCEEDED", "CANCELLED"} : MonitorKill(t, reason)
  \/ RunnerExited(t)
  \/ \E reason \in TerminalReasons : ReadSummary(t, reason)
  \/ Close(t) \/ MarkTerminal(t)

-----------------------------------------------------------------------------
(* The execution runner.                                                   *)

(* execute_task reads both states once, before anything else. *)
RunnerStart(t) ==
  /\ runner[t] = "released"
  /\ runner' = [runner EXCEPT ![t] =
       IF tasks[t].state = "RUNNING" /\ runState = "RUNNING" THEN "working" ELSE "early"]
  /\ UNCHANGED <<control, ledgers, sup, supReason, worker, local>>

(* The pipe of a dead supervisor reads as end of file. *)
RunnerEOF(t) ==
  /\ runner[t] = "waiting" /\ sup[t] = "gone"
  /\ runner' = [runner EXCEPT ![t] = "early"]
  /\ UNCHANGED <<control, ledgers, sup, supReason, worker, local>>

RunnerDies(t) ==
  /\ runner[t] \in RunnerAlive
  /\ runner' = [runner EXCEPT ![t] = "dead"]
  /\ UNCHANGED <<control, ledgers, sup, supReason, worker>>
  /\ ForgetLocal

(* Fault: the runner does not watch its supervisor. *)
RunnerUnwatched(t) == FALSE

(* _watch_parent of the runner; a supervisor's watchdog thread starts with it. *)
RunnerWatchdog(t) == sup[t] = "gone" /\ RunnerDies(t)

RunnerCrash(t) == sup[t] # "gone" /\ RunnerDies(t)

(* The baseline and the parent have been evaluated; EoH runs in a process  *)
(* of its own.                                                             *)
StartWorker(t) ==
  /\ runner[t] = "working" /\ worker[t] = "none" /\ evaluating[t] = NoId
  /\ worker' = [worker EXCEPT ![t] = "alive"]
  /\ UNCHANGED <<control, ledgers, sup, supReason, runner, local>>

WorkerDies(t) ==
  /\ worker[t] = "alive"
  /\ worker' = [worker EXCEPT ![t] = "dead"]
  /\ UNCHANGED <<control, ledgers, sup, supReason, runner>>
  /\ ForgetLocal

(* The worker ends by itself, crashes or is ended by cmd_run ... *)
WorkerExit(t) == runner[t] = "working" /\ WorkerDies(t)

(* Fault: the worker does not watch the runner. *)
WorkerUnwatched(t) == FALSE

(* ... or sees, within half a second, that its parent has died. *)
WorkerWatchdog(t) == runner[t] \notin RunnerAlive /\ WorkerDies(t)

(* cmd_run has no worker left when it writes the summary and returns. *)
RunnerFinish(t) ==
  /\ runner[t] = "working" /\ worker[t] # "alive"
  /\ runner' = [runner EXCEPT ![t] = "done"]
  /\ UNCHANGED <<control, ledgers, sup, supReason, worker>>
  /\ ForgetLocal

RunnerWork(t) ==
  \/ RunnerStart(t) \/ RunnerEOF(t) \/ RunnerWatchdog(t) \/ RunnerCrash(t)
  \/ StartWorker(t) \/ WorkerExit(t) \/ WorkerWatchdog(t) \/ RunnerFinish(t)

ProcessStep(t) == SupervisorWork(t) \/ SupCrash(t) \/ RunnerWork(t) \/ LedgerStep(t)

=============================================================================

--------------------------- MODULE SessionActions ---------------------------
(***************************************************************************)
(* The Agent's operations on a Session (session_actions.py, stop_session,  *)
(* recover_dead_task, commit_pending): each is one BEGIN IMMEDIATE         *)
(* transaction, so one step.  Operation ids and state versions, which      *)
(* decide whether a call reaches its transaction body at all, are the      *)
(* subject of module Operations.                                           *)
(***************************************************************************)
EXTENDS SessionSupervisor

Active == rounds[activeRound]

(* require_state *)
RequireState(state) == runState = "RUNNING" /\ Active.state = state

SubmitPlan ==
  /\ RequireState("WAITING_FOR_PLAN")
  /\ rounds' = [rounds EXCEPT ![activeRound].state = "READY_TO_EXECUTE"]
  /\ UNCHANGED <<runState, activeRound, tasks, ledgers, procs, local>>

-----------------------------------------------------------------------------
(* execute                                                                 *)

EffectfulTaskExists(r) == \E t \in TasksOf(r) : tasks[t].effect

(* _prepare_population_seeds: every round but the first of population_seeds *)
(* must find its seeds.                                                     *)
Seeded(r) == Inheritance = "explicit_seeds" \/ (Inheritance = "population_seeds" /\ r > 1)

(* _known_solver_attempts: the baseline, and the seeds or, with an         *)
(* incumbent, its check and its evaluation as official EoH's seed.         *)
KnownAttempts(r) ==
  1 + IF Seeded(r) THEN PopSize
      ELSE IF Inheritance = "incumbent_only" /\ rounds[r].before THEN 2 ELSE 0

AttemptsFit(r) ==
  /\ Cardinality(CallsUsedIn(r)) + KnownAttempts(r) <= RoundBudget
  /\ Cardinality(CallsUsed) + KnownAttempts(r) <= MaxSolverCalls

(* What has to hold before execute looks at seeds and attempts; a call     *)
(* that fails it changes nothing.                                          *)
MayExecute ==
  /\ RequireState("READY_TO_EXECUTE")
  /\ ~LiveTaskExists(activeRound) /\ ~EffectfulTaskExists(activeRound)
  /\ Cardinality(RequestsUsed) < MaxRequests
  /\ Cardinality(CallsUsed) < MaxSolverCalls
  /\ RoundMaxRequests # 0

(* The task row is committed here; its supervisor is launched afterwards,  *)
(* by the same command (Launch).                                           *)
Execute(t) ==
  /\ MayExecute /\ AttemptsFit(activeRound)
  /\ tasks[t].state = "none"
  /\ tasks' = [tasks EXCEPT ![t] = [NoTaskRow EXCEPT !.state = "STARTING", !.round = activeRound]]
  /\ rounds' = [rounds EXCEPT ![activeRound].task = t]
  /\ sup' = [sup EXCEPT ![t] = "launching"]
  /\ UNCHANGED <<runState, activeRound, ledgers, supReason, runner, worker, local>>

(* The seeds are missing, too few or changed, or the known attempts do not *)
(* fit: round and run end as FAILED.                                       *)
ExecuteRefused ==
  /\ MayExecute
  /\ Seeded(activeRound) \/ ~AttemptsFit(activeRound)
  /\ runState' = "FAILED"
  /\ rounds' = [rounds EXCEPT ![activeRound].state = "FAILED"]
  /\ UNCHANGED <<activeRound, tasks, ledgers, procs, local>>

-----------------------------------------------------------------------------
(* collect and the recovery of dead tasks                                  *)

(* Fault: the runner's process id is not looked up. *)
SupervisorSeemsDead(t) ==
  /\ tasks[t].state \in LiveTask
  /\ tasks[t].proc # "none" => sup[t] = "gone"

(* Fault: a task whose supervisor never wrote its process id is waited for. *)
RegisteredSeemsDead(t) ==
  /\ tasks[t].state \in LiveTask
  /\ tasks[t].proc # "none" /\ sup[t] = "gone"
  /\ tasks[t].proc = "runner" => runner[t] \notin RunnerAlive

(* recover_dead_task: every process id the database knows is dead.  While  *)
(* it knows none, thirty seconds have to pass; how long that is compared   *)
(* with a slow launch is left open.                                        *)
SeemsDead(t) ==
  /\ tasks[t].state \in LiveTask
  /\ tasks[t].proc # "none" => sup[t] = "gone"
  /\ tasks[t].proc = "runner" => runner[t] \notin RunnerAlive

(* The first collect that finds the task dead only notes the time ... *)
ObserveDead(t) ==
  /\ Active.task = t /\ SeemsDead(t) /\ tasks[t].heartbeat = "none"
  /\ tasks' = [tasks EXCEPT ![t].heartbeat = "fresh"]
  /\ UNCHANGED <<runState, activeRound, rounds, ledgers, procs, local>>

(* ... two seconds pass, in which the half-second watchdog of a worker     *)
(* whose runner was dead all the time has fired ...                        *)
Age(t) ==
  /\ tasks[t].heartbeat = "fresh"
  /\ runner[t] \notin RunnerAlive => worker[t] # "alive"
  /\ tasks' = [tasks EXCEPT ![t].heartbeat = "aged"]
  /\ UNCHANGED <<runState, activeRound, rounds, ledgers, procs, local>>

(* ... and a later collect may settle the task as UNKNOWN. *)
Recoverable(t) == SeemsDead(t) /\ tasks[t].heartbeat = "aged"

(* Fault: a task that had effects lets its round be executed again. *)
AfterCollectRetry(t) == IF runState = "STOPPING" THEN "STOPPED" ELSE "READY_TO_EXECUTE"

(* Fault: the round is given the state of the stopping run. *)
AfterCollectCopied(t) ==
  IF runState = "STOPPING" THEN runState
  ELSE IF tasks[t].effect THEN "WAITING_FOR_EVALUATION" ELSE "READY_TO_EXECUTE"

(* The round goes on where the task allows it, or ends with a stopping run. *)
AfterCollect(t) ==
  IF runState = "STOPPING" THEN "STOPPED"
  ELSE IF tasks[t].effect THEN "WAITING_FOR_EVALUATION" ELSE "READY_TO_EXECUTE"

(* Fault: a round that improves nothing ends without an incumbent. *)
IncumbentReplaced(t, found) == found

(* collect_facts: a valid evaluation of the task may beat the incumbent,   *)
(* which is otherwise kept.                                                *)
IncumbentAfter(t, found) == Active.before \/ found

CanImprove(t) == \E c \in SolverCalls : solverCalls[c].task = t /\ solverCalls[c].log = "valid"

(* A task that had not EXITED is settled as UNKNOWN by the same transaction. *)
Recovered(t) == tasks[t].state # "EXITED"
CollectedRow(t) == [tasks[t] EXCEPT !.state = "COLLECTED",
                                    !.reason = IF Recovered(t) THEN "UNKNOWN" ELSE @]

Collect(t, found) ==
  /\ Active.task = t
  /\ tasks[t].state = "EXITED" \/ Recoverable(t)
  /\ found => CanImprove(t)
  /\ tasks' = [tasks EXCEPT ![t] = CollectedRow(t)]
  /\ requests' = IF Recovered(t) THEN ReconciledRequests(t) ELSE requests
  /\ solverCalls' = EvidenceApplied(IF Recovered(t) THEN ReconciledCalls(t) ELSE solverCalls, t)
  /\ rounds' = [rounds EXCEPT ![activeRound] =
                 [@ EXCEPT !.state = AfterCollect(t), !.after = IncumbentAfter(t, found)]]
  /\ runState' = IF runState = "STOPPING" THEN "STOPPED" ELSE runState
  /\ UNCHANGED <<activeRound, procs, local>>

-----------------------------------------------------------------------------
(* Evaluation and the publication of what was learnt                       *)

SubmitEvaluation(memory) ==
  /\ RequireState("WAITING_FOR_EVALUATION")
  /\ memory \in IF MemoryEnabled THEN {"proposed", "none"} ELSE {"disabled"}
  /\ rounds' = [rounds EXCEPT ![activeRound] =
                 [@ EXCEPT !.state = "READY_TO_FINISH", !.memory = memory]]
  /\ UNCHANGED <<runState, activeRound, tasks, ledgers, procs, local>>

MemoryRevise ==
  /\ RequireState("READY_TO_FINISH")
  /\ Active.memory \in {"failed", "rejected"}
  /\ rounds' = [rounds EXCEPT ![activeRound].memory = "proposed"]
  /\ UNCHANGED <<runState, activeRound, tasks, ledgers, procs, local>>

(* commit_pending works outside the transaction of the operation, and does *)
(* not look at the state of the run: a concurrent stop may come first.     *)
CommitMemory(r, status) ==
  /\ \/ rounds[r].memory \in MemoryPending /\ status \in {"accepted", "rejected"}
     \/ rounds[r].memory = "accepted" /\ status \in {"published", "failed"}
  /\ rounds' = [rounds EXCEPT ![r].memory = status]
  /\ UNCHANGED <<runState, activeRound, tasks, ledgers, procs, local>>

-----------------------------------------------------------------------------
(* finish-round and stop                                                   *)

(* Fault: a publication in progress does not hold the round back. *)
MayFinishAnyway == RequireState("READY_TO_FINISH")

MayFinish == RequireState("READY_TO_FINISH") /\ Active.memory \notin MemoryPending

(* Fault: the next round starts from what this one started with. *)
StaleRoundRow == [NoRoundRow EXCEPT !.state = "WAITING_FOR_PLAN",
                                    !.before = Active.before, !.after = Active.before]

(* The next round starts from what this one ended with. *)
NextRoundRow == [NoRoundRow EXCEPT !.state = "WAITING_FOR_PLAN",
                                   !.before = Active.after, !.after = Active.after]

ResourcesForNextRound ==
  /\ \A t \in Tasks : tasks[t].reason \notin BlocksContinue
  /\ RoundMaxRequests # 0
  /\ Cardinality(RequestsUsed) < MaxRequests
  /\ Cardinality(CallsUsed) < MaxSolverCalls

FinishContinue ==
  /\ MayFinish
  /\ activeRound < MaxRounds
  /\ ResourcesForNextRound
  /\ rounds' = [rounds EXCEPT ![activeRound].state = "ROUND_COMPLETED",
                              ![activeRound + 1] = NextRoundRow]
  /\ activeRound' = activeRound + 1
  /\ UNCHANGED <<runState, tasks, ledgers, procs, local>>

FinishComplete ==
  /\ MayFinish
  /\ rounds' = [rounds EXCEPT ![activeRound].state = "ROUND_COMPLETED"]
  /\ runState' = "COMPLETED"
  /\ UNCHANGED <<activeRound, tasks, ledgers, procs, local>>

(* Fault: a task that has not been collected does not delay the stop. *)
NeverDrain == FALSE

(* stop_session looks for a task that has not been collected, live or not. *)
MustDrain == \E t \in TasksOf(activeRound) : tasks[t].state # "COLLECTED"

(* Fault: a run that has ended may be stopped once more. *)
MayStopAgain == runState # "STOPPING"

MayStop == runState = "RUNNING"

Stop ==
  /\ MayStop
  /\ IF MustDrain
     THEN /\ runState' = "STOPPING"
          /\ tasks' = [t \in Tasks |->
               IF t \in TasksOf(activeRound) /\ tasks[t].state \in {"STARTING", "RUNNING"}
               THEN [tasks[t] EXCEPT !.state = "STOP_REQUESTED"] ELSE tasks[t]]
          /\ UNCHANGED rounds
     ELSE /\ runState' = "STOPPED"
          /\ rounds' = [rounds EXCEPT ![activeRound].state = "STOPPED"]
          /\ UNCHANGED tasks
  /\ UNCHANGED <<activeRound, ledgers, procs, local>>

(* A collect that finds a dead task, or an exited one. *)
CollectStep ==
  \E t \in Tasks :
    \/ ObserveDead(t)
    \/ Age(t)
    \/ \E found \in BOOLEAN : Collect(t, found)

AgentStep ==
  \/ SubmitPlan
  \/ \E t \in Tasks : Execute(t)
  \/ ExecuteRefused
  \/ CollectStep
  \/ \E memory \in {"proposed", "none", "disabled"} : SubmitEvaluation(memory)
  \/ MemoryRevise
  \/ \E r \in Rounds, status \in {"accepted", "rejected", "published", "failed"} :
       CommitMemory(r, status)
  \/ FinishContinue \/ FinishComplete
  \/ Stop

=============================================================================

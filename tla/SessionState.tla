---------------------------- MODULE SessionState ----------------------------
(***************************************************************************)
(* The durable and the volatile state of one optimization Session.         *)
(*                                                                         *)
(* Durable: one SQLite database per run (session_runtime._create_schema).  *)
(* Its tables are functions from row identifiers to rows; an identifier    *)
(* whose row does not exist yet has state "none".                          *)
(*                                                                         *)
(* Volatile: for every task, the processes that work for it: the command   *)
(* line process that launches it, the supervisor, the execution runner and *)
(* the EoH worker.                                                         *)
(***************************************************************************)
EXTENDS Naturals, FiniteSets

CONSTANTS
  Tasks,             (* task ids; a fresh one is drawn by every launch       *)
  Requests,          (* provider request ids                                 *)
  SolverCalls,       (* solver call ids (one per evaluation)                 *)
  NoId,              (* SQL NULL, for columns and fields that hold an id     *)
  MaxRounds,         (* runs.max_rounds                                      *)
  MaxRequests,       (* runs.eoh_max_requests                                *)
  RoundMaxRequests,  (* runs.eoh_round_max_requests                          *)
  MaxSolverCalls,    (* runs.max_solver_calls                                *)
  RoundBudget,       (* runs.round_budget, solver calls per round            *)
  Inheritance,       (* runs.inheritance_mode                                *)
  PopSize,           (* search policy pop_size: seeds a seeded round loads   *)
  MemoryEnabled,     (* runs.memory_enabled                                  *)
  SummaryReasons,    (* terminal reasons the runner's summary may map to     *)
  JobObject          (* TRUE: Windows Job owns the whole tree; FALSE: POSIX  *)
                     (* groups, where the worker is in a session of its own  *)

-----------------------------------------------------------------------------
RunStates   == {"RUNNING", "STOPPING", "COMPLETED", "STOPPED", "FAILED"}

RoundStates == {"WAITING_FOR_PLAN", "READY_TO_EXECUTE", "EXECUTING",
                "WAITING_FOR_EVALUATION", "READY_TO_FINISH",
                "ROUND_COMPLETED", "STOPPED", "FAILED"}

(* CREATED is in the schema but no code inserts a row in that state. *)
LiveTask   == {"STARTING", "RUNNING", "STOP_REQUESTED"}
TaskStates == LiveTask \cup {"EXITED", "COLLECTED"}

OpenRequest   == {"reserved", "sent"}
ClosedRequest == {"complete", "failed", "unknown"}
CallStates    == {"started", "complete", "failed", "interrupted"}

MemoryPending == {"proposed", "accepted"}
MemoryStates  == MemoryPending \cup {"null", "none", "disabled", "published", "failed", "rejected"}

(* What the supervisor makes of a runner that exited with a summary. *)
SummaryReason == {"SUCCEEDED", "FAILED", "DEADLINE_EXCEEDED",
                  "PROVIDER_TERMINAL", "STARTUP_FAILED", "EVIDENCE_STORAGE_FAILED",
                  "ROUND_BUDGET_EXHAUSTED", "SOLVER_BUDGET_EXHAUSTED",
                  "PHASE_BUDGET_EXHAUSTED", "REQUEST_BUDGET_EXHAUSTED"}
TerminalReasons == SummaryReason \cup {"CANCELLED", "UNKNOWN"}

(* A task that ended this way forbids another round. *)
BlocksContinue == {"PROVIDER_TERMINAL", "UNKNOWN", "STARTUP_FAILED",
                   "EVIDENCE_STORAGE_FAILED", "PHASE_BUDGET_EXHAUSTED"}

Rounds == 1 .. MaxRounds

ASSUME ConstantsAssumption ==
  /\ NoId \notin Tasks \cup Requests \cup SolverCalls
  /\ MaxRounds \in Nat \ {0}
  /\ MaxRequests \in Nat /\ RoundMaxRequests \in Nat
  /\ MaxSolverCalls \in Nat /\ RoundBudget \in Nat
  /\ Inheritance \in {"incumbent_only", "population_seeds", "explicit_seeds"}
  /\ PopSize \in Nat
  /\ SummaryReasons \subseteq SummaryReason
  /\ MemoryEnabled \in BOOLEAN /\ JobObject \in BOOLEAN

(* A database holds finitely many rows. *)
ASSUME FiniteLedgers == IsFiniteSet(Requests) /\ IsFiniteSet(SolverCalls)

-----------------------------------------------------------------------------
VARIABLES
  runState,      (* runs.state                                             *)
  activeRound,   (* runs.active_round_id                                   *)
  rounds,        (* table rounds                                           *)
  tasks,         (* table tasks, with the process ids of task_processes    *)
  requests,      (* table requests                                         *)
  solverCalls,   (* table solver_calls, with the row of evaluations.jsonl  *)
  sup,           (* where the launcher / supervisor of a task stands       *)
  supReason,     (* the local variable reason of _run_task                 *)
  runner,        (* the execution runner process of a task                 *)
  worker,        (* the EoH worker process tree of a task                  *)
  inflight,      (* the request slot the runner's bridge is forwarding     *)
  evaluating     (* the evaluation a process of the task is running        *)

control == <<runState, activeRound, rounds, tasks>>
ledgers == <<requests, solverCalls>>
procs   == <<sup, supReason, runner, worker>>
local   == <<inflight, evaluating>>
vars    == <<control, ledgers, procs, local>>

(* proc: "none" while process_id is NULL, "supervisor" once it is set,     *)
(* "runner" once task_processes has the runner's row too.                  *)
(* heartbeat: NULL, or the time of a first observation of death, which is  *)
(* "aged" once the two seconds recover_dead_task asks for have passed.     *)
TaskRow  == [state : TaskStates \cup {"none"}, round : Nat, effect : BOOLEAN,
             reason : TerminalReasons \cup {"none"},
             proc : {"none", "supervisor", "runner"},
             heartbeat : {"none", "fresh", "aged"}]
RoundRow == [state : RoundStates \cup {"none"}, task : Tasks \cup {NoId},
             memory : MemoryStates, before : BOOLEAN, after : BOOLEAN]
RequestRow == [state : OpenRequest \cup ClosedRequest \cup {"none"},
               task : Tasks \cup {NoId}]
(* log: whether evaluations.jsonl has the finished row, and its verdict. *)
CallRow  == [state : CallStates \cup {"none"}, task : Tasks \cup {NoId},
             log : {"none", "valid", "invalid"}]

SupStates == {"none", "launching", "spawned", "owner", "started", "registered",
              "monitoring", "summary", "closing", "marking", "gone"}
RunnerAlive  == {"waiting", "released", "working"}
RunnerStates == RunnerAlive \cup {"none", "early", "done", "dead"}

NoTaskRow  == [state |-> "none", round |-> 0, effect |-> FALSE, reason |-> "none",
               proc |-> "none", heartbeat |-> "none"]
NoRoundRow == [state |-> "none", task |-> NoId, memory |-> "null",
               before |-> FALSE, after |-> FALSE]

(* The rows and the processes have their types. *)
TypeOK ==
  /\ runState \in RunStates
  /\ activeRound \in Rounds
  /\ rounds \in [Rounds -> RoundRow]
  /\ tasks \in [Tasks -> TaskRow]
  /\ requests \in [Requests -> RequestRow]
  /\ solverCalls \in [SolverCalls -> CallRow]
  /\ sup \in [Tasks -> SupStates]
  /\ supReason \in [Tasks -> TerminalReasons]
  /\ runner \in [Tasks -> RunnerStates]
  /\ worker \in [Tasks -> {"none", "alive", "dead"}]
  /\ inflight \in [Tasks -> Requests \cup {NoId}]
  /\ evaluating \in [Tasks -> SolverCalls \cup {NoId}]

-----------------------------------------------------------------------------
TasksOf(r) == {t \in Tasks : tasks[t].state # "none" /\ tasks[t].round = r}

(* Fault: execute does not look for a live task. *)
LiveTaskForgotten(r) == FALSE

(* _live_task_exists *)
LiveTaskExists(r) == \E t \in TasksOf(r) : tasks[t].state \in LiveTask

(* Fault: a request whose outcome is unknown is given back. *)
RequestsRefunded == {q \in Requests : requests[q].state \in OpenRequest \cup {"complete"}}

(* Fault: an interrupted evaluation is given back. *)
CallsRefunded == {c \in SolverCalls : solverCalls[c].state \in {"started", "complete", "failed"}}

(* _budget_view: every durable row counts, whatever became of it. *)
RequestsUsed == {q \in Requests : requests[q].state # "none"}
CallsUsed    == {c \in SolverCalls : solverCalls[c].state # "none"}
RequestsUsedIn(r) == {q \in RequestsUsed : requests[q].task \in TasksOf(r)}
CallsUsedIn(r)    == {c \in CallsUsed : solverCalls[c].task \in TasksOf(r)}

(* mark_effect: idempotent, and the only step that makes a round EXECUTING. *)
MarkEffect(t) ==
  IF tasks[t].effect
  THEN UNCHANGED <<tasks, rounds>>
  ELSE /\ tasks' = [tasks EXCEPT ![t].effect = TRUE]
       /\ rounds' = [rounds EXCEPT ![tasks[t].round].state = "EXECUTING"]

(* Fault: the open rows of a task that ends are left open. *)
RequestsLeft(t) == requests
CallsLeft(t) == solverCalls

(* The two UPDATEs every terminal transaction applies to the open rows. *)
ReconciledRequests(t) ==
  [q \in Requests |->
     IF requests[q].task = t /\ requests[q].state \in OpenRequest
     THEN [requests[q] EXCEPT !.state = "unknown"] ELSE requests[q]]
ReconciledCalls(t) ==
  [c \in SolverCalls |->
     IF solverCalls[c].task = t /\ solverCalls[c].state = "started"
     THEN [solverCalls[c] EXCEPT !.state = "interrupted"] ELSE solverCalls[c]]

(* Fault: the evidence of a call that was interrupted is not looked at. *)
EvidenceIgnored(calls, t) == calls

(* collect_facts: the finished evidence rows of the task overrule the ledger. *)
EvidenceApplied(calls, t) ==
  [c \in SolverCalls |->
     IF calls[c].task = t /\ calls[c].log # "none"
     THEN [calls[c] EXCEPT !.state = IF @ = "none" THEN @
                                     ELSE IF calls[c].log = "valid" THEN "complete" ELSE "failed"]
     ELSE calls[c]]

=============================================================================

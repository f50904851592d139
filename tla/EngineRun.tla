------------------------------ MODULE EngineRun ------------------------------
(***************************************************************************)
(* One supervised EoH run (eoh_frozen): the runner with its monitor loop   *)
(* (__main__.cmd_run), the gateway its threads serve, and the worker       *)
(* process with the bounded repair of candidates (worker, repair, problem).*)
(* The pinned EoH package is not part of the repository: it calls the      *)
(* model once to probe it and once per candidate, tries a failed call      *)
(* again, evaluates the code and goes on.                                  *)
(***************************************************************************)
EXTENDS Gateway

CONSTANTS
  Attempts,         (* times EoH makes one call                              *)
  Seeds,            (* population seeds it evaluates first                   *)
  Candidates,       (* candidates of the run                                 *)
  Bounded,          (* repair_mode = bounded                                 *)
  RepairsPerWorker  (* max_repair_requests_total of this worker              *)

ASSUME EngineAssumption ==
  /\ Attempts \in Nat \ {0} /\ {Seeds, Candidates, RepairsPerWorker} \subseteq Nat
  /\ Bounded \in BOOLEAN

VARIABLES
  worker,    (* where the worker process is                                  *)
  call,      (* the last call it made                                        *)
  attempt,   (* attempts of that call                                        *)
  seeded,    (* seeds it has evaluated                                       *)
  candidate, (* the offspring it builds                                      *)
  mended,    (* mended[k]: repair of candidate k                             *)
  fitness,   (* fitness[k]: the revision whose objective EoH sees            *)
  evidence,  (* evaluations.jsonl                                            *)
  runner,    (* where the monitor loop is                                    *)
  reason,    (* why it killed the worker                                     *)
  result     (* stop_reason of summary.json                                  *)

workerVars == <<worker, call, attempt, seeded, candidate, mended, fitness, evidence>>
runnerVars == <<runner, reason, result>>
vars == <<gatewayVars, workerVars, runnerVars>>

Exits == {"completed", "failed", "denied", "vanished", "killed"}
Alive == worker \notin Exits
Results == {"valid", "repairable", "hopeless", "lost", "cut"}

TypeOK ==
  /\ GatewayTypeOK
  /\ worker \in {"start", "listen", "evaluate", "repair", "mend", "next"} \cup Exits
  /\ call \in Calls \cup {0} /\ attempt \in 0..Attempts
  /\ seeded \in 0..Seeds /\ candidate \in 0..Candidates
  /\ mended \in [1..Candidates -> {"none", "asked", "failed", "succeeded"}]
  /\ fitness \in [1..Candidates -> {"none", "original", "repair_1"}]
  /\ evidence \subseteq [candidate : 1..Candidates, revision : {"original", "repair_1"},
                         valid : BOOLEAN, source : 0..Len(requests), from : 0..Len(requests)]
  /\ runner \in {"stop", "end", "killing", "reading", "reported"}

Init ==
  /\ GatewayInit
  /\ worker = "start" /\ call = 0 /\ attempt = 0 /\ seeded = 0 /\ candidate = 0
  /\ mended = [k \in 1..Candidates |-> "none"]
  /\ fitness = [k \in 1..Candidates |-> "none"]
  /\ evidence = {}
  /\ runner = "stop" /\ reason = "none" /\ result = "none"

-----------------------------------------------------------------------------
(* The worker.                                                             *)
StartCall(p) ==
  /\ call + 1 \in Calls
  /\ Arrive(call + 1, p)
  /\ call' = call + 1 /\ worker' = "listen"

Probe ==
  /\ worker = "start"
  /\ StartCall("probe") /\ attempt' = 1
  /\ UNCHANGED <<seeded, candidate, mended, fitness, evidence, runnerVars>>

(* The seeds are evaluated after the probe, before any generation.         *)
Seeding == worker = "next" /\ candidate = 0 /\ seeded < Seeds

NextCandidate ==
  /\ worker = "next" /\ ~Seeding /\ candidate < Candidates
  /\ StartCall("generation") /\ attempt' = 1 /\ candidate' = candidate + 1
  /\ UNCHANGED <<seeded, mended, fitness, evidence, runnerVars>>

Complete ==
  /\ worker = "next" /\ ~Seeding /\ candidate = Candidates
  /\ worker' = "completed"
  /\ UNCHANGED <<gatewayVars, call, attempt, seeded, candidate, mended, fitness, evidence,
                 runnerVars>>

Heard == worker = "listen" /\ step[call] = "done"
AfterCall == [probe |-> "next", generation |-> "evaluate", repair |-> "mend"]

Succeed ==
  /\ Heard /\ outcome[call] = "good"
  /\ worker' = AfterCall[purpose[call]]
  /\ UNCHANGED <<gatewayVars, call, attempt, seeded, candidate, mended, fitness, evidence,
                 runnerVars>>

Failed == Heard /\ outcome[call] # "good"

Retry ==
  /\ Failed /\ purpose[call] # "repair" /\ attempt < Attempts
  /\ StartCall(purpose[call]) /\ attempt' = attempt + 1
  /\ UNCHANGED <<seeded, candidate, mended, fitness, evidence, runnerVars>>

(* EoH leaves the process when it cannot reach the model at all, and goes  *)
(* on to another candidate otherwise.                                      *)
GiveUp ==
  /\ Failed /\ purpose[call] # "repair" /\ attempt = Attempts
  /\ worker' = IF purpose[call] = "probe" THEN "vanished" ELSE "next"
  /\ UNCHANGED <<gatewayVars, call, attempt, seeded, candidate, mended, fitness, evidence,
                 runnerVars>>

RepairFails ==
  /\ mended' = [mended EXCEPT ![candidate] = "failed"] /\ worker' = "next"
  /\ UNCHANGED <<call, attempt, seeded, candidate, fitness, evidence, runnerVars>>

(* A repair is asked for once.  Its local timeout is the timeout of the    *)
(* provider, so the requester may leave while the request is out; the      *)
(* other local clients wait five seconds longer.                           *)
RepairRefused == Failed /\ purpose[call] = "repair" /\ RepairFails /\ UNCHANGED gatewayVars
Abandon ==
  /\ worker = "listen" /\ purpose[call] = "repair" /\ step[call] = "sent"
  /\ RepairFails /\ UNCHANGED gatewayVars

(* FrozenProblem.evaluate_result: the start is charged to the solver       *)
(* ledger first; nothing is evaluated after the deadline.                  *)
SolverDenied == stopped \/ solverCalls >= SolverLimit

NotEvaluated ==
  /\ worker = "evaluate" \/ Seeding
  /\ late \/ SolverDenied
  /\ worker' \in {"next"} \cup (IF late THEN {} ELSE IF stopped THEN {"failed"} ELSE {"denied"})
  /\ seeded' = IF Seeding THEN seeded + 1 ELSE seeded
  /\ UNCHANGED <<gatewayVars, call, attempt, candidate, mended, fitness, evidence, runnerVars>>

(* A row takes its request from latest_exchange.json; "lost" is an         *)
(* evaluation that left no row, "cut" one whose value did not reach EoH.   *)
Row(revision, source, r) ==
  IF r = "lost" THEN {}
  ELSE {[candidate |-> candidate, revision |-> revision, valid |-> r \in {"valid", "cut"},
         source |-> source, from |-> slot[call]]}

Charged == /\ solverCalls' = solverCalls + 1
           /\ UNCHANGED <<step, purpose, slot, outcome, told, lock, terminal, lastError,
                          lastIndex, requests, posted, exchange, stopped, late>>

EvaluateSeed ==
  /\ Seeding /\ ~late /\ ~SolverDenied /\ Charged
  /\ seeded' = seeded + 1
  /\ UNCHANGED <<worker, call, attempt, candidate, mended, fitness, evidence, runnerVars>>

(* _build_offspring: an objective counts only with its own evidence, a     *)
(* failure that is on the allowlist goes to repair.                        *)
Evaluate ==
  /\ worker = "evaluate" /\ ~late /\ ~SolverDenied /\ Charged
  /\ \E r \in Results :
       /\ evidence' = evidence \cup Row("original", exchange, r)
       /\ fitness' = [fitness EXCEPT ![candidate] = IF r = "valid" THEN "original" ELSE "none"]
       /\ worker' = IF r = "repairable" /\ Bounded THEN "repair" ELSE "next"
  /\ UNCHANGED <<call, attempt, seeded, candidate, mended, runnerVars>>

Attempted == Cardinality({k \in 1..Candidates : mended[k] # "none"})

RepairSkipped ==
  /\ worker = "repair" /\ Attempted >= RepairsPerWorker
  /\ worker' = "next"
  /\ UNCHANGED <<gatewayVars, call, attempt, seeded, candidate, mended, fitness, evidence,
                 runnerVars>>

RepairTooLate ==
  /\ worker = "repair" /\ Attempted < RepairsPerWorker /\ late
  /\ RepairFails /\ UNCHANGED gatewayVars

AskRepair ==
  /\ worker = "repair" /\ Attempted < RepairsPerWorker /\ ~late
  /\ mended' = [mended EXCEPT ![candidate] = "asked"]
  /\ StartCall("repair")
  /\ UNCHANGED <<attempt, seeded, candidate, fitness, evidence, runnerVars>>

(* The answer is no repair, or the repaired code cannot be evaluated.      *)
RepairUseless == worker = "mend" /\ RepairFails /\ UNCHANGED gatewayVars

(* Fault: a repair succeeds when its evaluation did. *)
MendByRow(k, r) ==
  /\ mended' = [mended EXCEPT ![k] = IF r \in {"valid", "cut"} THEN "succeeded" ELSE "failed"]
  /\ fitness' = [fitness EXCEPT ![k] = IF r = "valid" THEN "repair_1" ELSE "none"]

(* A repair succeeds with an objective that its own evidence confirms.     *)
Mend(k, r) ==
  /\ mended' = [mended EXCEPT ![k] = IF r = "valid" THEN "succeeded" ELSE "failed"]
  /\ fitness' = [fitness EXCEPT ![k] = IF r = "valid" THEN "repair_1" ELSE "none"]

Reevaluate ==
  /\ worker = "mend" /\ ~late /\ ~SolverDenied /\ Charged
  /\ \E r \in Results :
       /\ evidence' = evidence \cup Row("repair_1", told[call], r)
       /\ Mend(candidate, r)
  /\ worker' = "next"
  /\ UNCHANGED <<call, attempt, seeded, candidate, runnerVars>>

Work ==
  \/ Probe \/ NextCandidate \/ Complete \/ Succeed \/ Retry \/ GiveUp \/ RepairRefused \/ Abandon
  \/ NotEvaluated \/ EvaluateSeed \/ Evaluate \/ RepairSkipped \/ RepairTooLate \/ AskRepair
  \/ RepairUseless \/ Reevaluate

-----------------------------------------------------------------------------
(* The runner: a loop of two looks per turn.                               *)
Verdict(t, e) == /\ terminal' = t /\ lastError' = e
                 /\ UNCHANGED <<step, purpose, slot, outcome, told, lock, lastIndex, requests,
                                posted, exchange, solverCalls, stopped, late>>

LookForStop ==
  /\ runner = "stop" /\ Alive
  /\ runner' = "end"
  /\ IF stopped THEN Verdict(TRUE, "session_stopped") ELSE UNCHANGED gatewayVars
  /\ UNCHANGED <<workerVars, reason, result>>

(* Fault: every terminal condition cancels the worker. *)
GracefulNever == FALSE
(* Without requests the engine can still finish what it has.               *)
Graceful == lastError = "request_budget_exhausted"
MustEnd == late \/ (terminal /\ ~Graceful)

LookForEnd ==
  /\ runner = "end"
  /\ IF MustEnd
     THEN LET why == IF terminal THEN lastError ELSE "wall_time_exhausted" IN
          runner' = "killing" /\ reason' = why /\ Verdict(TRUE, why)
     ELSE runner' = "stop" /\ UNCHANGED <<gatewayVars, reason>>
  /\ UNCHANGED <<workerVars, result>>

(* The tree of the worker is killed while the gateway still serves.        *)
Kill ==
  /\ runner = "killing"
  /\ worker' = IF Alive THEN "killed" ELSE worker
  /\ runner' = "reading"
  /\ UNCHANGED <<gatewayVars, call, attempt, seeded, candidate, mended, fitness, evidence, reason,
                 result>>

WorkerGone ==
  /\ runner = "stop" /\ ~Alive
  /\ runner' = "reading"
  /\ UNCHANGED <<gatewayVars, workerVars, reason, result>>

Stops == [request_budget_exhausted |-> "request_limit", wall_time_exhausted |-> "wall_time_limit",
          solver_budget_exhausted |-> "solver_call_limit", session_stopped |-> "user_requested"]

StopReason(error) ==
  CASE error \in DOMAIN Stops -> Stops[error]
    [] error = "evidence_storage_error" -> "storage_error"
    [] error \notin DOMAIN Stops \cup {"evidence_storage_error", "none"} -> "provider_error"
    [] error = "none" /\ worker = "completed" -> "eoh_completed"
    [] error = "none" /\ worker = "denied" -> "solver_call_limit"
    [] OTHER -> "engine_error"

Report ==
  /\ runner = "reading"
  /\ result' = StopReason(IF late /\ lastError = "none" THEN "wall_time_exhausted" ELSE lastError)
  /\ runner' = "reported"
  /\ UNCHANGED <<gatewayVars, workerVars, reason>>

Monitor == LookForStop \/ LookForEnd \/ Kill \/ WorkerGone \/ Report

-----------------------------------------------------------------------------
(* The threads of the gateway end with the process of the runner.          *)
Serve(c) == runner # "reported" /\ Handle(c) /\ UNCHANGED <<workerVars, runnerVars>>

(* stop is called for the Session; the wall time ends.                     *)
StopAsked ==
  /\ ~stopped /\ stopped' = TRUE
  /\ UNCHANGED <<step, purpose, slot, outcome, told, lock, terminal, lastError, lastIndex,
                 requests, posted, exchange, solverCalls, late, workerVars, runnerVars>>
TimeIsUp ==
  /\ ~late /\ late' = TRUE
  /\ UNCHANGED <<step, purpose, slot, outcome, told, lock, terminal, lastError, lastIndex,
                 requests, posted, exchange, solverCalls, stopped, workerVars, runnerVars>>

Next == (\E c \in Calls : Serve(c)) \/ Work \/ Monitor \/ StopAsked \/ TimeIsUp

(* Threads and processes are scheduled, the transport ends every request   *)
(* at its own deadline.  Nothing says that a stop or the deadline comes.   *)
Fairness == /\ \A c \in Calls : WF_vars(Serve(c))
            /\ WF_vars(Work) /\ WF_vars(Monitor)

Spec == Init /\ [][Next]_vars /\ Fairness

-----------------------------------------------------------------------------
(* No other request is made once the result of one is unknown: a retry of  *)
(* the client never repeats a call that may have been paid for.            *)
UnknownIsLast == \A i \in DOMAIN requests : requests[i].state = "unknown" => i = Len(requests)

(* At most one request is out at the provider.                             *)
SingleFlight == Cardinality({i \in DOMAIN requests : requests[i].state = "sent"}) <= 1

(* Every row of evidence names the request that produced its code, whoever *)
(* else wrote latest_exchange.json or the fields of the bridge meanwhile.  *)
EvidenceNamesItsRequest == \A row \in evidence : row.source = row.from

(* A repair that is counted as succeeded gave EoH an objective, and every  *)
(* objective EoH selects on has a valid row of the same revision.          *)
FitnessIsEvidenced ==
  \A k \in 1..Candidates :
    /\ mended[k] = "succeeded" => fitness[k] = "repair_1"
    /\ fitness[k] # "none" => \E row \in evidence :
                                 row.candidate = k /\ row.revision = fitness[k] /\ row.valid

(* The exhaustion of the request budget alone never cancels the worker.    *)
BudgetStopIsGraceful == worker = "killed" => late \/ reason # "request_budget_exhausted"

(* An error the engine recovered from is not the result of the run.        *)
BlameIsCurrent ==
  result = "provider_error" =>
    \E c \in Calls : /\ outcome[c] \notin {"none", "denied", "good"}
                     /\ \A d \in Calls : slot[d] > slot[c] => outcome[d] # "good"

(* Requests are made one at a time and never twice; the evidence the       *)
(* engine selects on names its request; a run is neither killed nor        *)
(* blamed for what it recovered from.                                      *)
RequestsOnce == UnknownIsLast /\ SingleFlight
EvidenceIsSound == EvidenceNamesItsRequest /\ FitnessIsEvidenced
StopsAreJust == BudgetStopIsGraceful /\ BlameIsCurrent

(* The runner reports: no call of the worker waits for ever for a lock of  *)
(* the gateway, whatever was denied, refused or lost before.               *)
RunReported == <>(runner = "reported")

(* The reason for which the deadline killed the worker is what is reported.*)
WallStopIsReported ==
  result # "none" /\ reason = "wall_time_exhausted" /\ ~stopped => result = "wall_time_limit"

(* A run reports that its requests are used up when they are.              *)
RequestLimitMeansSpent == result = "request_limit" /\ ~late => Len(requests) = RequestLimit

=============================================================================

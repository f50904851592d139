---------------------------- MODULE SessionLedger ----------------------------
(***************************************************************************)
(* Pre-effect accounting (session_ledger.py, called from the bridge of     *)
(* eoh_frozen/llm_bridge.py and from eoh_frozen/problem.py): a request is  *)
(* reserved before it is sent, an evaluation is started before its         *)
(* subprocess is, and either row is finished by the process that owns it,  *)
(* without looking at what the row holds by then.                          *)
(***************************************************************************)
EXTENDS SessionState

(* The bridge lives in the runner and serves the worker. *)
BridgeUp(t) == runner[t] = "working" /\ worker[t] = "alive"

(* Evaluations run in the runner before the worker exists (the baseline,   *)
(* the parent) and in the worker afterwards; a worker is not stopped by    *)
(* the death of its runner, only by its watchdog.                          *)
CanEvaluate(t) ==
  \/ worker[t] = "none" /\ runner[t] = "working"
  \/ worker[t] = "alive"

(* SessionRequestBudget.reserve; the bridge forwards one request at a time. *)
Reserve(t, q) ==
  /\ BridgeUp(t) /\ inflight[t] = NoId
  /\ requests[q].state = "none"
  /\ runState = "RUNNING" /\ tasks[t].state = "RUNNING"
  /\ Cardinality(RequestsUsed) < MaxRequests
  /\ Cardinality(RequestsUsedIn(tasks[t].round)) < RoundMaxRequests
  /\ Cardinality(CallsUsed) < MaxSolverCalls
  /\ Cardinality(CallsUsedIn(tasks[t].round)) < RoundBudget
  /\ MarkEffect(t)
  /\ requests' = [requests EXCEPT ![q] = [state |-> "reserved", task |-> t]]
  /\ inflight' = [inflight EXCEPT ![t] = q]
  /\ UNCHANGED <<runState, activeRound, solverCalls, procs, evaluating>>

(* SessionRequestBudget.mark_sent, just before the POST. *)
MarkSent(t) ==
  /\ runner[t] = "working" /\ inflight[t] # NoId
  /\ requests[inflight[t]].state = "reserved"
  /\ requests' = [requests EXCEPT ![inflight[t]].state = "sent"]
  /\ UNCHANGED <<control, solverCalls, procs, local>>

(* SessionRequestBudget.finish: complete, failed (an HTTP answer) or       *)
(* unknown (deadline, connection lost).  A request whose input could not   *)
(* be stored ends here without having been sent.                           *)
FinishRequest(t, outcome) ==
  /\ runner[t] = "working" /\ inflight[t] # NoId
  /\ requests' = [requests EXCEPT ![inflight[t]].state = outcome]
  /\ inflight' = [inflight EXCEPT ![t] = NoId]
  /\ UNCHANGED <<control, solverCalls, procs, evaluating>>

(* solver_event with no evaluation yet: the row precedes the subprocess. *)
StartEvaluation(t, c) ==
  /\ CanEvaluate(t) /\ evaluating[t] = NoId
  /\ solverCalls[c].state = "none"
  /\ runState = "RUNNING" /\ tasks[t].state = "RUNNING"
  /\ Cardinality(CallsUsed) < MaxSolverCalls
  /\ Cardinality(CallsUsedIn(tasks[t].round)) < RoundBudget
  /\ MarkEffect(t)
  /\ solverCalls' = [solverCalls EXCEPT ![c] = [state |-> "started", task |-> t, log |-> "none"]]
  /\ evaluating' = [evaluating EXCEPT ![t] = c]
  /\ UNCHANGED <<runState, activeRound, requests, procs, inflight>>

(* FrozenProblem._record_evaluation appends the evidence row, fsynced ... *)
LogEvaluation(t, verdict) ==
  /\ CanEvaluate(t) /\ evaluating[t] # NoId
  /\ solverCalls[evaluating[t]].log = "none"
  /\ solverCalls' = [solverCalls EXCEPT ![evaluating[t]].log = verdict]
  /\ UNCHANGED <<control, requests, procs, local>>

(* ... and then calls solver_event with the result, whose UPDATE has no    *)
(* condition on the state of the row.                                      *)
FinishEvaluation(t) ==
  /\ CanEvaluate(t) /\ evaluating[t] # NoId
  /\ solverCalls[evaluating[t]].log # "none"
  /\ solverCalls' = [solverCalls EXCEPT ![evaluating[t]].state =
                       IF solverCalls[evaluating[t]].log = "valid" THEN "complete" ELSE "failed"]
  /\ evaluating' = [evaluating EXCEPT ![t] = NoId]
  /\ UNCHANGED <<control, requests, procs, inflight>>

LedgerStep(t) ==
  \/ \E q \in Requests : Reserve(t, q)
  \/ MarkSent(t)
  \/ \E outcome \in ClosedRequest : FinishRequest(t, outcome)
  \/ \E c \in SolverCalls : StartEvaluation(t, c)
  \/ \E verdict \in {"valid", "invalid"} : LogEvaluation(t, verdict)
  \/ FinishEvaluation(t)

=============================================================================

------------------------------ MODULE Session ------------------------------
(***************************************************************************)
(* One optimization Session: the Agent's operations, the processes of its  *)
(* tasks and the ledgers they share, with the properties of the whole.     *)
(* The protocol's own list of them is docs/protocol.md, section 29.        *)
(***************************************************************************)
EXTENDS SessionActions

(* initialize_session *)
Init ==
  /\ runState = "RUNNING"
  /\ activeRound = 1
  /\ rounds = [r \in Rounds |->
       IF r = 1 THEN [NoRoundRow EXCEPT !.state = "WAITING_FOR_PLAN"] ELSE NoRoundRow]
  /\ tasks = [t \in Tasks |-> NoTaskRow]
  /\ requests = [q \in Requests |-> [state |-> "none", task |-> NoId]]
  /\ solverCalls = [c \in SolverCalls |-> [state |-> "none", task |-> NoId, log |-> "none"]]
  /\ sup = [t \in Tasks |-> "none"]
  /\ supReason = [t \in Tasks |-> "FAILED"]
  /\ runner = [t \in Tasks |-> "none"]
  /\ worker = [t \in Tasks |-> "none"]
  /\ inflight = [t \in Tasks |-> NoId]
  /\ evaluating = [t \in Tasks |-> NoId]

Next == AgentStep \/ \E t \in Tasks : ProcessStep(t)

Spec == Init /\ [][Next]_vars

(* The operating system schedules every process that is alive; no progress *)
(* is assumed of the runner's own work, of the worker or of the Agent.     *)
FairProcesses ==
  \A t \in Tasks :
    /\ WF_vars(SupervisorWork(t))
    /\ WF_vars(RunnerEOF(t))
    /\ WF_vars(RunnerWatchdog(t))
    /\ WF_vars(WorkerWatchdog(t))

FairSpec == Spec /\ FairProcesses

(* An Agent that asked for a stop goes on calling collect, the one         *)
(* operation it is offered, until the run is STOPPED.                      *)
PollingSpec == FairSpec /\ WF_vars(runState = "STOPPING" /\ CollectStep)

-----------------------------------------------------------------------------
(* Safety                                                                  *)

(* At most one task of a round ever had an external effect, so that no     *)
(* round is paid for twice, whatever crashes (protocol 12.4).              *)
OneEffectfulTask ==
  \A t, u \in Tasks :
    tasks[t].effect /\ tasks[u].effect /\ tasks[t].round = tasks[u].round => t = u

(* A runner only works for a task that is marked as having had effects:    *)
(* the mark is durable before the go line is written.                      *)
WorkIsMarked == \A t \in Tasks : runner[t] = "working" => tasks[t].effect

(* What has been spent stays within the budgets of the run and the round,  *)
(* counting requests with an unknown outcome and interrupted evaluations   *)
(* (invariant I6 of the protocol).                                         *)
Spent(table) == {x \in DOMAIN table : table[x].state # "none"}
SpentIn(table, r) == {x \in Spent(table) : tasks[table[x].task].round = r}
BudgetsRespected ==
  /\ Cardinality(Spent(requests)) <= MaxRequests
  /\ Cardinality(Spent(solverCalls)) <= MaxSolverCalls
  /\ \A r \in Rounds : /\ Cardinality(SpentIn(requests, r)) <= RoundMaxRequests
                       /\ Cardinality(SpentIn(solverCalls, r)) <= RoundBudget

(* A task that has ended owns no open request and no evaluation that is    *)
(* still counted as running, whoever ended it and whenever it crashed.     *)
LedgersSettled ==
  \A t \in Tasks : tasks[t].state \in {"EXITED", "COLLECTED"} =>
    /\ \A q \in Requests : requests[q].task = t => requests[q].state \notin OpenRequest
    /\ \A c \in SolverCalls : solverCalls[c].task = t => solverCalls[c].state # "started"

(* Once a task is collected, every evaluation with a durable evidence row  *)
(* has the verdict of that row in the ledger, even if the process died     *)
(* between the two writes (invariant I7).                                  *)
EvidenceAgrees ==
  \A c \in SolverCalls :
    solverCalls[c].log # "none" /\ tasks[solverCalls[c].task].state = "COLLECTED" =>
      solverCalls[c].state = IF solverCalls[c].log = "valid" THEN "complete" ELSE "failed"

(* The state of the active round and the rows of its tasks tell the same   *)
(* story: a round is ready to execute only without effects, is executing   *)
(* for one task that is not collected, and is evaluated for one that is.   *)
RoundAgreesWithTasks ==
  runState = "RUNNING" =>
    LET effectful == {t \in TasksOf(activeRound) : tasks[t].effect} IN
    /\ Active.state \in {"WAITING_FOR_PLAN", "READY_TO_EXECUTE"} => effectful = {}
    /\ Active.state = "EXECUTING" =>
         effectful = {Active.task} /\ tasks[Active.task].state # "COLLECTED"
    /\ Active.state \in {"WAITING_FOR_EVALUATION", "READY_TO_FINISH"} =>
         effectful = {Active.task} /\ tasks[Active.task].state = "COLLECTED"

(* A task recovered as UNKNOWN has no runner that could still send or      *)
(* account for anything.                                                   *)
RecoveredIsIdle ==
  \A t \in Tasks : tasks[t].reason = "UNKNOWN" => runner[t] \notin {"released", "working"}

(* A stopped or completed run has no live task.                            *)
EndedIsDrained ==
  runState \in {"STOPPED", "COMPLETED"} => \A t \in Tasks : tasks[t].state \notin LiveTask

(* A round that is over has nothing of its own in publication, unless the  *)
(* run was stopped.                                                        *)
PublicationSettled ==
  \A r \in Rounds : rounds[r].state = "ROUND_COMPLETED" => rounds[r].memory \notin MemoryPending

Busy(t) == runner[t] \in RunnerAlive \/ worker[t] = "alive"

(* Where the operating system ends process trees as a whole (Windows Job   *)
(* objects), a stopped run has no process left, and a new round or a       *)
(* second attempt never shares the machine with an earlier one.            *)
NoLiveChildWhenStopped == runState = "STOPPED" => \A t \in Tasks : ~Busy(t)
NoOverlap == \A t, u \in Tasks : Busy(t) /\ Busy(u) => t = u

(* The ledgers are right: nothing overspends them, and what a collected    *)
(* task evaluated is counted as its evidence says.                         *)
LedgersAgree == BudgetsRespected /\ EvidenceAgrees

(* A round is where its tasks are: the mark, the round, the task rows and  *)
(* the publication of its memory never tell different stories.             *)
RoundsAgree == WorkIsMarked /\ RoundAgreesWithTasks /\ PublicationSettled

(* Process trees that are ended as a whole leave nobody behind.            *)
TreesEnd == NoLiveChildWhenStopped /\ NoOverlap

(* Nobody still works for a task that was recovered as dead or for a run   *)
(* that has ended, as far as its rows say.                                 *)
NobodyWorksOn == EndedIsDrained /\ RecoveredIsIdle

-----------------------------------------------------------------------------
(* What a step may never do                                                *)

(* A stopped or completed run stays as it ended: nothing that still goes   *)
(* on moves it or a round of it, the memory status apart.                  *)
ControlOf(row) == [row EXCEPT !.memory = "null"]
ControlStays ==
  /\ runState' = runState /\ activeRound' = activeRound
  /\ \A r \in Rounds : ControlOf(rounds[r])' = ControlOf(rounds[r])
EndedRunIsFrozen == [][(runState \in {"STOPPED", "COMPLETED"}) => ControlStays]_vars

(* An incumbent, once found, is never lost: it survives rounds without an  *)
(* improvement, failed tasks and the change of rounds (invariants I9, I10). *)
IncumbentKept ==
  [][Active.before \/ Active.after => (Active.before \/ Active.after)']_vars

(* Nothing a run has reached is taken back: its end, its best candidate.   *)
NothingLost == EndedRunIsFrozen /\ IncumbentKept

(* The outcome of a request is written once: no late answer rewrites a     *)
(* request that was settled as unknown (invariant I6).                     *)
RequestOutcomeFinal ==
  [][\A q \in Requests : requests[q].state \in ClosedRequest => requests'[q] = requests[q]]_vars

(* Where process trees are ended as a whole, the solver ledger of a        *)
(* collected task, on which its published facts rest, does not change.     *)
CollectedLedgerFrozen ==
  [][\A c \in SolverCalls :
       solverCalls[c].task \in Tasks /\ tasks[solverCalls[c].task].state = "COLLECTED" =>
         solverCalls'[c] = solverCalls[c]]_vars

(* What a ledger says of something that is settled is never rewritten.     *)
LedgersFinal == RequestOutcomeFinal /\ CollectedLedgerFrozen

(* The Session implements the life cycle the Agent is promised: whatever   *)
(* tasks, processes and ledgers do, each of their steps is a step of the   *)
(* life cycle or is not seen by the Agent.                                 *)
Lifecycle == INSTANCE SessionLifecycle WITH
  run <- runState, round <- activeRound, phase <- Active.state,
  spent <- {r \in Rounds : \E t \in TasksOf(r) : tasks[t].effect}
ImplementsLifecycle == Lifecycle!Spec

-----------------------------------------------------------------------------
(* Liveness                                                                *)

(* A task never stays live with nobody left to end it: its supervisor ends *)
(* it, or its processes are gone and collect may recover it.               *)
TasksSettle ==
  \A t \in Tasks : tasks[t].state \in LiveTask ~> tasks[t].state \notin LiveTask \/ SeemsDead(t)

(* No runner or worker outlives the end of its supervisor for ever.        *)
OrphansEnd == \A t \in Tasks : sup[t] = "gone" ~> ~Busy(t)

(* Whoever dies, the task is settled and no process of it stays behind.    *)
NobodyLeftBehind == TasksSettle /\ OrphansEnd

(* A stop ends: while the task that collect looks at has not been          *)
(* collected, the Agent's polling stops the run.                           *)
StopEnds ==
  runState = "STOPPING" /\ tasks[Active.task].state # "COLLECTED" ~> runState = "STOPPED"

-----------------------------------------------------------------------------
(* Statements of the documentation that the code does not keep             *)

(* docs/cli-contract.md offers collect to a run that is STOPPING, so the   *)
(* active round should have a task that collect accepts.                   *)
StoppingCanCollect ==
  runState = "STOPPING" => tasks[Active.task].state # "COLLECTED"

(* docs/protocol.md, section 3.3: STOPPED only when there is no live child *)
(* process; the worker of a POSIX process group may still be there.        *)
StoppedHasNoWorker == runState = "STOPPED" => \A t \in Tasks : worker[t] # "alive"

(* docs/cli-contract.md offers a FAILED run state and read-evaluation only: *)
(* nothing should move its rounds any more.                                *)
FailedRunIsFrozen == [][runState = "FAILED" => ControlStays]_vars

(* docs/protocol.md, section 24: continue succeeds only if the resources   *)
(* allow another round, so the budget should cover the next execute.       *)
ContinueIsAffordable == [][activeRound' # activeRound => AttemptsFit(activeRound)']_vars

=============================================================================

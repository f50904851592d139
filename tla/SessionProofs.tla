--------------------------- MODULE SessionProofs ---------------------------
(***************************************************************************)
(* Theorems about module Session, for every value of its constants: the    *)
(* types, the settlement of the ledgers of ended tasks, the promise that   *)
(* no round is executed twice, and then, from one inductive invariant      *)
(* (SessionInv): the agreement of rounds, tasks, processes and ledgers,    *)
(* the budgets, what a step may never do, and the life cycle.              *)
(***************************************************************************)
EXTENDS Session, FiniteSetTheorems, TLAPS

-----------------------------------------------------------------------------
(* Types                                                                   *)

(* The values the code writes belong to the types of their columns. *)
LEMMA TaskNames ==
  /\ {"none", "STARTING", "RUNNING", "STOP_REQUESTED", "EXITED", "COLLECTED"}
       \subseteq TaskStates \cup {"none"}
  /\ {"FAILED", "CANCELLED", "UNKNOWN", "DEADLINE_EXCEEDED"} \subseteq TerminalReasons
  /\ SummaryReasons \subseteq TerminalReasons
BY ConstantsAssumption DEF TaskStates, LiveTask, TerminalReasons, SummaryReason

LEMMA RoundNames ==
  /\ {"WAITING_FOR_PLAN", "READY_TO_EXECUTE", "EXECUTING", "WAITING_FOR_EVALUATION",
      "READY_TO_FINISH", "ROUND_COMPLETED", "STOPPED", "FAILED", "none"}
       \subseteq RoundStates \cup {"none"}
  /\ {"null", "none", "disabled", "proposed", "accepted", "published", "failed", "rejected"}
       \subseteq MemoryStates
  /\ {"RUNNING", "STOPPING", "COMPLETED", "STOPPED", "FAILED"} \subseteq RunStates
BY DEF RoundStates, MemoryStates, MemoryPending, RunStates

LEMMA ProcessNames ==
  /\ {"none", "launching", "spawned", "owner", "started", "registered", "monitoring",
      "summary", "closing", "marking", "gone"} \subseteq SupStates
  /\ {"none", "waiting", "released", "working", "early", "done", "dead"} \subseteq RunnerStates
BY DEF SupStates, RunnerStates, RunnerAlive

LEMMA EmptyRows == NoTaskRow \in TaskRow /\ NoRoundRow \in RoundRow
<1>1. NoTaskRow \in TaskRow
  BY TaskNames DEF NoTaskRow, TaskRow
<1>2. NoRoundRow \in RoundRow
  BY RoundNames DEF NoRoundRow, RoundRow
<1>3. QED  BY <1>1, <1>2

LEMMA InitType == Init => TypeOK
<1>1. SUFFICES ASSUME Init PROVE TypeOK
  OBVIOUS
<1>2. runState \in RunStates /\ activeRound \in Rounds
  BY <1>1, RoundNames, ConstantsAssumption DEF Init, Rounds
<1>3. rounds \in [Rounds -> RoundRow]
  BY <1>1, EmptyRows, RoundNames DEF Init, RoundRow
<1>4. tasks \in [Tasks -> TaskRow]
  BY <1>1, EmptyRows DEF Init
<1>5. requests \in [Requests -> RequestRow] /\ solverCalls \in [SolverCalls -> CallRow]
  BY <1>1 DEF Init, RequestRow, CallRow
<1>6. /\ sup \in [Tasks -> SupStates] /\ supReason \in [Tasks -> TerminalReasons]
      /\ runner \in [Tasks -> RunnerStates] /\ worker \in [Tasks -> {"none", "alive", "dead"}]
  BY <1>1, TaskNames, ProcessNames DEF Init
<1>7. /\ inflight \in [Tasks -> Requests \cup {NoId}]
      /\ evaluating \in [Tasks -> SolverCalls \cup {NoId}]
  BY <1>1 DEF Init
<1>8. QED  BY <1>2, <1>3, <1>4, <1>5, <1>6, <1>7 DEF TypeOK

(* Writing columns of a row keeps its type. *)
LEMMA TaskColumns ==
  ASSUME NEW row \in TaskRow
  PROVE  /\ \A s \in TaskStates \cup {"none"} :
              [row EXCEPT !.state = s] \in TaskRow
         /\ \A s \in TaskStates \cup {"none"}, x \in TerminalReasons \cup {"none"} :
              [row EXCEPT !.state = s, !.reason = x] \in TaskRow
         /\ \A s \in TaskStates \cup {"none"}, p \in {"none", "supervisor", "runner"} :
              [row EXCEPT !.state = s, !.proc = p] \in TaskRow
         /\ \A p \in {"none", "supervisor", "runner"}, e \in BOOLEAN :
              [row EXCEPT !.proc = p, !.effect = e] \in TaskRow
         /\ \A e \in BOOLEAN :
              [row EXCEPT !.effect = e] \in TaskRow
         /\ \A h \in {"none", "fresh", "aged"} :
              [row EXCEPT !.heartbeat = h] \in TaskRow
<1>1. ASSUME NEW s \in TaskStates \cup {"none"}
      PROVE  [row EXCEPT !.state = s] \in TaskRow
  BY <1>1 DEF TaskRow
<1>2. ASSUME NEW s \in TaskStates \cup {"none"}, NEW x \in TerminalReasons \cup {"none"}
      PROVE  [row EXCEPT !.state = s, !.reason = x] \in TaskRow
  BY <1>2 DEF TaskRow
<1>3. ASSUME NEW s \in TaskStates \cup {"none"}, NEW p \in {"none", "supervisor", "runner"}
      PROVE  [row EXCEPT !.state = s, !.proc = p] \in TaskRow
  BY <1>3 DEF TaskRow
<1>4. ASSUME NEW p \in {"none", "supervisor", "runner"}, NEW e \in BOOLEAN
      PROVE  [row EXCEPT !.proc = p, !.effect = e] \in TaskRow
  BY <1>4 DEF TaskRow
<1>5. ASSUME NEW e \in BOOLEAN
      PROVE  [row EXCEPT !.effect = e] \in TaskRow
  BY <1>5 DEF TaskRow
<1>6. ASSUME NEW h \in {"none", "fresh", "aged"}
      PROVE  [row EXCEPT !.heartbeat = h] \in TaskRow
  BY <1>6 DEF TaskRow
<1>7. QED  BY Zenon, <1>1, <1>2, <1>3, <1>4, <1>5, <1>6

LEMMA RoundColumns ==
  ASSUME NEW row \in RoundRow
  PROVE  /\ \A s \in RoundStates \cup {"none"} :
              [row EXCEPT !.state = s] \in RoundRow
         /\ \A m \in MemoryStates :
              [row EXCEPT !.memory = m] \in RoundRow
         /\ \A s \in RoundStates \cup {"none"}, m \in MemoryStates :
              [row EXCEPT !.state = s, !.memory = m] \in RoundRow
         /\ \A s \in RoundStates \cup {"none"}, b \in BOOLEAN :
              [row EXCEPT !.state = s, !.after = b] \in RoundRow
         /\ \A t \in Tasks :
              [row EXCEPT !.task = t] \in RoundRow
<1>1. ASSUME NEW s \in RoundStates \cup {"none"}
      PROVE  [row EXCEPT !.state = s] \in RoundRow
  BY <1>1 DEF RoundRow
<1>2. ASSUME NEW m \in MemoryStates
      PROVE  [row EXCEPT !.memory = m] \in RoundRow
  BY <1>2 DEF RoundRow
<1>3. ASSUME NEW s \in RoundStates \cup {"none"}, NEW m \in MemoryStates
      PROVE  [row EXCEPT !.state = s, !.memory = m] \in RoundRow
  BY <1>3 DEF RoundRow
<1>4. ASSUME NEW s \in RoundStates \cup {"none"}, NEW b \in BOOLEAN
      PROVE  [row EXCEPT !.state = s, !.after = b] \in RoundRow
  BY <1>4 DEF RoundRow
<1>5. ASSUME NEW t \in Tasks
      PROVE  [row EXCEPT !.task = t] \in RoundRow
  BY <1>5 DEF RoundRow
<1>6. QED  BY Zenon, <1>1, <1>2, <1>3, <1>4, <1>5

(* Replacing one row keeps the type of the table; a round that does not    *)
(* exist is not written.                                                   *)
LEMMA TaskTable ==
  ASSUME TypeOK, NEW t \in Tasks
  PROVE  /\ tasks[t] \in TaskRow
         /\ \A row \in TaskRow : [tasks EXCEPT ![t] = row] \in [Tasks -> TaskRow]
BY DEF TypeOK

LEMMA RoundTable ==
  ASSUME TypeOK, NEW r
  PROVE  /\ r \in Rounds => rounds[r] \in RoundRow
         /\ \A row : (r \in Rounds => row \in RoundRow) =>
              [rounds EXCEPT ![r] = row] \in [Rounds -> RoundRow]
BY DEF TypeOK

(* A step of the ledgers. *)
LEMMA LedgerType ==
  ASSUME TypeOK, NEW t \in Tasks, LedgerStep(t)
  PROVE  TypeOK'
<1>1. ASSUME MarkEffect(t)
      PROVE  tasks' \in [Tasks -> TaskRow] /\ rounds' \in [Rounds -> RoundRow]
  <2>1. [tasks EXCEPT ![t].effect = TRUE] \in [Tasks -> TaskRow]
    BY TaskTable, TaskColumns
  <2>2. [rounds EXCEPT ![tasks[t].round].state = "EXECUTING"] \in [Rounds -> RoundRow]
    BY RoundTable, RoundColumns, RoundNames
  <2>3. QED  BY <1>1, <2>1, <2>2 DEF TypeOK, MarkEffect
<1>2. ASSUME NEW q \in Requests, Reserve(t, q) PROVE TypeOK'
  <2>1. requests' \in [Requests -> RequestRow]
    BY <1>2 DEF TypeOK, Reserve, RequestRow, OpenRequest
  <2>2. inflight' \in [Tasks -> Requests \cup {NoId}]
    BY <1>2 DEF TypeOK, Reserve
  <2>3. QED  BY <1>1, <1>2, <2>1, <2>2 DEF TypeOK, Reserve, procs
<1>3. ASSUME MarkSent(t) PROVE TypeOK'
  BY <1>3 DEF TypeOK, MarkSent, control, procs, local, RequestRow, OpenRequest
<1>4. ASSUME NEW outcome \in ClosedRequest, FinishRequest(t, outcome) PROVE TypeOK'
  BY <1>4 DEF TypeOK, FinishRequest, control, procs, RequestRow
<1>5. ASSUME NEW c \in SolverCalls, StartEvaluation(t, c) PROVE TypeOK'
  <2>1. solverCalls' \in [SolverCalls -> CallRow]
    BY <1>5 DEF TypeOK, StartEvaluation, CallRow, CallStates
  <2>2. evaluating' \in [Tasks -> SolverCalls \cup {NoId}]
    BY <1>5 DEF TypeOK, StartEvaluation
  <2>3. QED  BY <1>1, <1>5, <2>1, <2>2 DEF TypeOK, StartEvaluation, procs
<1>6. ASSUME NEW verdict \in {"valid", "invalid"}, LogEvaluation(t, verdict) PROVE TypeOK'
  BY <1>6 DEF TypeOK, LogEvaluation, control, procs, local, CallRow
<1>7. ASSUME FinishEvaluation(t) PROVE TypeOK'
  BY <1>7 DEF TypeOK, FinishEvaluation, control, procs, CallRow, CallStates
<1>8. QED  BY <1>2, <1>3, <1>4, <1>5, <1>6, <1>7 DEF LedgerStep

(* Processes that die leave well-typed local variables behind. *)
LEMMA ForgetType ==
  ASSUME TypeOK, ForgetLocal
  PROVE  /\ inflight' \in [Tasks -> Requests \cup {NoId}]
         /\ evaluating' \in [Tasks -> SolverCalls \cup {NoId}]
BY DEF TypeOK, ForgetLocal

LEMMA TreeType ==
  ASSUME TypeOK, NEW t \in Tasks, TreeKill(t) \/ TreeClose(t)
  PROVE  /\ runner' \in [Tasks -> RunnerStates]
         /\ worker' \in [Tasks -> {"none", "alive", "dead"}]
         /\ inflight' \in [Tasks -> Requests \cup {NoId}]
         /\ evaluating' \in [Tasks -> SolverCalls \cup {NoId}]
<1>1. TreeKill(t)
  BY DEF TreeClose
<1>2. QED  BY <1>1, ForgetType, ProcessNames DEF TypeOK, TreeKill

(* The two UPDATEs of a terminal transaction keep the types of the rows. *)
LEMMA ReconciledType ==
  ASSUME TypeOK, NEW t \in Tasks
  PROVE  /\ ReconciledRequests(t) \in [Requests -> RequestRow]
         /\ ReconciledCalls(t) \in [SolverCalls -> CallRow]
BY DEF TypeOK, ReconciledRequests, ReconciledCalls, RequestRow, CallRow, ClosedRequest, CallStates

(* A step of a launcher or a supervisor. *)
LEMMA SupervisorType ==
  ASSUME TypeOK, NEW t \in Tasks, SupervisorWork(t) \/ SupCrash(t)
  PROVE  TypeOK'
<1> USE ProcessNames, TaskNames DEF TypeOK, control, ledgers, local
<1>1. CASE Launch(t) \/ LaunchFails(t) \/ NotOwned(t) \/ OwnFails(t) \/ SupervisorFails(t)
  BY <1>1 DEF Launch, LaunchFails, NotOwned, OwnFails, SupervisorFails
<1>2. CASE Own(t)
  <2>1. tasks' \in [Tasks -> TaskRow]
    BY <1>2, TaskTable, TaskColumns DEF Own
  <2>2. QED  BY <1>2, <2>1 DEF Own
<1>3. CASE SpawnRunner(t) \/ Release(t)
  BY <1>3 DEF SpawnRunner, Release
<1>4. CASE RegisterRunner(t)
  <2>1. MarkedBy(t) \in BOOLEAN
    BY TaskTable DEF TaskRow, MarkedBy
  <2>2. tasks' \in [Tasks -> TaskRow]
    BY <1>4, <2>1, TaskTable, TaskColumns DEF RegisterRunner
  <2>3. rounds' \in [Rounds -> RoundRow]
    BY <1>4, RoundTable, RoundColumns, RoundNames DEF RegisterRunner
  <2>4. QED  BY <1>4, <2>2, <2>3 DEF RegisterRunner
<1>5. ASSUME NEW reason \in {"DEADLINE_EXCEEDED", "CANCELLED"}, MonitorKill(t, reason)
      PROVE  TypeOK'
  BY <1>5, TreeType DEF MonitorKill
<1>6. CASE RunnerExited(t)
  BY <1>6 DEF RunnerExited
<1>7. ASSUME NEW reason \in TerminalReasons, ReadSummary(t, reason) PROVE TypeOK'
  BY <1>7 DEF ReadSummary
<1>8. CASE Close(t)
  BY <1>8, TreeType DEF Close
<1>9. CASE MarkTerminal(t)
  <2>1. tasks' \in [Tasks -> TaskRow]
    <3>1. supReason[t] \in TerminalReasons \cup {"none"} /\ "EXITED" \in TaskStates \cup {"none"}
      OBVIOUS
    <3>2. [tasks[t] EXCEPT !.state = "EXITED", !.reason = supReason[t]] \in TaskRow
      BY <3>1, TaskTable, TaskColumns
    <3>3. QED  BY <1>9, <3>2, TaskTable DEF MarkTerminal
  <2>2. QED  BY <1>9, <2>1, ReconciledType DEF MarkTerminal
<1>10. CASE SupCrash(t)
  BY <1>10, TreeType DEF SupCrash
<1>11. QED  BY <1>1, <1>2, <1>3, <1>4, <1>5, <1>6, <1>7, <1>8, <1>9, <1>10 DEF SupervisorWork

(* A step of a runner or a worker. *)
LEMMA RunnerType ==
  ASSUME TypeOK, NEW t \in Tasks, RunnerWork(t)
  PROVE  TypeOK'
<1> USE ProcessNames DEF TypeOK, control, ledgers, local
<1>1. CASE RunnerStart(t) \/ RunnerEOF(t) \/ StartWorker(t)
  BY <1>1 DEF RunnerStart, RunnerEOF, StartWorker
<1>2. CASE RunnerWatchdog(t) \/ RunnerCrash(t)
  BY <1>2, ForgetType DEF RunnerWatchdog, RunnerCrash, RunnerDies
<1>3. CASE WorkerExit(t) \/ WorkerWatchdog(t)
  BY <1>3, ForgetType DEF WorkerExit, WorkerWatchdog, WorkerDies
<1>4. CASE RunnerFinish(t)
  BY <1>4, ForgetType DEF RunnerFinish
<1>5. QED  BY <1>1, <1>2, <1>3, <1>4 DEF RunnerWork

LEMMA AgentType ==
  ASSUME TypeOK, AgentStep
  PROVE  TypeOK'
<1> USE RoundNames, TaskNames DEF TypeOK, ledgers, procs, local
<1>1. CASE SubmitPlan
  BY <1>1 DEF SubmitPlan, RoundRow
<1>2. ASSUME NEW t \in Tasks, Execute(t) PROVE TypeOK'
  <2>1. [NoTaskRow EXCEPT !.state = "STARTING", !.round = activeRound] \in TaskRow
    <3>1. activeRound \in Nat /\ "STARTING" \in TaskStates \cup {"none"}
      BY DEF Rounds
    <3>2. QED  BY <3>1, EmptyRows DEF TaskRow
  <2>2. tasks' \in [Tasks -> TaskRow]
    BY <1>2, <2>1, TaskTable DEF Execute
  <2>3. rounds' \in [Rounds -> RoundRow]
    BY <1>2, RoundTable, RoundColumns DEF Execute
  <2>4. QED  BY <1>2, <2>2, <2>3, ProcessNames DEF Execute
<1>3. CASE ExecuteRefused
  BY <1>3 DEF ExecuteRefused, RoundRow
<1>4. ASSUME NEW t \in Tasks, ObserveDead(t) \/ Age(t) PROVE TypeOK'
  <2>1. tasks' \in [Tasks -> TaskRow]
    <3>1. \A h \in {"fresh", "aged"} : [tasks[t] EXCEPT !.heartbeat = h] \in TaskRow
      BY TaskTable, TaskColumns
    <3>2. QED  BY <1>4, <3>1, TaskTable DEF ObserveDead, Age
  <2>2. QED  BY <1>4, <2>1 DEF ObserveDead, Age
<1>5. ASSUME NEW t \in Tasks, NEW found \in BOOLEAN, Collect(t, found) PROVE TypeOK'
  <2>1. tasks' \in [Tasks -> TaskRow]
    <3>1. tasks[t].reason \in TerminalReasons \cup {"none"}
      BY TaskTable DEF TaskRow
    <3>2. "COLLECTED" \in TaskStates \cup {"none"} /\ "UNKNOWN" \in TerminalReasons
      OBVIOUS
    <3>3. CollectedRow(t) \in TaskRow
      BY <3>1, <3>2, TaskTable, TaskColumns DEF CollectedRow
    <3>4. QED  BY <1>5, <3>3, TaskTable DEF Collect
  <2>2. requests' \in [Requests -> RequestRow]
    BY <1>5, ReconciledType DEF Collect
  <2>3. ASSUME NEW calls \in [SolverCalls -> CallRow]
        PROVE  EvidenceApplied(calls, t) \in [SolverCalls -> CallRow]
    BY <2>3 DEF EvidenceApplied, CallRow, CallStates
  <2>4. solverCalls' \in [SolverCalls -> CallRow]
    BY <1>5, <2>3, ReconciledType DEF Collect
  <2>5. Active.before \in BOOLEAN
    BY DEF Active, RoundRow
  <2>6. rounds' \in [Rounds -> RoundRow]
    <3>1. AfterCollect(t) \in RoundStates \cup {"none"} /\ IncumbentAfter(t, found) \in BOOLEAN
      BY <2>5 DEF AfterCollect, IncumbentAfter
    <3>2. QED  BY <1>5, <3>1, RoundTable, RoundColumns DEF Collect
  <2>7. QED  BY <1>5, <2>1, <2>2, <2>4, <2>6 DEF Collect
<1>6. ASSUME NEW memory \in {"proposed", "none", "disabled"}, SubmitEvaluation(memory)
      PROVE  TypeOK'
  <2>1. rounds' \in [Rounds -> RoundRow]
    BY <1>6, RoundTable, RoundColumns DEF SubmitEvaluation
  <2>2. QED  BY <1>6, <2>1 DEF SubmitEvaluation
<1>7. CASE MemoryRevise
  BY <1>7 DEF MemoryRevise, RoundRow
<1>8. ASSUME NEW r \in Rounds, NEW status \in {"accepted", "rejected", "published", "failed"},
             CommitMemory(r, status)
      PROVE  TypeOK'
  <2>1. rounds' \in [Rounds -> RoundRow]
    BY <1>8, RoundTable, RoundColumns DEF CommitMemory
  <2>2. QED  BY <1>8, <2>1 DEF CommitMemory
<1>9. CASE FinishContinue
  <2>1. NextRoundRow \in RoundRow
    BY EmptyRows DEF NextRoundRow, Active, RoundRow
  <2>2. activeRound' \in Rounds
    BY <1>9, ConstantsAssumption DEF FinishContinue, Rounds
  <2>3. rounds' \in [Rounds -> RoundRow]
    <3> DEFINE over == [rounds EXCEPT ![activeRound].state = "ROUND_COMPLETED"]
    <3>1. over \in [Rounds -> RoundRow]
      BY RoundTable, RoundColumns
    <3>2. rounds' = [over EXCEPT ![activeRound + 1] = NextRoundRow]
      BY <1>9 DEF FinishContinue
    <3>3. QED  BY <2>1, <3>1, <3>2
  <2>4. QED  BY <1>9, <2>2, <2>3 DEF FinishContinue
<1>10. CASE FinishComplete
  BY <1>10 DEF FinishComplete, RoundRow
<1>11. CASE Stop
  <2>1. tasks' \in [Tasks -> TaskRow]
    <3>1. ASSUME NEW t \in Tasks
          PROVE  tasks[t] \in TaskRow /\ [tasks[t] EXCEPT !.state = "STOP_REQUESTED"] \in TaskRow
      BY TaskTable, TaskColumns
    <3>2. QED  BY <1>11, <3>1 DEF Stop
  <2>2. rounds' \in [Rounds -> RoundRow]
    <3>1. [rounds EXCEPT ![activeRound].state = "STOPPED"] \in [Rounds -> RoundRow]
      BY RoundTable, RoundColumns
    <3>2. QED  BY <1>11, <3>1 DEF Stop
  <2>3. QED  BY <1>11, <2>1, <2>2 DEF Stop
<1>12. QED
  BY <1>1, <1>2, <1>3, <1>4, <1>5, <1>6, <1>7, <1>8, <1>9, <1>10, <1>11
  DEF AgentStep, CollectStep

(* Type correctness of the whole Session. *)
THEOREM TypeCorrect == Spec => []TypeOK
<1>1. TypeOK /\ [Next]_vars => TypeOK'
  <2>1. SUFFICES ASSUME TypeOK, [Next]_vars PROVE TypeOK'
    OBVIOUS
  <2>2. CASE AgentStep
    BY <2>1, <2>2, AgentType
  <2>3. ASSUME NEW t \in Tasks, ProcessStep(t) PROVE TypeOK'
    BY <2>1, <2>3, SupervisorType, RunnerType, LedgerType DEF ProcessStep
  <2>4. CASE UNCHANGED vars
    BY <2>1, <2>4 DEF vars, control, ledgers, procs, local, TypeOK
  <2>5. QED  BY <2>1, <2>2, <2>3, <2>4 DEF Next
<1>2. QED  BY InitType, <1>1, PTL DEF Spec

-----------------------------------------------------------------------------
(* The ledgers of ended tasks                                              *)

(* Nothing in the ledgers of t is open. *)
Settled(t) ==
  /\ \A q \in Requests : requests[q].task = t => requests[q].state \notin OpenRequest
  /\ \A c \in SolverCalls : solverCalls[c].task = t => solverCalls[c].state # "started"

LEMMA ReconciledSettles ==
  ASSUME TypeOK, NEW t \in Tasks,
         requests' = ReconciledRequests(t), solverCalls' = ReconciledCalls(t)
  PROVE  /\ Settled(t)'
         /\ \A u \in Tasks : Settled(u) => Settled(u)'
BY DEF TypeOK, Settled, ReconciledRequests, ReconciledCalls, OpenRequest, RequestRow, CallRow

(* A step of a process that opens a row of the ledgers belongs to a task   *)
(* that is RUNNING; the others leave what is settled settled.              *)
LEMMA LedgerKeepsSettled ==
  ASSUME TypeOK, NEW t \in Tasks, LedgerStep(t), NEW u \in Tasks, Settled(u),
         tasks[u].state \in {"EXITED", "COLLECTED"}
  PROVE  Settled(u)'
<1> USE DEF TypeOK, Settled, OpenRequest, RequestRow, CallRow
<1>1. ASSUME NEW q \in Requests, Reserve(t, q) PROVE Settled(u)'
  BY <1>1 DEF Reserve
<1>2. CASE MarkSent(t)
  BY <1>2 DEF MarkSent
<1>3. ASSUME NEW outcome \in ClosedRequest, FinishRequest(t, outcome) PROVE Settled(u)'
  BY <1>3 DEF FinishRequest, ClosedRequest
<1>4. ASSUME NEW c \in SolverCalls, StartEvaluation(t, c) PROVE Settled(u)'
  BY <1>4 DEF StartEvaluation
<1>5. ASSUME NEW verdict \in {"valid", "invalid"}, LogEvaluation(t, verdict) PROVE Settled(u)'
  BY <1>5 DEF LogEvaluation
<1>6. CASE FinishEvaluation(t)
  BY <1>6 DEF FinishEvaluation
<1>7. QED  BY <1>1, <1>2, <1>3, <1>4, <1>5, <1>6 DEF LedgerStep

(* What no other step touches: the ledgers and the end of tasks. *)
Quiet == UNCHANGED ledgers /\ \A t \in Tasks :
           tasks'[t].state \in {"EXITED", "COLLECTED"} => tasks[t].state \in {"EXITED", "COLLECTED"}

LEMMA QuietKeepsSettled ==
  ASSUME LedgersSettled, Quiet
  PROVE  LedgersSettled'
BY DEF LedgersSettled, Quiet, ledgers

(* Only the end of a task, and its collection, are not quiet. *)
LEMMA QuietProcessSteps ==
  ASSUME TypeOK, NEW t \in Tasks, SupervisorWork(t) \/ SupCrash(t) \/ RunnerWork(t),
         ~MarkTerminal(t)
  PROVE  Quiet
<1> USE DEF TypeOK, Quiet, control, TaskRow
<1>1. CASE Own(t)
  BY <1>1 DEF Own
<1>2. CASE RegisterRunner(t)
  BY <1>2 DEF RegisterRunner
<1>3. CASE UNCHANGED <<tasks, ledgers>>
  BY <1>3
<1>4. QED
  BY <1>1, <1>2, <1>3
  DEF SupervisorWork, Launch, LaunchFails, NotOwned, OwnFails, SpawnRunner, Release,
      SupervisorFails, MonitorKill, RunnerExited, ReadSummary, Close, SupCrash, RunnerWork,
      RunnerStart, RunnerEOF, RunnerWatchdog, RunnerCrash, RunnerDies, StartWorker,
      WorkerExit, WorkerWatchdog, WorkerDies, RunnerFinish

LEMMA QuietAgentSteps ==
  ASSUME TypeOK, AgentStep, ~ \E t \in Tasks, found \in BOOLEAN : Collect(t, found)
  PROVE  Quiet
<1> USE DEF TypeOK, Quiet, TaskRow
<1>1. ASSUME NEW t \in Tasks, Execute(t) PROVE Quiet
  BY <1>1 DEF Execute, NoTaskRow
<1>2. ASSUME NEW t \in Tasks, ObserveDead(t) \/ Age(t) PROVE Quiet
  <2>1. ASSUME NEW u \in Tasks PROVE tasks'[u].state = tasks[u].state
    BY <1>2 DEF ObserveDead, Age
  <2>2. QED  BY <1>2, <2>1 DEF ObserveDead, Age
<1>3. CASE Stop
  BY <1>3 DEF Stop
<1>4. CASE UNCHANGED <<tasks, ledgers>>
  BY <1>4
<1>5. QED
  BY <1>1, <1>2, <1>3, <1>4
  DEF AgentStep, CollectStep, SubmitPlan, ExecuteRefused, SubmitEvaluation, MemoryRevise,
      CommitMemory, FinishContinue, FinishComplete

(* Whoever ends a task, its supervisor or a collect after a crash, leaves  *)
(* none of its requests or evaluations open, and no process opens or       *)
(* reopens one later.                                                      *)
THEOREM LedgersOfEndedTasksSettled == Spec => []LedgersSettled
<1>1. Init => LedgersSettled
  BY DEF Init, LedgersSettled, NoTaskRow
<1>2. TypeOK /\ LedgersSettled /\ [Next]_vars => LedgersSettled'
  <2>1. SUFFICES ASSUME TypeOK, LedgersSettled, [Next]_vars PROVE LedgersSettled'
    OBVIOUS
  <2>2. \A u \in Tasks : tasks[u].state \in {"EXITED", "COLLECTED"} => Settled(u)
    BY <2>1 DEF LedgersSettled, Settled
  <2>3. (\A u \in Tasks : tasks'[u].state \in {"EXITED", "COLLECTED"} => Settled(u)')
          => LedgersSettled'
    BY DEF LedgersSettled, Settled
  <2>4. CASE AgentStep
    <3>1. ASSUME NEW t \in Tasks, NEW found \in BOOLEAN, Collect(t, found) PROVE LedgersSettled'
      <4>1. ASSUME NEW u \in Tasks, Settled(u) PROVE Settled(u)'
        BY <2>1, <3>1, <4>1
        DEF Collect, Settled, TypeOK, ReconciledRequests, ReconciledCalls, EvidenceApplied,
            OpenRequest, RequestRow, CallRow
      <4>2. Settled(t)'
        BY <2>1, <2>2, <3>1, <4>1
        DEF Collect, Settled, TypeOK, Recovered, ReconciledRequests, ReconciledCalls,
            EvidenceApplied, OpenRequest, RequestRow, CallRow
      <4>3. \A u \in Tasks \ {t} : tasks'[u] = tasks[u]
        BY <2>1, <3>1 DEF Collect, TypeOK
      <4>4. QED  BY <2>2, <2>3, <4>1, <4>2, <4>3
    <3>2. CASE ~ \E t \in Tasks, found \in BOOLEAN : Collect(t, found)
      BY <2>1, <2>4, <3>2, QuietAgentSteps, QuietKeepsSettled
    <3>3. QED  BY <3>1, <3>2
  <2>5. ASSUME NEW t \in Tasks, ProcessStep(t) PROVE LedgersSettled'
    <3>1. CASE MarkTerminal(t)
      <4>1. CASE tasks[t].state \notin LiveTask
        BY <2>1, <3>1, <4>1 DEF MarkTerminal, LedgersSettled
      <4>2. CASE tasks[t].state \in LiveTask
        <5>1. Settled(t)' /\ \A u \in Tasks : Settled(u) => Settled(u)'
          BY <2>1, <3>1, <4>2, ReconciledSettles DEF MarkTerminal
        <5>2. \A u \in Tasks \ {t} : tasks'[u] = tasks[u]
          BY <2>1, <3>1, <4>2 DEF MarkTerminal, TypeOK
        <5>3. QED  BY <2>2, <2>3, <5>1, <5>2
      <4>3. QED  BY <4>1, <4>2
    <3>2. CASE LedgerStep(t)
      <4>1. \A u \in Tasks : tasks'[u].state = tasks[u].state
        BY <2>1, <3>2
        DEF LedgerStep, Reserve, MarkSent, FinishRequest, StartEvaluation, LogEvaluation,
            FinishEvaluation, MarkEffect, control, TypeOK, TaskRow
      <4>2. QED  BY <2>1, <2>2, <2>3, <3>2, <4>1, LedgerKeepsSettled
    <3>3. CASE (SupervisorWork(t) \/ SupCrash(t) \/ RunnerWork(t)) /\ ~MarkTerminal(t)
      BY <2>1, <3>3, QuietProcessSteps, QuietKeepsSettled
    <3>4. QED  BY <2>5, <3>1, <3>2, <3>3 DEF ProcessStep
  <2>6. CASE UNCHANGED vars
    BY <2>1, <2>6 DEF vars, control, ledgers, LedgersSettled
  <2>7. QED  BY <2>1, <2>4, <2>5, <2>6 DEF Next
<1>3. QED  BY <1>1, <1>2, TypeCorrect, PTL DEF Spec

-----------------------------------------------------------------------------
(* One effectful task per round                                            *)

(* OneEffectfulTask is not inductive: a second effect could come from a    *)
(* task that is still live.  It is with what execute establishes when it   *)
(* creates a task, that no other task of the round is live or had effects, *)
(* which stays true as long as the task is live.                           *)
LiveIsAlone ==
  \A t, u \in Tasks :
    tasks[t].state \in LiveTask /\ tasks[u].state # "none" /\ tasks[t].round = tasks[u].round =>
      t = u \/ (tasks[u].state \notin LiveTask /\ ~tasks[u].effect)

(* A row that does not exist has no effects. *)
NoneHasNoEffect == \A t \in Tasks : tasks[t].state = "none" => ~tasks[t].effect

ExecutionInv == LiveIsAlone /\ OneEffectfulTask /\ NoneHasNoEffect

(* The steps that neither create a task nor have an effect: tasks keep     *)
(* their round and effects, and none becomes live.                         *)
NoEffect ==
  \A t \in Tasks : /\ tasks'[t].round = tasks[t].round /\ tasks'[t].effect = tasks[t].effect
                   /\ tasks'[t].state \in LiveTask => tasks[t].state \in LiveTask
                   /\ tasks'[t].state = "none" <=> tasks[t].state = "none"

(* An effect of a task that is live. *)
EffectOf(t) ==
  /\ tasks[t].state \in LiveTask
  /\ \A u \in Tasks : /\ tasks'[u].round = tasks[u].round /\ tasks'[u].state = tasks[u].state
                      /\ u # t => tasks'[u].effect = tasks[u].effect

LEMMA NoEffectKeepsInv == ASSUME ExecutionInv, NoEffect PROVE ExecutionInv'
<1>1. LiveIsAlone'
  <2>1. SUFFICES ASSUME NEW t \in Tasks, NEW u \in Tasks, tasks'[t].state \in LiveTask,
                        tasks'[u].state # "none", tasks'[t].round = tasks'[u].round, t # u
                 PROVE  tasks'[u].state \notin LiveTask /\ ~tasks'[u].effect
    BY DEF LiveIsAlone
  <2>2. tasks[u].state \notin LiveTask /\ ~tasks[u].effect
    BY <2>1 DEF ExecutionInv, NoEffect, LiveIsAlone
  <2>3. QED  BY <2>2 DEF NoEffect
<1>2. OneEffectfulTask'
  BY DEF ExecutionInv, NoEffect, OneEffectfulTask
<1>3. NoneHasNoEffect'
  BY DEF ExecutionInv, NoEffect, NoneHasNoEffect
<1>4. QED  BY <1>1, <1>2, <1>3 DEF ExecutionInv

LEMMA EffectKeepsInv ==
  ASSUME ExecutionInv, NEW t \in Tasks, EffectOf(t)
  PROVE  ExecutionInv'
<1>1. ASSUME NEW u \in Tasks, u # t, tasks[u].effect PROVE tasks[u].round # tasks[t].round
  <2>1. tasks[u].state # "none"
    BY <1>1 DEF ExecutionInv, NoneHasNoEffect
  <2>2. QED  BY <1>1, <2>1 DEF ExecutionInv, LiveIsAlone, EffectOf
<1>2. LiveIsAlone'
  <2>1. SUFFICES ASSUME NEW v \in Tasks, NEW u \in Tasks, tasks'[v].state \in LiveTask,
                        tasks'[u].state # "none", tasks'[v].round = tasks'[u].round, v # u
                 PROVE  tasks'[u].state \notin LiveTask /\ ~tasks'[u].effect
    BY DEF LiveIsAlone
  <2>2. tasks[u].state \notin LiveTask /\ ~tasks[u].effect
    BY <2>1 DEF ExecutionInv, EffectOf, LiveIsAlone
  <2>3. QED  BY <2>2 DEF EffectOf
<1>3. OneEffectfulTask'
  BY <1>1 DEF ExecutionInv, EffectOf, OneEffectfulTask
<1>4. NoneHasNoEffect'
  BY DEF ExecutionInv, EffectOf, NoneHasNoEffect, LiveTask
<1>5. QED  BY <1>2, <1>3, <1>4 DEF ExecutionInv

LEMMA ExecuteKeepsInv ==
  ASSUME TypeOK, ExecutionInv, NEW t \in Tasks, Execute(t)
  PROVE  ExecutionInv'
<1>1. /\ tasks'[t].state = "STARTING" /\ tasks'[t].round = activeRound /\ ~tasks'[t].effect
      /\ \A u \in Tasks : u # t => tasks'[u] = tasks[u]
  BY DEF Execute, TypeOK, NoTaskRow
<1>2. \A u \in Tasks : tasks[u].state # "none" /\ tasks[u].round = activeRound =>
         tasks[u].state \notin LiveTask /\ ~tasks[u].effect
  BY DEF Execute, MayExecute, LiveTaskExists, EffectfulTaskExists, TasksOf
<1>3. QED
  BY <1>1, <1>2 DEF ExecutionInv, LiveIsAlone, OneEffectfulTask, NoneHasNoEffect, LiveTask

LEMMA ExecutionIsInvariant == Spec => []ExecutionInv
<1>1. Init => ExecutionInv
  BY DEF Init, ExecutionInv, LiveIsAlone, OneEffectfulTask, NoneHasNoEffect, NoTaskRow, LiveTask
<1>2. TypeOK /\ ExecutionInv /\ [Next]_vars => ExecutionInv'
  <2>1. SUFFICES ASSUME TypeOK, ExecutionInv, [Next]_vars PROVE ExecutionInv'
    OBVIOUS
  <2>2. CASE UNCHANGED tasks
    BY <2>1, <2>2, NoEffectKeepsInv DEF NoEffect
  <2>3. ASSUME NEW t \in Tasks, Execute(t) PROVE ExecutionInv'
    BY <2>1, <2>3, ExecuteKeepsInv
  <2>4. ASSUME NEW t \in Tasks, Own(t) PROVE ExecutionInv'
    <3>1. NoEffect
      BY <2>1, <2>4 DEF Own, MayOwn, NoEffect, TypeOK, TaskRow, LiveTask
    <3>2. QED  BY <2>1, <3>1, NoEffectKeepsInv
  <2>5. ASSUME NEW t \in Tasks, RegisterRunner(t) PROVE ExecutionInv'
    <3>1. CASE LaunchMarks(t)
      <4>1. EffectOf(t)
        BY <2>1, <2>5, <3>1
        DEF RegisterRunner, LaunchMarks, MarkedBy, EffectOf, TypeOK, TaskRow, LiveTask
      <4>2. QED  BY <2>1, <4>1, EffectKeepsInv
    <3>2. CASE ~LaunchMarks(t)
      <4>1. \A u \in Tasks : u # t => tasks'[u] = tasks[u]
        BY <2>1, <2>5 DEF RegisterRunner, TypeOK
      <4>2. tasks[t] \in TaskRow /\ tasks[t].effect \in BOOLEAN
        BY <2>1 DEF TypeOK, TaskRow
      <4>3. MarkedBy(t) = tasks[t].effect
        BY <3>2 DEF MarkedBy
      <4>4. tasks'[t] = [tasks[t] EXCEPT !.proc = "runner", !.effect = tasks[t].effect]
        BY <2>1, <2>5, <4>3 DEF RegisterRunner, TypeOK
      <4>5. tasks'[t].state = tasks[t].state /\ tasks'[t].round = tasks[t].round
            /\ tasks'[t].effect = tasks[t].effect
        BY <4>2, <4>4 DEF TaskRow
      <4>6. NoEffect
        BY <4>1, <4>5 DEF NoEffect
      <4>7. QED  BY <2>1, <4>6, NoEffectKeepsInv
    <3>3. QED  BY <3>1, <3>2
  <2>6. ASSUME NEW t \in Tasks, tasks[t].state = "RUNNING", MarkEffect(t) PROVE ExecutionInv'
    <3>1. EffectOf(t)
      BY <2>1, <2>6 DEF MarkEffect, EffectOf, TypeOK, TaskRow, LiveTask
    <3>2. QED  BY <2>1, <3>1, EffectKeepsInv
  <2>7. ASSUME NEW t \in Tasks, MarkTerminal(t) PROVE ExecutionInv'
    <3>1. CASE tasks[t].state \in LiveTask
      <4>1. \A u \in Tasks : u # t => tasks'[u] = tasks[u]
        BY <2>1, <2>7, <3>1 DEF MarkTerminal, TypeOK
      <4>2. tasks[t] \in TaskRow
            /\ tasks'[t] = [tasks[t] EXCEPT !.state = "EXITED", !.reason = supReason[t]]
        BY <2>1, <2>7, <3>1 DEF MarkTerminal, TypeOK
      <4>3. /\ tasks'[t].state = "EXITED" /\ tasks'[t].round = tasks[t].round
            /\ tasks'[t].effect = tasks[t].effect
        BY <4>2 DEF TaskRow
      <4>4. NoEffect
        BY <3>1, <4>1, <4>3 DEF NoEffect, LiveTask
      <4>5. QED  BY <2>1, <4>4, NoEffectKeepsInv
    <3>2. QED  BY <2>2, <2>7, <3>1 DEF MarkTerminal
  <2>8. ASSUME NEW t \in Tasks, NEW found \in BOOLEAN, ObserveDead(t) \/ Age(t) \/ Collect(t, found)
        PROVE  ExecutionInv'
    <3>1. \A u \in Tasks : u # t => tasks'[u] = tasks[u]
      BY <2>1, <2>8 DEF ObserveDead, Age, Collect, TypeOK
    <3>2. /\ tasks[t] \in TaskRow
          /\ \/ tasks'[t] = [tasks[t] EXCEPT !.heartbeat = "fresh"]
             \/ tasks'[t] = [tasks[t] EXCEPT !.heartbeat = "aged"]
             \/ tasks'[t] = CollectedRow(t) /\ tasks[t].state # "none"
      BY <2>1, <2>8 DEF ObserveDead, Age, Collect, Recoverable, SeemsDead, TypeOK, LiveTask
    <3>3. /\ tasks'[t].round = tasks[t].round /\ tasks'[t].effect = tasks[t].effect
          /\ \/ tasks'[t].state = tasks[t].state
             \/ tasks'[t].state = "COLLECTED" /\ tasks[t].state # "none"
      BY <3>2 DEF CollectedRow, TaskRow
    <3>4. NoEffect
      BY <3>1, <3>3 DEF NoEffect, LiveTask
    <3>5. QED  BY <2>1, <3>4, NoEffectKeepsInv
  <2>9. CASE Stop
    <3>1. NoEffect
      BY <2>1, <2>9 DEF Stop, NoEffect, TypeOK, TaskRow, LiveTask
    <3>2. QED  BY <2>1, <3>1, NoEffectKeepsInv
  <2>10. CASE AgentStep
    BY <2>2, <2>3, <2>8, <2>9, <2>10
    DEF AgentStep, CollectStep, SubmitPlan, ExecuteRefused, SubmitEvaluation, MemoryRevise,
        CommitMemory, FinishContinue, FinishComplete
  <2>11. ASSUME NEW t \in Tasks, ProcessStep(t) PROVE ExecutionInv'
    <3>1. CASE LedgerStep(t)
      BY <2>2, <2>6, <3>1
      DEF LedgerStep, Reserve, MarkSent, FinishRequest, StartEvaluation, LogEvaluation,
          FinishEvaluation, control
    <3>2. CASE SupervisorWork(t) \/ SupCrash(t) \/ RunnerWork(t)
      BY <2>2, <2>4, <2>5, <2>7, <3>2
      DEF SupervisorWork, Launch, LaunchFails, NotOwned, OwnFails, SpawnRunner, Release,
          SupervisorFails, MonitorKill, RunnerExited, ReadSummary, Close, SupCrash, RunnerWork,
          RunnerStart, RunnerEOF, RunnerWatchdog, RunnerCrash, RunnerDies, StartWorker,
          WorkerExit, WorkerWatchdog, WorkerDies, RunnerFinish, control
    <3>3. QED  BY <2>11, <3>1, <3>2 DEF ProcessStep
  <2>12. QED  BY <2>1, <2>2, <2>10, <2>11 DEF Next, vars, control
<1>3. QED  BY <1>1, <1>2, TypeCorrect, PTL DEF Spec

(* Whatever crashes, and however often execute is called, at most one task *)
(* of a round has external effects: no round is paid for twice.            *)
THEOREM NoRoundExecutedTwice == Spec => []OneEffectfulTask
<1>1. ExecutionInv => OneEffectfulTask
  BY DEF ExecutionInv
<1>2. QED  BY <1>1, ExecutionIsInvariant, PTL

-----------------------------------------------------------------------------
(* Processes and rows                                                      *)

(* Where the supervisor of a task stands says how far its runner can be,   *)
(* and the runner how far the worker: no process exists before the one     *)
(* that starts it, and none of a runner is left once its end is marked.    *)
RunnerFollows ==
  \A t \in Tasks :
    /\ tasks[t].state = "none" <=> sup[t] = "none"
    /\ sup[t] \in {"none", "launching", "spawned", "owner"} => runner[t] = "none"
    /\ sup[t] \in {"started", "registered"} => runner[t] \in {"waiting", "dead"}
    /\ sup[t] = "marking" => runner[t] \notin RunnerAlive
    /\ runner[t] \in {"none", "waiting", "released", "early"} => worker[t] = "none"

(* The process ids are durable before the processes they name can do       *)
(* anything: a collect that finds none of them alive leaves nobody behind. *)
IdsAreDurable ==
  \A t \in Tasks :
    /\ tasks[t].proc = "none" =>
         /\ sup[t] \in {"none", "launching", "spawned", "closing", "marking", "gone"}
         /\ runner[t] = "none"
    /\ sup[t] = "registered" \/ runner[t] \in {"released", "working", "done"} =>
         tasks[t].proc = "runner"

(* The supervisor of a task that has ended is gone or about to go, and its *)
(* runner is not at work.                                                  *)
EndedIsLeft ==
  \A t \in Tasks :
    /\ tasks[t].state = "EXITED" => sup[t] = "gone"
    /\ tasks[t].state \in {"EXITED", "COLLECTED"} =>
         /\ sup[t] \in {"launching", "spawned", "closing", "marking", "gone"}
         /\ runner[t] \notin {"released", "working"}
    /\ tasks[t].reason # "none" => tasks[t].state \in {"EXITED", "COLLECTED"}

(* Local variables die with the process that holds them. *)
LocalsBelong ==
  \A t \in Tasks :
    /\ inflight[t] # NoId => runner[t] = "working"
    /\ evaluating[t] # NoId =>
         worker[t] = "alive" \/ (worker[t] = "none" /\ runner[t] = "working")

(* Where trees end as a whole, a supervisor that closes its tree or dies,  *)
(* and a task that is collected, leave no process.                         *)
TreesAreEnded ==
  JobObject =>
    \A t \in Tasks : sup[t] \in {"marking", "gone"} \/ tasks[t].state = "COLLECTED" => ~Busy(t)

ProcessInv == RunnerFollows /\ IdsAreDurable /\ EndedIsLeft /\ LocalsBelong /\ TreesAreEnded

-----------------------------------------------------------------------------
(* Rounds                                                                  *)

(* Only the task that collect looks at is live, ... *)
LiveIsActive == \A t \in Tasks : tasks[t].state \in LiveTask => t = Active.task

(* ... which is a task of the active round; no task is of a later one. *)
TasksAreHere ==
  /\ Active.task \in Tasks =>
       tasks[Active.task].state # "none" /\ tasks[Active.task].round = activeRound
  /\ \A t \in Tasks : tasks[t].state # "none" => tasks[t].round <= activeRound

(* RoundAgreesWithTasks task by task, with the states that a round has     *)
(* while its run is running.                                               *)
Marked(t) == tasks[t].state # "none" /\ tasks[t].round = activeRound /\ tasks[t].effect

RoundIsWhereTasksAre ==
  runState = "RUNNING" =>
    \/ /\ Active.state \in {"WAITING_FOR_PLAN", "READY_TO_EXECUTE"}
       /\ \A t \in Tasks : ~Marked(t)
       /\ Active.state = "WAITING_FOR_PLAN" => Active.task = NoId
    \/ /\ Active.state \in {"EXECUTING", "WAITING_FOR_EVALUATION", "READY_TO_FINISH"}
       /\ Active.task \in Tasks /\ Marked(Active.task)
       /\ \A t \in Tasks : Marked(t) => t = Active.task
       /\ Active.state = "EXECUTING" <=> tasks[Active.task].state # "COLLECTED"

(* The task of a run that has ended is collected; the one of a failed run  *)
(* has had no effects, and may be collected once, late.                    *)
EndedIsCollected ==
  /\ runState \in {"STOPPED", "COMPLETED"} /\ Active.task \in Tasks =>
       tasks[Active.task].state = "COLLECTED"
  /\ runState = "FAILED" =>
       /\ \A t \in Tasks : tasks[t].state \notin LiveTask /\ ~Marked(t)
       /\ Active.state # "FAILED" =>
            Active.task \in Tasks /\ tasks[Active.task].state = "COLLECTED"

RoundInv ==
  /\ LiveIsActive /\ TasksAreHere /\ RoundIsWhereTasksAre
  /\ EndedIsDrained /\ EndedIsCollected

(* The go line is written for a task whose launch was marked, unless a     *)
(* stop had come first.                                                    *)
GoIsMarked ==
  \A t \in Tasks :
    /\ sup[t] = "registered" \/ runner[t] = "released"
    /\ tasks[t].state = "RUNNING" /\ runState = "RUNNING"
    => tasks[t].effect

MarkInv == GoIsMarked /\ WorkIsMarked

-----------------------------------------------------------------------------
(* Ledgers                                                                 *)

(* A row belongs to a task with effects, and what a process holds in a     *)
(* local variable is a row of its own that is still open.                  *)
RowsAreOwned ==
  /\ \A q \in Requests : requests[q].state # "none" =>
       requests[q].task \in Tasks /\ tasks[requests[q].task].effect
  /\ \A c \in SolverCalls :
       IF solverCalls[c].state = "none"
       THEN solverCalls[c].task = NoId /\ solverCalls[c].log = "none"
       ELSE solverCalls[c].task \in Tasks /\ tasks[solverCalls[c].task].effect
  /\ \A t \in Tasks : inflight[t] # NoId =>
       requests[inflight[t]].task = t /\ requests[inflight[t]].state \in OpenRequest
  /\ \A t \in Tasks : evaluating[t] # NoId =>
       solverCalls[evaluating[t]].task = t /\ solverCalls[evaluating[t]].state # "none"

(* What a round found is kept: it is found by the task that is collected.  *)
FoundByCollect ==
  /\ Active.before => Active.after
  /\ Active.after /\ ~Active.before =>
       /\ Active.task \in Tasks
       /\ tasks[Active.task].state = "COLLECTED" /\ tasks[Active.task].effect

(* The rows and the variables of one task, as the proofs need them. *)
LEMMA ProcessTypes ==
  ASSUME TypeOK
  PROVE  /\ tasks \in [Tasks -> TaskRow] /\ sup \in [Tasks -> SupStates]
         /\ runner \in [Tasks -> RunnerStates] /\ worker \in [Tasks -> {"none", "alive", "dead"}]
         /\ inflight \in [Tasks -> Requests \cup {NoId}]
         /\ evaluating \in [Tasks -> SolverCalls \cup {NoId}]
BY DEF TypeOK

-----------------------------------------------------------------------------
(* What the steps that write a task write in its row.                      *)

(* The other columns of row u. *)
SameTask(u) ==
  /\ tasks'[u].round = tasks[u].round /\ tasks'[u].effect = tasks[u].effect
  /\ tasks'[u].proc = tasks[u].proc

LEMMA TerminalRow ==
  ASSUME TypeOK, NEW t \in Tasks, MarkTerminal(t), tasks[t].state \in LiveTask
  PROVE  /\ \A u \in Tasks \ {t} : tasks'[u] = tasks[u]
         /\ tasks'[t].state = "EXITED" /\ SameTask(t)
<1>1. /\ tasks \in [Tasks -> TaskRow] /\ tasks[t] \in TaskRow
      /\ tasks' = [tasks EXCEPT ![t] =
                     [tasks[t] EXCEPT !.state = "EXITED", !.reason = supReason[t]]]
  BY DEF MarkTerminal, TypeOK
<1>2. QED  BY <1>1 DEF SameTask, TaskRow

LEMMA CollectRow ==
  ASSUME TypeOK, NEW t \in Tasks, NEW found \in BOOLEAN, Collect(t, found)
  PROVE  /\ \A u \in Tasks \ {t} : tasks'[u] = tasks[u]
         /\ tasks'[t].state = "COLLECTED" /\ SameTask(t)
         /\ \/ tasks[t].state = "EXITED"
            \/ tasks[t].state \in LiveTask /\ SeemsDead(t)
<1>1. /\ tasks \in [Tasks -> TaskRow] /\ tasks[t] \in TaskRow
      /\ tasks' = [tasks EXCEPT ![t] = CollectedRow(t)]
  BY DEF Collect, TypeOK
<1>2. tasks[t].state = "EXITED" \/ (tasks[t].state \in LiveTask /\ SeemsDead(t))
  BY DEF Collect, Recoverable, SeemsDead
<1>3. QED  BY <1>1, <1>2 DEF CollectedRow, SameTask, TaskRow

LEMMA ObservedRow ==
  ASSUME TypeOK, NEW t \in Tasks, ObserveDead(t) \/ Age(t)
  PROVE  \A u \in Tasks : /\ tasks'[u].state = tasks[u].state
                          /\ tasks'[u].reason = tasks[u].reason /\ SameTask(u)
<1>1. /\ tasks \in [Tasks -> TaskRow] /\ tasks[t] \in TaskRow
      /\ \/ tasks' = [tasks EXCEPT ![t].heartbeat = "fresh"]
         \/ tasks' = [tasks EXCEPT ![t].heartbeat = "aged"]
  BY DEF ObserveDead, Age, TypeOK
<1>2. QED  BY <1>1 DEF SameTask, TaskRow

LEMMA StoppedRows ==
  ASSUME TypeOK, Stop
  PROVE  \A u \in Tasks :
           /\ tasks'[u].reason = tasks[u].reason /\ SameTask(u)
           /\ \/ tasks'[u].state = tasks[u].state
              \/ tasks[u].state \in LiveTask /\ tasks'[u].state = "STOP_REQUESTED"
<1>1. SUFFICES ASSUME NEW u \in Tasks
               PROVE  /\ tasks'[u].reason = tasks[u].reason /\ SameTask(u)
                      /\ \/ tasks'[u].state = tasks[u].state
                         \/ tasks[u].state \in LiveTask /\ tasks'[u].state = "STOP_REQUESTED"
  OBVIOUS
<1>2. /\ tasks[u] \in TaskRow
      /\ \/ tasks'[u] = tasks[u]
         \/ /\ tasks'[u] = [tasks[u] EXCEPT !.state = "STOP_REQUESTED"]
            /\ tasks[u].state \in LiveTask
  BY DEF Stop, TypeOK, LiveTask
<1>3. QED  BY <1>2 DEF SameTask, TaskRow

(* The ledgers mark an effect and leave the rest of the rows alone. *)
LEMMA MarkedRow ==
  ASSUME TypeOK, NEW t \in Tasks, MarkEffect(t)
  PROVE  /\ \A u \in Tasks \ {t} : tasks'[u] = tasks[u]
         /\ tasks'[t].state = tasks[t].state /\ tasks'[t].reason = tasks[t].reason
         /\ tasks'[t].round = tasks[t].round /\ tasks'[t].proc = tasks[t].proc
         /\ tasks'[t].effect
<1>1. /\ tasks \in [Tasks -> TaskRow] /\ tasks[t] \in TaskRow
      /\ \/ tasks' = tasks /\ tasks[t].effect
         \/ tasks' = [tasks EXCEPT ![t].effect = TRUE]
  BY DEF MarkEffect, TypeOK
<1>2. QED  BY <1>1 DEF TaskRow

LEMMA RegisteredRow ==
  ASSUME TypeOK, NEW t \in Tasks, RegisterRunner(t)
  PROVE  /\ \A u \in Tasks \ {t} : tasks'[u] = tasks[u]
         /\ tasks'[t].state = tasks[t].state /\ tasks'[t].reason = tasks[t].reason
         /\ tasks'[t].round = tasks[t].round /\ tasks'[t].proc = "runner"
         /\ LaunchMarks(t) => tasks'[t].effect = TRUE
         /\ ~LaunchMarks(t) => tasks'[t].effect = tasks[t].effect
<1>1. /\ tasks \in [Tasks -> TaskRow] /\ tasks[t] \in TaskRow
      /\ tasks' = [tasks EXCEPT ![t] =
                     [tasks[t] EXCEPT !.proc = "runner", !.effect = MarkedBy(t)]]
  BY DEF RegisterRunner, TypeOK
<1>2. QED  BY <1>1 DEF MarkedBy, TaskRow

LEMMA OwnedRow ==
  ASSUME TypeOK, NEW t \in Tasks, Own(t)
  PROVE  /\ \A u \in Tasks \ {t} : tasks'[u] = tasks[u]
         /\ tasks[t].state = "STARTING" /\ tasks'[t].state = "RUNNING"
         /\ tasks'[t].reason = tasks[t].reason /\ tasks'[t].proc = "supervisor"
         /\ tasks'[t].round = tasks[t].round /\ tasks'[t].effect = tasks[t].effect
<1>1. /\ tasks \in [Tasks -> TaskRow] /\ tasks[t] \in TaskRow /\ tasks[t].state = "STARTING"
      /\ tasks' = [tasks EXCEPT ![t] =
                     [tasks[t] EXCEPT !.state = "RUNNING", !.proc = "supervisor"]]
  BY DEF Own, MayOwn, TypeOK
<1>2. QED  BY <1>1 DEF TaskRow

LEMMA SupervisorKeepsProcesses ==
  ASSUME TypeOK, ProcessInv, NEW t \in Tasks, SupervisorWork(t) \/ SupCrash(t)
  PROVE  ProcessInv'
<1> USE ProcessTypes, ConstantsAssumption
    DEF ProcessInv, RunnerFollows, IdsAreDurable, EndedIsLeft, LocalsBelong, TreesAreEnded,
        Busy, RunnerAlive, TaskRow
<1>1. CASE Launch(t) \/ LaunchFails(t) \/ NotOwned(t) \/ OwnFails(t) \/ SupervisorFails(t)
  BY <1>1 DEF Launch, LaunchFails, NotOwned, OwnFails, MayOwn, SupervisorFails, control, local
<1>2. CASE Own(t)
  BY <1>2 DEF Own, MayOwn, local
<1>3. CASE SpawnRunner(t)
  BY <1>3 DEF SpawnRunner, control, local
<1>4. CASE Release(t)
  BY <1>4 DEF Release, control, local
<1>5. CASE RegisterRunner(t)
  BY <1>5 DEF RegisterRunner, local
<1>6. ASSUME NEW reason \in {"DEADLINE_EXCEEDED", "CANCELLED"}, MonitorKill(t, reason)
      PROVE  ProcessInv'
  BY <1>6 DEF MonitorKill, TreeKill, ForgetLocal, control
<1>7. CASE RunnerExited(t)
  BY <1>7 DEF RunnerExited, control, local
<1>8. ASSUME NEW reason \in TerminalReasons, ReadSummary(t, reason) PROVE ProcessInv'
  BY <1>8 DEF ReadSummary, control, local
<1>9. CASE Close(t)
  BY <1>9 DEF Close, TreeClose, TreeKill, ForgetLocal, control
<1>10. CASE MarkTerminal(t)
  <2>1. CASE tasks[t].state \notin LiveTask
    BY <1>10, <2>1 DEF MarkTerminal, local
  <2>2. CASE tasks[t].state \in LiveTask
    <3>1. /\ \A u \in Tasks \ {t} : tasks'[u] = tasks[u]
          /\ tasks'[t].state = "EXITED" /\ tasks'[t].proc = tasks[t].proc
      BY <1>10, <2>2, TerminalRow DEF SameTask
    <3>2. /\ sup[t] = "marking" /\ sup' = [sup EXCEPT ![t] = "gone"]
          /\ UNCHANGED <<runner, worker, inflight, evaluating>>
      BY <1>10 DEF MarkTerminal, local
    <3>3. QED  BY <3>1, <3>2
  <2>3. QED BY <2>1, <2>2
<1>11. CASE SupCrash(t)
  BY <1>11 DEF SupCrash, TreeClose, TreeKill, ForgetLocal, control, local
<1>12. QED  BY <1>1, <1>2, <1>3, <1>4, <1>5, <1>6, <1>7, <1>8, <1>9, <1>10, <1>11 DEF SupervisorWork

LEMMA RunnerKeepsProcesses ==
  ASSUME TypeOK, ProcessInv, NEW t \in Tasks, RunnerWork(t)
  PROVE  ProcessInv'
<1> USE ProcessTypes DEF ProcessInv, RunnerFollows, IdsAreDurable, EndedIsLeft, LocalsBelong,
                         TreesAreEnded, Busy, RunnerAlive, control, local
<1>1. CASE RunnerStart(t)
  BY <1>1 DEF RunnerStart
<1>2. CASE RunnerEOF(t)
  BY <1>2 DEF RunnerEOF
<1>3. CASE StartWorker(t)
  BY <1>3 DEF StartWorker
<1>4. CASE RunnerWatchdog(t) \/ RunnerCrash(t)
  BY <1>4 DEF RunnerWatchdog, RunnerCrash, RunnerDies, ForgetLocal
<1>5. CASE WorkerExit(t) \/ WorkerWatchdog(t)
  BY <1>5 DEF WorkerExit, WorkerWatchdog, WorkerDies, ForgetLocal
<1>6. CASE RunnerFinish(t)
  BY <1>6 DEF RunnerFinish, ForgetLocal
<1>7. QED  BY <1>1, <1>2, <1>3, <1>4, <1>5, <1>6 DEF RunnerWork

LEMMA LedgerKeepsProcesses ==
  ASSUME TypeOK, ProcessInv, NEW t \in Tasks, LedgerStep(t)
  PROVE  ProcessInv'
<1>1. /\ UNCHANGED procs
      /\ \A u \in Tasks : /\ tasks'[u].state = tasks[u].state /\ tasks'[u].proc = tasks[u].proc
                          /\ tasks'[u].reason = tasks[u].reason
  BY MarkedRow
  DEF LedgerStep, Reserve, MarkSent, FinishRequest, StartEvaluation, LogEvaluation,
      FinishEvaluation, control
<1>2. LocalsBelong'
  BY ProcessTypes
  DEF LedgerStep, Reserve, MarkSent, FinishRequest, StartEvaluation, LogEvaluation,
      FinishEvaluation, procs, local, BridgeUp, CanEvaluate, ProcessInv, LocalsBelong
<1>3. QED
  BY <1>1, <1>2 DEF ProcessInv, RunnerFollows, IdsAreDurable, EndedIsLeft, TreesAreEnded,
                    Busy, procs

(* Collect only takes what has ended, or what looks dead: in both cases    *)
(* nobody is left who could go on with the task.                           *)
LEMMA CollectKeepsProcesses ==
  ASSUME TypeOK, ProcessInv, NEW t \in Tasks, NEW found \in BOOLEAN, Collect(t, found)
  PROVE  ProcessInv'
<1>1. /\ \A u \in Tasks \ {t} : tasks'[u] = tasks[u]
      /\ tasks'[t].state = "COLLECTED" /\ tasks'[t].proc = tasks[t].proc
  BY CollectRow DEF SameTask
<1>2. UNCHANGED <<sup, runner, worker, inflight, evaluating>>
  BY DEF Collect, procs, local
<1>3. tasks[t].state # "none"
  BY CollectRow DEF LiveTask
<1>4. /\ tasks[t].proc \in {"none", "supervisor", "runner"}
      /\ \/ tasks[t].state = "EXITED"
         \/ /\ tasks[t].proc # "none" => sup[t] = "gone"
            /\ tasks[t].proc = "runner" => runner[t] \notin RunnerAlive
  BY CollectRow, ProcessTypes DEF SeemsDead, TaskRow
<1>5. /\ sup[t] \in {"launching", "spawned", "closing", "marking", "gone"}
      /\ runner[t] \notin {"released", "working"}
  <2>1. CASE tasks[t].state = "EXITED"
    BY <2>1 DEF ProcessInv, EndedIsLeft
  <2>2. CASE tasks[t].state # "EXITED"
    BY <1>3, <1>4, <2>2 DEF ProcessInv, RunnerFollows, IdsAreDurable, RunnerAlive
  <2>3. QED  BY <2>1, <2>2
<1>6. ASSUME JobObject PROVE ~Busy(t)
  <2>1. CASE tasks[t].proc = "none"
    BY <2>1 DEF ProcessInv, RunnerFollows, IdsAreDurable, RunnerAlive, Busy
  <2>2. CASE sup[t] = "gone"
    BY <1>6, <2>2 DEF ProcessInv, TreesAreEnded
  <2>3. QED  BY <1>4, <2>1, <2>2 DEF ProcessInv, EndedIsLeft
<1>7. RunnerFollows' /\ LocalsBelong'
  BY <1>1, <1>2, <1>3 DEF ProcessInv, RunnerFollows, LocalsBelong
<1>8. IdsAreDurable'
  BY <1>1, <1>2 DEF ProcessInv, IdsAreDurable
<1>9. EndedIsLeft'
  BY <1>1, <1>2, <1>5 DEF ProcessInv, EndedIsLeft
<1>10. TreesAreEnded'
  BY <1>1, <1>2, <1>6 DEF ProcessInv, TreesAreEnded, Busy
<1>11. QED  BY <1>7, <1>8, <1>9, <1>10 DEF ProcessInv

LEMMA AgentKeepsProcesses ==
  ASSUME TypeOK, ProcessInv, AgentStep
  PROVE  ProcessInv'
<1> USE ProcessTypes DEF ProcessInv, RunnerFollows, IdsAreDurable, EndedIsLeft, LocalsBelong,
                         TreesAreEnded, Busy, procs, local, TaskRow
<1>1. ASSUME NEW t \in Tasks, Execute(t) PROVE ProcessInv'
  BY <1>1 DEF Execute, NoTaskRow
<1>2. ASSUME NEW t \in Tasks, ObserveDead(t) \/ Age(t) PROVE ProcessInv'
  BY <1>2, ObservedRow DEF ObserveDead, Age, SameTask
<1>3. ASSUME NEW t \in Tasks, NEW found \in BOOLEAN, Collect(t, found) PROVE ProcessInv'
  BY <1>3, CollectKeepsProcesses
<1>4. CASE Stop
  <2>1. \A u \in Tasks :
           /\ tasks'[u].reason = tasks[u].reason /\ tasks'[u].proc = tasks[u].proc
           /\ \/ tasks'[u].state = tasks[u].state
              \/ /\ tasks[u].state \notin {"none", "EXITED", "COLLECTED"}
                 /\ tasks'[u].state = "STOP_REQUESTED"
    BY <1>4, StoppedRows DEF SameTask, LiveTask
  <2>2. UNCHANGED <<sup, runner, worker, inflight, evaluating>>
    BY <1>4 DEF Stop
  <2>3. QED  BY <2>1, <2>2
<1>5. CASE UNCHANGED <<tasks, procs, local>>
  BY <1>5
<1>6. QED
  BY <1>1, <1>2, <1>3, <1>4, <1>5
  DEF AgentStep, CollectStep, SubmitPlan, ExecuteRefused, SubmitEvaluation, MemoryRevise,
      CommitMemory, FinishContinue, FinishComplete

-----------------------------------------------------------------------------
(* Rounds and tasks                                                        *)

LEMMA RoundTypes ==
  ASSUME TypeOK
  PROVE  /\ activeRound \in Rounds /\ activeRound \in Nat /\ Rounds \subseteq Nat
         /\ rounds \in [Rounds -> RoundRow] /\ Active \in RoundRow
         /\ runState \in RunStates
BY DEF TypeOK, Active, Rounds

(* What the invariant looks at does not change. *)
SameTasks ==
  \A u \in Tasks : /\ tasks'[u].state = tasks[u].state /\ tasks'[u].round = tasks[u].round
                   /\ tasks'[u].effect = tasks[u].effect
SameActive ==
  activeRound' = activeRound /\ Active'.state = Active.state /\ Active'.task = Active.task

LEMMA SameKeepsRound ==
  ASSUME RoundInv, SameTasks, SameActive, runState' = runState
  PROVE  RoundInv'
BY DEF RoundInv, LiveIsActive, TasksAreHere, RoundIsWhereTasksAre, EndedIsDrained,
       EndedIsCollected, Marked, SameTasks, SameActive

(* A task that becomes, or stays, live; the run may begin to stop. *)
LEMMA LiveKeepsRound ==
  ASSUME RoundInv, SameActive,
         runState' = runState \/ runState' = "STOPPING",
         \A u \in Tasks :
           /\ tasks'[u].round = tasks[u].round /\ tasks'[u].effect = tasks[u].effect
           /\ \/ tasks'[u].state = tasks[u].state
              \/ tasks[u].state \in LiveTask /\ tasks'[u].state \in LiveTask
  PROVE  RoundInv'
BY DEF RoundInv, LiveIsActive, TasksAreHere, RoundIsWhereTasksAre, EndedIsDrained,
       EndedIsCollected, Marked, SameActive, LiveTask

(* A live task ends. *)
LEMMA EndKeepsRound ==
  ASSUME RoundInv, SameActive, runState' = runState, NEW t \in Tasks,
         tasks[t].state \in LiveTask, tasks'[t].state = "EXITED",
         tasks'[t].round = tasks[t].round, tasks'[t].effect = tasks[t].effect,
         \A u \in Tasks \ {t} : tasks'[u] = tasks[u]
  PROVE  RoundInv'
BY DEF RoundInv, LiveIsActive, TasksAreHere, RoundIsWhereTasksAre, EndedIsDrained,
       EndedIsCollected, Marked, SameActive, LiveTask

(* The effect of a task that is running. *)
LEMMA EffectKeepsRound ==
  ASSUME TypeOK, RoundInv, ExecutionInv, NEW t \in Tasks,
         tasks[t].state = "RUNNING", runState = "RUNNING", runState' = runState,
         \A u \in Tasks \ {t} : tasks'[u] = tasks[u],
         tasks'[t].state = tasks[t].state, tasks'[t].round = tasks[t].round,
         tasks'[t].effect,
         activeRound' = activeRound, Active'.task = Active.task,
         Active'.state = "EXECUTING" \/ (tasks[t].effect /\ Active'.state = Active.state)
  PROVE  RoundInv' /\ (tasks[t].effect => Active.state = "EXECUTING")
                   /\ (~tasks[t].effect => Active.state = "READY_TO_EXECUTE")
<1>1. t = Active.task /\ tasks[t].round = activeRound
  BY DEF RoundInv, LiveIsActive, TasksAreHere, LiveTask
<1>2. \A u \in Tasks \ {t} : ~Marked(u)
  BY <1>1 DEF ExecutionInv, LiveIsAlone, Marked, LiveTask
<1>3. tasks[t].effect => Active.state = "EXECUTING"
  BY <1>1 DEF RoundInv, RoundIsWhereTasksAre, Marked
<1>4. ~tasks[t].effect => Active.state = "READY_TO_EXECUTE"
  BY <1>1, ConstantsAssumption DEF RoundInv, RoundIsWhereTasksAre, Marked
<1>5. Active'.state = "EXECUTING"
  BY <1>3
<1>6. RoundIsWhereTasksAre'
  BY <1>1, <1>2, <1>5 DEF RoundIsWhereTasksAre, Marked
<1>7. LiveIsActive' /\ TasksAreHere'
  BY <1>1 DEF RoundInv, LiveIsActive, TasksAreHere
<1>8. QED  BY <1>3, <1>4, <1>6, <1>7 DEF RoundInv, EndedIsDrained, EndedIsCollected

LEMMA ExecuteKeepsRound ==
  ASSUME TypeOK, RoundInv, NEW t \in Tasks, Execute(t)
  PROVE  RoundInv'
<1>1. /\ tasks'[t].state = "STARTING" /\ tasks'[t].round = activeRound /\ ~tasks'[t].effect
      /\ \A u \in Tasks \ {t} : tasks'[u] = tasks[u]
  BY ProcessTypes DEF Execute, NoTaskRow
<1>2. /\ runState = "RUNNING" /\ runState' = "RUNNING" /\ activeRound' = activeRound
      /\ Active.state = "READY_TO_EXECUTE"
  BY DEF Execute, MayExecute, RequireState
<1>3. Active'.state = "READY_TO_EXECUTE" /\ Active'.task = t
  BY <1>2, RoundTypes DEF Execute, Active, RoundRow
<1>4. \A u \in Tasks : tasks[u].state \notin LiveTask
  BY DEF RoundInv, LiveIsActive, TasksAreHere, Execute, MayExecute, LiveTaskExists, TasksOf,
         LiveTask
<1>5. LiveIsActive'
  BY <1>1, <1>3, <1>4 DEF LiveIsActive
<1>6. TasksAreHere'
  BY <1>1, <1>2, <1>3, RoundTypes DEF RoundInv, TasksAreHere
<1>7. RoundIsWhereTasksAre'
  BY <1>1, <1>2, <1>3 DEF RoundInv, RoundIsWhereTasksAre, Marked
<1>8. QED  BY <1>2, <1>5, <1>6, <1>7 DEF RoundInv, EndedIsDrained, EndedIsCollected

LEMMA RefusedKeepsRound ==
  ASSUME TypeOK, RoundInv, ExecuteRefused
  PROVE  RoundInv'
<1>1. /\ runState' = "FAILED" /\ activeRound' = activeRound /\ UNCHANGED tasks
      /\ runState = "RUNNING" /\ Active.state = "READY_TO_EXECUTE"
  BY DEF ExecuteRefused, MayExecute, RequireState
<1>2. Active'.state = "FAILED" /\ Active'.task = Active.task
  BY <1>1, RoundTypes DEF ExecuteRefused, Active, RoundRow
<1>3. \A u \in Tasks : tasks[u].state \notin LiveTask /\ ~Marked(u)
  BY <1>1
  DEF RoundInv, LiveIsActive, TasksAreHere, RoundIsWhereTasksAre, ExecuteRefused, MayExecute,
      LiveTaskExists, TasksOf, LiveTask
<1>4. QED
  BY <1>1, <1>2, <1>3 DEF RoundInv, LiveIsActive, TasksAreHere, RoundIsWhereTasksAre,
       EndedIsDrained, EndedIsCollected, Marked

LEMMA CollectKeepsRound ==
  ASSUME TypeOK, RoundInv, NEW t \in Tasks, NEW found \in BOOLEAN, Collect(t, found)
  PROVE  RoundInv'
<1>1. /\ \A u \in Tasks \ {t} : tasks'[u] = tasks[u]
      /\ tasks'[t].state = "COLLECTED" /\ tasks'[t].round = tasks[t].round
      /\ tasks'[t].effect = tasks[t].effect
      /\ tasks[t].state \notin {"none", "COLLECTED"}
  BY CollectRow DEF SameTask, LiveTask
<1>2. /\ Active.task = t /\ activeRound' = activeRound
      /\ Active'.state = AfterCollect(t) /\ Active'.task = t
  BY RoundTypes DEF Collect, Active, RoundRow
<1>3. runState' = IF runState = "STOPPING" THEN "STOPPED" ELSE runState
  BY DEF Collect
<1>4. /\ runState \notin {"STOPPED", "COMPLETED"}
      /\ runState = "FAILED" => Active.state = "FAILED" /\ ~tasks[t].effect
  BY <1>1, <1>2 DEF RoundInv, EndedIsCollected, TasksAreHere, Marked
<1>5. LiveIsActive' /\ TasksAreHere'
  BY <1>1, <1>2 DEF RoundInv, LiveIsActive, TasksAreHere, LiveTask
<1>6. RoundIsWhereTasksAre'
  <2>1. SUFFICES ASSUME runState = "RUNNING", runState' = "RUNNING"
                 PROVE  RoundIsWhereTasksAre'
    BY <1>3 DEF RoundIsWhereTasksAre
  <2>2. CASE tasks[t].effect
    BY <1>1, <1>2, <2>1, <2>2 DEF RoundInv, RoundIsWhereTasksAre, TasksAreHere, AfterCollect, Marked
  <2>3. CASE ~tasks[t].effect
    BY <1>1, <1>2, <2>1, <2>3 DEF RoundInv, RoundIsWhereTasksAre, TasksAreHere, AfterCollect, Marked
  <2>4. QED  BY <2>2, <2>3
<1>7. EndedIsDrained'
  BY <1>1, <1>2, <1>3, <1>4 DEF RoundInv, LiveIsActive, EndedIsDrained, LiveTask
<1>8. EndedIsCollected'
  BY <1>1, <1>2, <1>3, <1>4 DEF RoundInv, LiveIsActive, EndedIsCollected, Marked, LiveTask
<1>9. QED  BY <1>5, <1>6, <1>7, <1>8 DEF RoundInv

LEMMA StopKeepsRound ==
  ASSUME TypeOK, RoundInv, Stop
  PROVE  RoundInv'
<1>1. runState = "RUNNING" /\ activeRound' = activeRound
  BY DEF Stop, MayStop
<1>2. CASE MustDrain
  <2>1. SameActive /\ runState' = "STOPPING"
    BY <1>1, <1>2 DEF Stop, SameActive, Active
  <2>2. \A u \in Tasks :
          /\ tasks'[u].round = tasks[u].round /\ tasks'[u].effect = tasks[u].effect
          /\ \/ tasks'[u].state = tasks[u].state
             \/ tasks[u].state \in LiveTask /\ tasks'[u].state \in LiveTask
    BY StoppedRows DEF SameTask, LiveTask
  <2>3. QED  BY <2>1, <2>2, LiveKeepsRound
<1>3. CASE ~MustDrain
  <2>1. /\ runState' = "STOPPED" /\ UNCHANGED tasks
        /\ Active'.state = "STOPPED" /\ Active'.task = Active.task
    BY <1>1, <1>3, RoundTypes DEF Stop, Active, RoundRow
  <2>2. \A u \in Tasks : tasks[u].state # "none" /\ tasks[u].round = activeRound =>
           tasks[u].state = "COLLECTED"
    BY <1>3 DEF MustDrain, TasksOf
  <2>3. \A u \in Tasks : tasks[u].state \notin LiveTask
    BY <2>2 DEF RoundInv, LiveIsActive, TasksAreHere, LiveTask
  <2>4. Active.task \in Tasks => tasks[Active.task].state = "COLLECTED"
    BY <2>2 DEF RoundInv, TasksAreHere
  <2>5. QED
    BY <1>1, <2>1, <2>3, <2>4 DEF RoundInv, LiveIsActive, TasksAreHere, RoundIsWhereTasksAre,
         EndedIsDrained, EndedIsCollected
<1>4. QED  BY <1>2, <1>3

(* The moves of the round that leave its tasks alone. *)
LEMMA PhaseKeepsRound ==
  ASSUME TypeOK, RoundInv, SubmitPlan \/ \E m \in MemoryStates : SubmitEvaluation(m)
  PROVE  RoundInv'
<1>1. /\ runState = "RUNNING" /\ runState' = runState /\ activeRound' = activeRound
      /\ UNCHANGED tasks
  BY DEF SubmitPlan, SubmitEvaluation, RequireState
<1>2. Active'.task = Active.task
  BY RoundTypes DEF SubmitPlan, SubmitEvaluation, Active, RoundRow
<1>3. \/ Active.state = "WAITING_FOR_PLAN" /\ Active'.state = "READY_TO_EXECUTE"
      \/ Active.state = "WAITING_FOR_EVALUATION" /\ Active'.state = "READY_TO_FINISH"
  <2>1. CASE SubmitPlan
    BY <2>1, RoundTypes DEF SubmitPlan, RequireState, Active, RoundRow
  <2>2. ASSUME NEW m \in MemoryStates, SubmitEvaluation(m)
        PROVE  /\ Active.state = "WAITING_FOR_EVALUATION"
               /\ Active'.state = "READY_TO_FINISH"
    <3>1. /\ Active.state = "WAITING_FOR_EVALUATION"
          /\ rounds' = [rounds EXCEPT ![activeRound] =
                          [rounds[activeRound] EXCEPT !.state = "READY_TO_FINISH", !.memory = m]]
      BY <2>2 DEF SubmitEvaluation, RequireState
    <3>2. QED  BY <1>1, <3>1, RoundTypes DEF Active, RoundRow
  <2>3. QED  BY <2>1, <2>2
<1>4. QED
  BY <1>1, <1>2, <1>3 DEF RoundInv, LiveIsActive, TasksAreHere, RoundIsWhereTasksAre,
       EndedIsDrained, EndedIsCollected, Marked

LEMMA FinishKeepsRound ==
  ASSUME TypeOK, RoundInv, FinishContinue \/ FinishComplete
  PROVE  RoundInv'
<1>1. /\ runState = "RUNNING" /\ Active.state = "READY_TO_FINISH" /\ UNCHANGED tasks
  BY DEF FinishContinue, FinishComplete, MayFinish, RequireState
<1>2. /\ Active.task \in Tasks /\ tasks[Active.task].state = "COLLECTED"
      /\ \A u \in Tasks : tasks[u].state \notin LiveTask
  BY <1>1 DEF RoundInv, RoundIsWhereTasksAre, LiveIsActive, LiveTask
<1>3. CASE FinishComplete
  <2>1. /\ runState' = "COMPLETED" /\ activeRound' = activeRound
        /\ Active'.state = "ROUND_COMPLETED" /\ Active'.task = Active.task
    BY <1>3, RoundTypes DEF FinishComplete, Active, RoundRow
  <2>2. QED
    BY <1>1, <1>2, <2>1 DEF RoundInv, LiveIsActive, TasksAreHere, RoundIsWhereTasksAre,
         EndedIsDrained, EndedIsCollected
<1>4. CASE FinishContinue
  <2>1. /\ runState' = "RUNNING" /\ activeRound' = activeRound + 1
        /\ activeRound + 1 \in Rounds
    BY <1>1, <1>4, RoundTypes, ConstantsAssumption DEF FinishContinue, Rounds
  <2>2. Active'.state = "WAITING_FOR_PLAN" /\ Active'.task = NoId
    BY <1>4, <2>1, RoundTypes DEF FinishContinue, Active, NextRoundRow, NoRoundRow
  <2>3. TasksAreHere' /\ \A u \in Tasks : ~Marked(u)'
    <3>1. \A u \in Tasks : tasks[u].round \in Nat
      BY ProcessTypes DEF TaskRow
    <3>2. QED
      BY <1>1, <2>1, <2>2, <3>1, RoundTypes, ConstantsAssumption DEF RoundInv, TasksAreHere, Marked
  <2>4. QED
    BY <1>1, <1>2, <2>1, <2>2, <2>3 DEF RoundInv, LiveIsActive, RoundIsWhereTasksAre,
         EndedIsDrained, EndedIsCollected
<1>5. QED  BY <1>3, <1>4

(* The steps of the processes that neither write a task nor a round. *)
LEMMA ControlOfProcesses ==
  ASSUME NEW t \in Tasks, ProcessStep(t)
  PROVE  \/ UNCHANGED control
         \/ Own(t) \/ RegisterRunner(t) \/ MarkTerminal(t)
         \/ /\ tasks[t].state = "RUNNING" /\ runState = "RUNNING"
            /\ MarkEffect(t) /\ UNCHANGED <<runState, activeRound, procs>>
BY DEF ProcessStep, LedgerStep, Reserve, MarkSent, FinishRequest, StartEvaluation, LogEvaluation,
       FinishEvaluation, SupervisorWork, Launch, LaunchFails, NotOwned, OwnFails, SpawnRunner,
       Release, SupervisorFails, MonitorKill, RunnerExited, ReadSummary, Close, SupCrash,
       RunnerWork, RunnerStart, RunnerEOF, RunnerWatchdog, RunnerCrash, RunnerDies, StartWorker,
       WorkerExit, WorkerWatchdog, WorkerDies, RunnerFinish, control

(* What marking an effect makes of the active round. *)
LEMMA MarkedRound ==
  ASSUME TypeOK, RoundInv, NEW t \in Tasks, tasks[t].state = "RUNNING",
         activeRound' = activeRound,
         \/ rounds' = [rounds EXCEPT ![tasks[t].round].state = "EXECUTING"]
         \/ UNCHANGED rounds /\ tasks[t].effect
  PROVE  /\ Active'.task = Active.task
         /\ \/ Active'.state = "EXECUTING"
            \/ tasks[t].effect /\ Active'.state = Active.state
<1>1. tasks[t].round = activeRound
  BY DEF RoundInv, LiveIsActive, TasksAreHere, LiveTask
<1>2. QED  BY <1>1, RoundTypes DEF Active, RoundRow

(* Both ways to mark an effect start the execution of the active round, or *)
(* find it executing.                                                      *)
LEMMA MarkingStep ==
  ASSUME TypeOK, RoundInv, ExecutionInv, NEW t \in Tasks,
         tasks[t].state = "RUNNING", runState = "RUNNING",
         \/ MarkEffect(t) /\ UNCHANGED <<runState, activeRound>>
         \/ RegisterRunner(t)
  PROVE  /\ RoundInv' /\ tasks'[t].effect /\ runState' = runState /\ activeRound' = activeRound
         /\ \A u \in Tasks \ {t} : tasks'[u] = tasks[u]
         /\ tasks'[t].state = tasks[t].state /\ tasks'[t].round = tasks[t].round
         /\ Active'.state = "EXECUTING" /\ Active'.task = Active.task
         /\ tasks[t].effect => Active.state = "EXECUTING"
         /\ ~tasks[t].effect => Active.state = "READY_TO_EXECUTE"
<1>1. /\ tasks'[t].effect /\ \A u \in Tasks \ {t} : tasks'[u] = tasks[u]
      /\ tasks'[t].state = tasks[t].state /\ tasks'[t].round = tasks[t].round
  BY MarkedRow, RegisteredRow DEF LaunchMarks
<1>2. /\ runState' = runState /\ activeRound' = activeRound
      /\ \/ rounds' = [rounds EXCEPT ![tasks[t].round].state = "EXECUTING"]
         \/ UNCHANGED rounds /\ tasks[t].effect
  BY DEF MarkEffect, RegisterRunner, LaunchMarks
<1>3. /\ Active'.task = Active.task
      /\ Active'.state = "EXECUTING" \/ (tasks[t].effect /\ Active'.state = Active.state)
  BY <1>2, MarkedRound
<1>4. QED  BY <1>1, <1>2, <1>3, EffectKeepsRound

LEMMA ProcessKeepsRound ==
  ASSUME TypeOK, RoundInv, ExecutionInv, NEW t \in Tasks, ProcessStep(t)
  PROVE  RoundInv'
<1>1. CASE UNCHANGED control
  BY <1>1, SameKeepsRound DEF control, SameTasks, SameActive, Active
<1>2. CASE Own(t)
  <2>1. SameActive /\ runState' = runState
    BY <1>2 DEF Own, SameActive, Active
  <2>2. QED  BY <1>2, <2>1, OwnedRow, LiveKeepsRound DEF LiveTask
<1>3. CASE RegisterRunner(t)
  <2>1. CASE LaunchMarks(t)
    BY <1>3, <2>1, MarkingStep DEF LaunchMarks
  <2>2. CASE ~LaunchMarks(t)
    <3>1. SameActive /\ runState' = runState
      BY <1>3, <2>2 DEF RegisterRunner, SameActive, Active
    <3>2. QED  BY <1>3, <2>2, <3>1, RegisteredRow, SameKeepsRound DEF SameTasks
  <2>3. QED  BY <2>1, <2>2
<1>4. CASE MarkTerminal(t)
  <2>1. SameActive /\ runState' = runState
    BY <1>4 DEF MarkTerminal, SameActive, Active
  <2>2. CASE tasks[t].state \in LiveTask
    BY <1>4, <2>1, <2>2, TerminalRow, EndKeepsRound DEF SameTask
  <2>3. CASE tasks[t].state \notin LiveTask
    BY <1>4, <2>1, <2>3, SameKeepsRound DEF MarkTerminal, SameTasks
  <2>4. QED  BY <2>2, <2>3
<1>5. CASE /\ tasks[t].state = "RUNNING" /\ runState = "RUNNING"
           /\ MarkEffect(t) /\ UNCHANGED <<runState, activeRound, procs>>
  BY <1>5, MarkingStep
<1>6. QED  BY <1>1, <1>2, <1>3, <1>4, <1>5, ControlOfProcesses

LEMMA AgentKeepsRound ==
  ASSUME TypeOK, RoundInv, AgentStep
  PROVE  RoundInv'
<1>1. ASSUME NEW t \in Tasks, ObserveDead(t) \/ Age(t) PROVE RoundInv'
  <2>1. SameActive /\ runState' = runState
    BY <1>1 DEF ObserveDead, Age, SameActive, Active
  <2>2. QED  BY <1>1, <2>1, ObservedRow, SameKeepsRound DEF SameTask, SameTasks
<1>2. CASE \/ MemoryRevise
           \/ \E r \in Rounds, status \in {"accepted", "rejected", "published", "failed"} :
                CommitMemory(r, status)
  <2>1. SameActive /\ runState' = runState /\ UNCHANGED tasks
    BY <1>2, RoundTypes DEF MemoryRevise, CommitMemory, SameActive, Active, RoundRow
  <2>2. QED  BY <2>1, SameKeepsRound DEF SameTasks
<1>3. ASSUME NEW m \in {"proposed", "none", "disabled"}, SubmitEvaluation(m) PROVE RoundInv'
  BY <1>3, PhaseKeepsRound, RoundNames
<1>4. QED
  BY <1>1, <1>2, <1>3, PhaseKeepsRound, ExecuteKeepsRound, RefusedKeepsRound, CollectKeepsRound,
     FinishKeepsRound, StopKeepsRound DEF AgentStep, CollectStep

-----------------------------------------------------------------------------
(* Marks                                                                   *)

(* Rows and runs that are RUNNING stay what they are: they were RUNNING    *)
(* before, and effects are not taken back.                                 *)
RunningStays ==
  /\ runState' = "RUNNING" => runState = "RUNNING"
  /\ \A u \in Tasks : /\ tasks'[u].state = "RUNNING" => tasks[u].state = "RUNNING"
                      /\ tasks[u].effect => tasks'[u].effect

LEMMA QuietKeepsMarks ==
  ASSUME MarkInv, RunningStays, UNCHANGED <<sup, runner>>
  PROVE  MarkInv'
BY DEF MarkInv, GoIsMarked, WorkIsMarked, RunningStays

LEMMA ProcessKeepsMarks ==
  ASSUME TypeOK, ProcessInv, MarkInv, NEW t \in Tasks, ProcessStep(t)
  PROVE  MarkInv'
<1>1. CASE Own(t)
  <2>1. /\ runner[t] = "none" /\ sup' = [sup EXCEPT ![t] = "owner"]
        /\ UNCHANGED <<runState, runner>>
    BY <1>1 DEF Own, ProcessInv, RunnerFollows
  <2>2. QED  BY <1>1, <2>1, OwnedRow, ProcessTypes DEF MarkInv, GoIsMarked, WorkIsMarked
<1>2. CASE RegisterRunner(t)
  <2>1. /\ sup[t] = "started" /\ sup' = [sup EXCEPT ![t] = "registered"]
        /\ UNCHANGED <<runState, runner>>
    BY <1>2 DEF RegisterRunner
  <2>2. runner[t] \in {"waiting", "dead"}
    BY <2>1 DEF ProcessInv, RunnerFollows
  <2>3. tasks[t].state = "RUNNING" /\ runState = "RUNNING" => tasks'[t].effect = TRUE
    BY <1>2, RegisteredRow DEF LaunchMarks
  <2>4. /\ \A u \in Tasks \ {t} : tasks'[u] = tasks[u]
        /\ tasks'[t].state = tasks[t].state
    BY <1>2, RegisteredRow
  <2>5. \A u \in Tasks \ {t} : sup'[u] = sup[u]
    BY <2>1, ProcessTypes
  <2>6. GoIsMarked'
    BY <2>1, <2>2, <2>3, <2>4, <2>5 DEF MarkInv, GoIsMarked
  <2>7. WorkIsMarked'
    BY <2>1, <2>2, <2>4 DEF MarkInv, WorkIsMarked
  <2>8. QED  BY <2>6, <2>7 DEF MarkInv
<1>3. CASE MarkTerminal(t)
  <2>1. /\ sup' = [sup EXCEPT ![t] = "gone"] /\ UNCHANGED <<runState, runner>>
    BY <1>3 DEF MarkTerminal
  <2>2. CASE tasks[t].state \in LiveTask
    BY <1>3, <2>1, <2>2, TerminalRow, ProcessTypes DEF MarkInv, GoIsMarked, WorkIsMarked, SameTask
  <2>3. CASE tasks[t].state \notin LiveTask
    BY <1>3, <2>1, <2>3, ProcessTypes DEF MarkTerminal, MarkInv, GoIsMarked, WorkIsMarked
  <2>4. QED  BY <2>2, <2>3
<1>4. CASE MarkEffect(t) /\ UNCHANGED <<runState, activeRound, procs>>
  BY <1>4, MarkedRow, QuietKeepsMarks DEF RunningStays, procs
<1>5. CASE UNCHANGED control /\ ~RunnerStart(t) /\ ~RegisterRunner(t)
  <2> DEFINE Kept == \A u \in Tasks :
                /\ sup'[u] = "registered" => sup[u] = "registered"
                /\ runner'[u] = "released" => runner[u] = "released" \/ sup[u] = "registered"
                /\ runner'[u] = "working" => runner[u] = "working"
  <2>1. ASSUME LedgerStep(t) PROVE Kept
    BY <2>1 DEF LedgerStep, Reserve, MarkSent, FinishRequest, StartEvaluation, LogEvaluation,
                FinishEvaluation, procs
  <2>2. ASSUME RunnerWork(t) PROVE Kept
    BY <1>5, <2>2, ProcessTypes
    DEF RunnerWork, RunnerEOF, RunnerWatchdog, RunnerCrash, RunnerDies, StartWorker,
        WorkerExit, WorkerWatchdog, WorkerDies, RunnerFinish
  <2>3. ASSUME Release(t) PROVE Kept
    BY <2>3, ProcessTypes DEF Release
  <2>4. ASSUME SupervisorWork(t) \/ SupCrash(t) PROVE Kept
    BY <1>5, <2>3, <2>4, ProcessTypes
    DEF Own, MarkTerminal, SupervisorWork, Launch, LaunchFails, NotOwned, OwnFails, SpawnRunner,
        SupervisorFails, MonitorKill, RunnerExited, ReadSummary, Close, SupCrash, TreeClose,
        TreeKill
  <2>5. Kept
    BY <2>1, <2>2, <2>4 DEF ProcessStep
  <2>6. QED  BY <1>5, <2>5 DEF control, MarkInv, GoIsMarked, WorkIsMarked
<1>6. CASE RunnerStart(t)
  <2>1. UNCHANGED <<control, sup>>
    BY <1>6 DEF RunnerStart
  <2>2. /\ \A u \in Tasks \ {t} : runner'[u] = runner[u]
        /\ runner'[t] # "released"
        /\ runner'[t] = "working" => tasks[t].effect
    BY <1>6, ProcessTypes DEF RunnerStart, MarkInv, GoIsMarked
  <2>3. QED  BY <2>1, <2>2 DEF control, MarkInv, GoIsMarked, WorkIsMarked
<1>7. QED  BY <1>1, <1>2, <1>3, <1>4, <1>5, <1>6, ControlOfProcesses

(* A step of the Agent creates a task or lets what is RUNNING stay. *)
LEMMA AgentRuns ==
  ASSUME TypeOK, AgentStep
  PROVE  (RunningStays /\ UNCHANGED procs) \/ \E t \in Tasks : Execute(t)
<1>1. ASSUME NEW t \in Tasks, ObserveDead(t) \/ Age(t) PROVE RunningStays
  BY <1>1, ObservedRow DEF ObserveDead, Age, RunningStays, SameTask
<1>2. ASSUME NEW t \in Tasks, NEW found \in BOOLEAN, Collect(t, found) PROVE RunningStays
  BY <1>2, CollectRow DEF Collect, RunningStays, SameTask
<1>3. ASSUME Stop PROVE RunningStays
  <2>1. runState = "RUNNING"
    BY <1>3 DEF Stop, MayStop
  <2>2. QED  BY <1>3, <2>1, StoppedRows DEF RunningStays, SameTask
<1>4. ASSUME UNCHANGED tasks, runState = "RUNNING" \/ UNCHANGED runState PROVE RunningStays
  BY <1>4 DEF RunningStays
<1>5. UNCHANGED procs \/ \E t \in Tasks : Execute(t)
  BY DEF AgentStep, CollectStep, SubmitPlan, ExecuteRefused, SubmitEvaluation, MemoryRevise,
         CommitMemory, FinishContinue, FinishComplete, ObserveDead, Age, Collect, Stop
<1>6. RunningStays \/ \E t \in Tasks : Execute(t)
  BY <1>1, <1>2, <1>3, <1>4
  DEF AgentStep, CollectStep, SubmitPlan, ExecuteRefused, MayExecute, SubmitEvaluation,
      MemoryRevise, CommitMemory, FinishContinue, FinishComplete, MayFinish, RequireState
<1>7. QED  BY <1>5, <1>6

LEMMA AgentKeepsMarks ==
  ASSUME TypeOK, ProcessInv, MarkInv, AgentStep
  PROVE  MarkInv'
<1>1. ASSUME NEW t \in Tasks, Execute(t) PROVE MarkInv'
  <2>1. /\ tasks'[t].state = "STARTING" /\ \A u \in Tasks \ {t} : tasks'[u] = tasks[u]
        /\ sup' = [sup EXCEPT ![t] = "launching"] /\ UNCHANGED <<runState, runner>>
        /\ tasks[t].state = "none"
    BY <1>1, ProcessTypes DEF Execute, NoTaskRow
  <2>2. runner[t] = "none"
    BY <2>1 DEF ProcessInv, RunnerFollows
  <2>3. QED  BY <2>1, <2>2, ProcessTypes DEF MarkInv, GoIsMarked, WorkIsMarked
<1>2. QED  BY <1>1, AgentRuns, QuietKeepsMarks DEF procs

-----------------------------------------------------------------------------
(* Rows of the ledgers                                                     *)

(* Effects are not taken back. *)
LEMMA EffectsStay ==
  ASSUME TypeOK, ExecutionInv, [Next]_vars
  PROVE  \A u \in Tasks : tasks[u].effect => tasks'[u].effect
<1>1. ASSUME NEW t \in Tasks, Execute(t)
      PROVE  \A u \in Tasks : tasks[u].effect => tasks'[u].effect
  BY <1>1, ProcessTypes DEF Execute, ExecutionInv, NoneHasNoEffect
<1>2. ASSUME NEW t \in Tasks, ProcessStep(t)
      PROVE  \A u \in Tasks : tasks[u].effect => tasks'[u].effect
  <2>1. CASE RegisterRunner(t)
    BY <2>1, RegisteredRow
  <2>2. CASE MarkTerminal(t)
    BY <2>2, TerminalRow DEF MarkTerminal, SameTask
  <2>3. CASE Own(t)
    BY <2>3, OwnedRow
  <2>4. CASE MarkEffect(t)
    BY <2>4, MarkedRow
  <2>5. QED  BY <1>2, <2>1, <2>2, <2>3, <2>4, ControlOfProcesses DEF control
<1>3. QED  BY <1>1, <1>2, AgentRuns DEF Next, RunningStays, vars, control

LEMMA LedgerTypes ==
  ASSUME TypeOK
  PROVE  /\ requests \in [Requests -> RequestRow] /\ solverCalls \in [SolverCalls -> CallRow]
         /\ \A q \in Requests : requests[q] \in RequestRow
         /\ \A c \in SolverCalls : solverCalls[c] \in CallRow
         /\ NoId \notin Requests /\ NoId \notin SolverCalls /\ NoId \notin Tasks
BY ConstantsAssumption DEF TypeOK

(* Rows that are not written, held by processes that go on or die. *)
LEMMA SameRowsAreOwned ==
  ASSUME TypeOK, RowsAreOwned, UNCHANGED ledgers,
         \A u \in Tasks : tasks[u].effect => tasks'[u].effect,
         \A u \in Tasks : inflight'[u] \in {inflight[u], NoId}
                          /\ evaluating'[u] \in {evaluating[u], NoId}
  PROVE  RowsAreOwned'
BY DEF RowsAreOwned, ledgers

LEMMA LedgerKeepsOwned ==
  ASSUME TypeOK, RowsAreOwned, NEW t \in Tasks, LedgerStep(t),
         \A u \in Tasks : tasks[u].effect => tasks'[u].effect
  PROVE  RowsAreOwned'
<1> USE LedgerTypes, ProcessTypes DEF RowsAreOwned, RequestRow, CallRow, OpenRequest
<1>1. ASSUME NEW q \in Requests, Reserve(t, q) PROVE RowsAreOwned'
  <2>1. tasks'[t].effect
    BY <1>1, MarkedRow DEF Reserve
  <2>2. /\ requests[q].state = "none"
        /\ requests' = [requests EXCEPT ![q] = [state |-> "reserved", task |-> t]]
        /\ inflight' = [inflight EXCEPT ![t] = q]
        /\ UNCHANGED <<solverCalls, evaluating>>
    BY <1>1 DEF Reserve
  <2>3. QED  BY <2>1, <2>2
<1>2. CASE MarkSent(t)
  BY <1>2 DEF MarkSent, local
<1>3. ASSUME NEW outcome \in ClosedRequest, FinishRequest(t, outcome) PROVE RowsAreOwned'
  BY <1>3 DEF FinishRequest, ClosedRequest
<1>4. ASSUME NEW c \in SolverCalls, StartEvaluation(t, c) PROVE RowsAreOwned'
  <2>1. tasks'[t].effect
    BY <1>4, MarkedRow DEF StartEvaluation
  <2>2. /\ solverCalls[c].state = "none"
        /\ solverCalls' =
             [solverCalls EXCEPT ![c] = [state |-> "started", task |-> t, log |-> "none"]]
        /\ evaluating' = [evaluating EXCEPT ![t] = c]
        /\ UNCHANGED <<requests, inflight>>
    BY <1>4 DEF StartEvaluation
  <2>3. QED  BY <2>1, <2>2
<1>5. ASSUME NEW verdict \in {"valid", "invalid"}, LogEvaluation(t, verdict) PROVE RowsAreOwned'
  BY <1>5 DEF LogEvaluation, local
<1>6. CASE FinishEvaluation(t)
  BY <1>6 DEF FinishEvaluation
<1>7. QED  BY <1>1, <1>2, <1>3, <1>4, <1>5, <1>6 DEF LedgerStep

(* The two UPDATEs do not touch what another process holds. *)
LEMMA ReconciledOwned ==
  ASSUME TypeOK, RowsAreOwned, NEW t \in Tasks, UNCHANGED local, inflight[t] = NoId,
         \A u \in Tasks : tasks[u].effect => tasks'[u].effect,
         requests' = ReconciledRequests(t) \/ UNCHANGED requests,
         \/ solverCalls' = ReconciledCalls(t)
         \/ solverCalls' = EvidenceApplied(solverCalls, t)
         \/ solverCalls' = EvidenceApplied(ReconciledCalls(t), t)
  PROVE  RowsAreOwned'
<1>1. \A q \in Requests :
        /\ requests'[q].task = requests[q].task
        /\ requests[q].task # t => requests'[q] = requests[q]
        /\ requests'[q].state = "none" <=> requests[q].state = "none"
  BY LedgerTypes DEF ReconciledRequests, RequestRow, OpenRequest
<1>2. \A c \in SolverCalls :
        /\ solverCalls'[c].task = solverCalls[c].task /\ solverCalls'[c].log = solverCalls[c].log
        /\ solverCalls'[c].state = "none" <=> solverCalls[c].state = "none"
  <2>1. ASSUME NEW c \in SolverCalls
        PROVE  LET row == ReconciledCalls(t)[c] IN
               /\ row \in CallRow
               /\ row.task = solverCalls[c].task /\ row.log = solverCalls[c].log
               /\ row.state = "none" <=> solverCalls[c].state = "none"
    BY LedgerTypes DEF ReconciledCalls, CallRow, CallStates
  <2>2. ASSUME NEW calls, NEW c \in SolverCalls, calls[c] \in CallRow
        PROVE  LET row == EvidenceApplied(calls, t)[c] IN
               /\ row.task = calls[c].task /\ row.log = calls[c].log
               /\ row.state = "none" <=> calls[c].state = "none"
    BY <2>2 DEF EvidenceApplied, CallRow
  <2>3. QED  BY <2>1, <2>2, LedgerTypes
<1>3. QED  BY <1>1, <1>2, ProcessTypes, LedgerTypes DEF RowsAreOwned, local

(* Supervisors, runners and workers only lose local variables; apart from  *)
(* the end of a task they leave the ledgers alone.                         *)
LEMMA LocalsAreLost ==
  ASSUME TypeOK, NEW t \in Tasks, SupervisorWork(t) \/ SupCrash(t) \/ RunnerWork(t)
  PROVE  /\ \A u \in Tasks : inflight'[u] \in {inflight[u], NoId}
                             /\ evaluating'[u] \in {evaluating[u], NoId}
         /\ MarkTerminal(t) \/ UNCHANGED ledgers
<1>1. MarkTerminal(t) \/ UNCHANGED ledgers
  BY DEF SupervisorWork, Launch, LaunchFails, Own, NotOwned, OwnFails, SpawnRunner,
       RegisterRunner, Release, SupervisorFails, MonitorKill, RunnerExited, ReadSummary, Close,
       SupCrash, RunnerWork, RunnerStart, RunnerEOF, RunnerWatchdog, RunnerCrash, RunnerDies,
       StartWorker, WorkerExit, WorkerWatchdog, WorkerDies, RunnerFinish
<1>2. UNCHANGED local \/ ForgetLocal
  BY DEF SupervisorWork, Launch, LaunchFails, Own, NotOwned, OwnFails, SpawnRunner,
       RegisterRunner, Release, SupervisorFails, MonitorKill, RunnerExited, ReadSummary, Close,
       MarkTerminal, SupCrash, TreeClose, TreeKill, RunnerWork, RunnerStart, RunnerEOF,
       RunnerWatchdog, RunnerCrash, RunnerDies, StartWorker, WorkerExit, WorkerWatchdog,
       WorkerDies, RunnerFinish
<1>3. QED  BY <1>1, <1>2, ProcessTypes DEF local, ForgetLocal

LEMMA TerminalIsIdle ==
  ASSUME ProcessInv, NEW t \in Tasks, MarkTerminal(t)
  PROVE  inflight[t] = NoId
BY DEF MarkTerminal, ProcessInv, RunnerFollows, LocalsBelong, RunnerAlive

LEMMA CollectedIsIdle ==
  ASSUME TypeOK, ProcessInv, NEW t \in Tasks, NEW found \in BOOLEAN, Collect(t, found)
  PROVE  inflight[t] = NoId
<1>1. EndedIsLeft'
  BY CollectKeepsProcesses DEF ProcessInv
<1>2. tasks'[t].state = "COLLECTED" /\ UNCHANGED runner
  BY CollectRow DEF Collect, procs
<1>3. runner[t] # "working"
  BY <1>1, <1>2 DEF EndedIsLeft
<1>4. QED  BY <1>3 DEF ProcessInv, LocalsBelong

LEMMA NextKeepsOwned ==
  ASSUME TypeOK, ProcessInv, ExecutionInv, RowsAreOwned, [Next]_vars
  PROVE  RowsAreOwned'
<1>1. \A u \in Tasks : tasks[u].effect => tasks'[u].effect
  BY EffectsStay
<1>2. ASSUME NEW t \in Tasks, LedgerStep(t) PROVE RowsAreOwned'
  BY <1>1, <1>2, LedgerKeepsOwned
<1>3. ASSUME NEW t \in Tasks, SupervisorWork(t) \/ SupCrash(t) \/ RunnerWork(t)
      PROVE  RowsAreOwned'
  <2>1. CASE MarkTerminal(t)
    <3>1. CASE tasks[t].state \in LiveTask
      <4>1. /\ requests' = ReconciledRequests(t) /\ solverCalls' = ReconciledCalls(t)
            /\ UNCHANGED local
        BY <2>1, <3>1 DEF MarkTerminal
      <4>2. QED  BY <1>1, <2>1, <4>1, TerminalIsIdle, ReconciledOwned
    <3>2. CASE tasks[t].state \notin LiveTask
      BY <1>1, <2>1, <3>2, SameRowsAreOwned DEF MarkTerminal, local, ledgers
    <3>3. QED  BY <3>1, <3>2
  <2>2. CASE UNCHANGED ledgers
    BY <1>1, <1>3, <2>2, LocalsAreLost, SameRowsAreOwned
  <2>3. QED  BY <1>3, <2>1, <2>2, LocalsAreLost
<1>4. ASSUME NEW t \in Tasks, NEW found \in BOOLEAN, Collect(t, found) PROVE RowsAreOwned'
  <2>1. /\ UNCHANGED local
        /\ requests' = ReconciledRequests(t) \/ UNCHANGED requests
        /\ \/ solverCalls' = EvidenceApplied(solverCalls, t)
           \/ solverCalls' = EvidenceApplied(ReconciledCalls(t), t)
    BY <1>4 DEF Collect
  <2>2. QED  BY <1>1, <1>4, <2>1, CollectedIsIdle, ReconciledOwned
<1>5. CASE UNCHANGED <<ledgers, local>>
  BY <1>1, <1>5, SameRowsAreOwned DEF local
<1>6. CASE AgentStep
  BY <1>4, <1>5, <1>6
  DEF AgentStep, CollectStep, SubmitPlan, Execute, ExecuteRefused, SubmitEvaluation, MemoryRevise,
      CommitMemory, FinishContinue, FinishComplete, ObserveDead, Age, Stop
<1>7. QED  BY <1>2, <1>3, <1>5, <1>6 DEF Next, ProcessStep, vars

(* Rows are created by the two steps that open them and keep their task.   *)
LEMMA RequestsStay ==
  ASSUME TypeOK, RowsAreOwned, [Next]_vars, ~ \E t \in Tasks, q \in Requests : Reserve(t, q),
         NEW p \in Requests
  PROVE  /\ requests'[p].task = requests[p].task
         /\ requests'[p].state = "none" <=> requests[p].state = "none"
<1> DEFINE Same == /\ requests'[p].task = requests[p].task
                   /\ requests'[p].state = "none" <=> requests[p].state = "none"
<1>1. ASSUME NEW t \in Tasks, LedgerStep(t) PROVE Same
  <2>1. CASE MarkSent(t)
    BY <2>1, LedgerTypes DEF MarkSent, RequestRow
  <2>2. ASSUME NEW o \in ClosedRequest, FinishRequest(t, o) PROVE Same
    <3>1. inflight[t] # NoId /\ requests[inflight[t]].state \in OpenRequest
      BY <2>2 DEF FinishRequest, RowsAreOwned
    <3>2. QED
      BY <2>2, <3>1, LedgerTypes DEF FinishRequest, RequestRow, ClosedRequest, OpenRequest
  <2>3. QED
    BY <1>1, <2>1, <2>2 DEF LedgerStep, StartEvaluation, LogEvaluation, FinishEvaluation
<1>2. ASSUME NEW t \in Tasks
      PROVE  /\ ReconciledRequests(t)[p].task = requests[p].task
             /\ ReconciledRequests(t)[p].state = "none" <=> requests[p].state = "none"
  BY LedgerTypes DEF ReconciledRequests, RequestRow, OpenRequest
<1>3. ASSUME NEW t \in Tasks, MarkTerminal(t) PROVE Same
  BY <1>2, <1>3 DEF MarkTerminal
<1>4. CASE AgentStep
  BY <1>2, <1>4
  DEF AgentStep, CollectStep, SubmitPlan, Execute, ExecuteRefused, SubmitEvaluation, MemoryRevise,
      CommitMemory, FinishContinue, FinishComplete, ObserveDead, Age, Stop, Collect, ledgers
<1>5. QED  BY <1>1, <1>3, <1>4, LocalsAreLost DEF Next, ProcessStep, vars, ledgers

LEMMA CallsStay ==
  ASSUME TypeOK, RowsAreOwned, [Next]_vars,
         ~ \E t \in Tasks, c \in SolverCalls : StartEvaluation(t, c), NEW d \in SolverCalls
  PROVE  /\ solverCalls'[d].task = solverCalls[d].task
         /\ solverCalls'[d].state = "none" <=> solverCalls[d].state = "none"
<1> DEFINE Same == /\ solverCalls'[d].task = solverCalls[d].task
                   /\ solverCalls'[d].state = "none" <=> solverCalls[d].state = "none"
<1>1. ASSUME NEW t \in Tasks, LedgerStep(t) PROVE Same
  <2>1. ASSUME NEW v \in {"valid", "invalid"}, LogEvaluation(t, v) PROVE Same
    BY <2>1, LedgerTypes DEF LogEvaluation, CallRow
  <2>2. CASE FinishEvaluation(t)
    BY <2>2, LedgerTypes DEF FinishEvaluation, CallRow, RowsAreOwned
  <2>3. QED
    BY <1>1, <2>1, <2>2 DEF LedgerStep, Reserve, MarkSent, FinishRequest
<1>2. ASSUME NEW t \in Tasks
      PROVE  /\ ReconciledCalls(t)[d] \in CallRow
             /\ ReconciledCalls(t)[d].task = solverCalls[d].task
             /\ ReconciledCalls(t)[d].state = "none" <=> solverCalls[d].state = "none"
  BY LedgerTypes DEF ReconciledCalls, CallRow, CallStates
<1>3. ASSUME NEW t \in Tasks, NEW calls, calls[d] \in CallRow
      PROVE  /\ EvidenceApplied(calls, t)[d].task = calls[d].task
             /\ EvidenceApplied(calls, t)[d].state = "none" <=> calls[d].state = "none"
  BY <1>3 DEF EvidenceApplied, CallRow
<1>4. ASSUME NEW t \in Tasks, MarkTerminal(t) PROVE Same
  BY <1>2, <1>4 DEF MarkTerminal
<1>5. ASSUME NEW t \in Tasks, NEW found \in BOOLEAN, Collect(t, found) PROVE Same
  BY <1>2, <1>3, <1>5, LedgerTypes DEF Collect
<1>6. CASE AgentStep
  BY <1>5, <1>6
  DEF AgentStep, CollectStep, SubmitPlan, Execute, ExecuteRefused, SubmitEvaluation, MemoryRevise,
      CommitMemory, FinishContinue, FinishComplete, ObserveDead, Age, Stop, ledgers
<1>7. QED  BY <1>1, <1>4, <1>6, LocalsAreLost DEF Next, ProcessStep, vars, ledgers

-----------------------------------------------------------------------------
(* The solver ledger of a collected task                                   *)

(* Where process trees end as a whole, nothing writes the evaluations of a *)
(* task that is collected.                                                 *)
LEMMA CollectedCallsStay ==
  ASSUME JobObject, TypeOK, ProcessInv, RowsAreOwned, [Next]_vars, NEW c \in SolverCalls,
         solverCalls[c].task \in Tasks, tasks[solverCalls[c].task].state = "COLLECTED"
  PROVE  solverCalls'[c] = solverCalls[c]
<1>1. ASSUME NEW t \in Tasks, LedgerStep(t) PROVE solverCalls'[c] = solverCalls[c]
  <2>1. CASE CanEvaluate(t) /\ evaluating[t] # NoId
    <3>1. tasks[t].state # "COLLECTED"
      BY <2>1 DEF CanEvaluate, ProcessInv, TreesAreEnded, Busy, RunnerAlive
    <3>2. evaluating[t] # c
      BY <2>1, <3>1 DEF RowsAreOwned
    <3>3. QED
      BY <1>1, <2>1, <3>2, LedgerTypes
      DEF LedgerStep, Reserve, MarkSent, FinishRequest, StartEvaluation, LogEvaluation,
          FinishEvaluation
  <2>2. ASSUME NEW d \in SolverCalls, StartEvaluation(t, d)
        PROVE  solverCalls'[c] = solverCalls[c]
    <3>1. c # d
      BY <2>2, LedgerTypes DEF StartEvaluation, RowsAreOwned
    <3>2. QED  BY <2>2, <3>1, LedgerTypes DEF StartEvaluation
  <2>3. QED
    BY <1>1, <2>1, <2>2
    DEF LedgerStep, Reserve, MarkSent, FinishRequest, LogEvaluation, FinishEvaluation
<1>2. ASSUME NEW t \in Tasks, MarkTerminal(t) PROVE solverCalls'[c] = solverCalls[c]
  <2>1. CASE tasks[t].state \in LiveTask
    <3>1. solverCalls[c].task # t /\ solverCalls' = ReconciledCalls(t)
      BY <1>2, <2>1 DEF MarkTerminal, LiveTask
    <3>2. QED  BY <3>1 DEF ReconciledCalls
  <2>2. CASE tasks[t].state \notin LiveTask
    BY <1>2, <2>2 DEF MarkTerminal
  <2>3. QED  BY <2>1, <2>2
<1>3. ASSUME NEW t \in Tasks, NEW found \in BOOLEAN, Collect(t, found)
      PROVE  solverCalls'[c] = solverCalls[c]
  <2>1. solverCalls[c].task # t
    BY <1>3, CollectRow DEF LiveTask
  <2>2. /\ ReconciledCalls(t)[c] = solverCalls[c]
        /\ EvidenceApplied(solverCalls, t)[c] = solverCalls[c]
        /\ EvidenceApplied(ReconciledCalls(t), t)[c] = ReconciledCalls(t)[c]
    BY <2>1 DEF ReconciledCalls, EvidenceApplied
  <2>3. \/ solverCalls' = EvidenceApplied(solverCalls, t)
        \/ solverCalls' = EvidenceApplied(ReconciledCalls(t), t)
    BY <1>3 DEF Collect
  <2>4. QED  BY <2>2, <2>3
<1>4. CASE AgentStep
  BY <1>3, <1>4
  DEF AgentStep, CollectStep, SubmitPlan, Execute, ExecuteRefused, SubmitEvaluation, MemoryRevise,
      CommitMemory, FinishContinue, FinishComplete, ObserveDead, Age, Stop, ledgers
<1>5. QED  BY <1>1, <1>2, <1>4, LocalsAreLost DEF Next, ProcessStep, vars, ledgers

(* Only collect makes a task COLLECTED, and it stays so. *)
LEMMA OnlyCollectCollects ==
  ASSUME TypeOK, ProcessInv, [Next]_vars, NEW u \in Tasks
  PROVE  /\ tasks[u].state = "COLLECTED" => tasks'[u].state = "COLLECTED"
         /\ tasks'[u].state = "COLLECTED" =>
              tasks[u].state = "COLLECTED" \/ \E found \in BOOLEAN : Collect(u, found)
<1> DEFINE Same == tasks'[u].state = "COLLECTED" <=> tasks[u].state = "COLLECTED"
<1>1. ASSUME NEW t \in Tasks, ProcessStep(t) PROVE Same
  <2>1. CASE MarkTerminal(t)
    BY <2>1, TerminalRow, ProcessTypes DEF MarkTerminal, LiveTask
  <2>2. CASE RegisterRunner(t)
    BY <2>2, RegisteredRow
  <2>3. CASE Own(t)
    BY <2>3, OwnedRow
  <2>4. CASE MarkEffect(t)
    BY <2>4, MarkedRow
  <2>5. QED  BY <1>1, <2>1, <2>2, <2>3, <2>4, ControlOfProcesses DEF control
<1>2. ASSUME NEW t \in Tasks, Execute(t) PROVE Same
  BY <1>2, ProcessTypes DEF Execute, NoTaskRow
<1>3. ASSUME NEW t \in Tasks, ObserveDead(t) \/ Age(t) PROVE Same
  BY <1>3, ObservedRow
<1>4. CASE Stop
  BY <1>4, StoppedRows DEF LiveTask
<1>5. ASSUME NEW t \in Tasks, NEW found \in BOOLEAN, Collect(t, found)
      PROVE  /\ tasks[u].state = "COLLECTED" => tasks'[u].state = "COLLECTED"
             /\ tasks'[u].state = "COLLECTED" => tasks[u].state = "COLLECTED" \/ t = u
  BY <1>5, CollectRow
<1>6. CASE UNCHANGED tasks
  BY <1>6
<1>7. CASE AgentStep
  BY <1>2, <1>3, <1>4, <1>5, <1>6, <1>7
  DEF AgentStep, CollectStep, SubmitPlan, ExecuteRefused, SubmitEvaluation, MemoryRevise,
      CommitMemory, FinishContinue, FinishComplete
<1>8. QED  BY <1>1, <1>6, <1>7 DEF Next, vars, control

LEMMA EvidenceKept ==
  ASSUME JobObject, TypeOK, ProcessInv, ExecutionInv, RowsAreOwned, EvidenceAgrees, [Next]_vars
  PROVE  EvidenceAgrees'
<1>1. SUFFICES ASSUME NEW c \in SolverCalls, solverCalls'[c].log # "none",
                      tasks'[solverCalls'[c].task].state = "COLLECTED"
               PROVE  solverCalls'[c].state =
                        IF solverCalls'[c].log = "valid" THEN "complete" ELSE "failed"
  BY DEF EvidenceAgrees
<1>2. solverCalls'[c].task \in Tasks
  BY <1>1, NextKeepsOwned DEF RowsAreOwned
<1>3. PICK t \in Tasks : t = solverCalls'[c].task
  BY <1>2
<1>4. CASE tasks[t].state = "COLLECTED"
  <2>1. CASE solverCalls[c].task = t
    BY <1>1, <1>3, <1>4, <2>1, CollectedCallsStay DEF EvidenceAgrees
  <2>2. CASE solverCalls[c].task # t
    <3>1. PICK u \in Tasks, d \in SolverCalls : StartEvaluation(u, d)
      BY <1>3, <2>2, CallsStay
    <3>2. QED  BY <1>1, <1>3, <2>2, <3>1, LedgerTypes DEF StartEvaluation
  <2>3. QED  BY <2>1, <2>2
<1>5. CASE tasks[t].state # "COLLECTED"
  <2>1. PICK found \in BOOLEAN : Collect(t, found)
    BY <1>1, <1>3, <1>5, OnlyCollectCollects
  <2>2. PICK calls \in {solverCalls, ReconciledCalls(t)} : solverCalls' = EvidenceApplied(calls, t)
    BY <2>1 DEF Collect
  <2>3. /\ calls[c] \in CallRow /\ calls[c].task = solverCalls[c].task
        /\ calls[c].log = solverCalls[c].log
        /\ calls[c].state = "none" <=> solverCalls[c].state = "none"
    BY LedgerTypes DEF ReconciledCalls, CallRow, CallStates
  <2>4. EvidenceApplied(calls, t)[c].task = calls[c].task
        /\ EvidenceApplied(calls, t)[c].log = calls[c].log
    BY <2>3 DEF EvidenceApplied, CallRow
  <2>5. calls[c].task = t /\ calls[c].log # "none" /\ calls[c].state # "none"
    BY <1>1, <1>3, <2>2, <2>3, <2>4 DEF RowsAreOwned
  <2>6. EvidenceApplied(calls, t)[c].state = IF calls[c].log = "valid" THEN "complete" ELSE "failed"
    BY <2>3, <2>5 DEF EvidenceApplied, CallRow
  <2>7. QED  BY <2>2, <2>4, <2>6
<1>6. QED  BY <1>4, <1>5

-----------------------------------------------------------------------------
(* The outcome of requests                                                 *)

LEMMA OutcomesStay ==
  ASSUME TypeOK, RowsAreOwned, [Next]_vars, NEW q \in Requests,
         requests[q].state \in ClosedRequest
  PROVE  requests'[q] = requests[q]
<1> USE DEF ClosedRequest, OpenRequest
<1>1. ASSUME NEW t \in Tasks, LedgerStep(t) PROVE requests'[q] = requests[q]
  <2>1. ASSUME NEW p \in Requests, Reserve(t, p) PROVE requests'[q] = requests[q]
    BY <2>1, LedgerTypes DEF Reserve
  <2>2. CASE inflight[t] # NoId /\ (MarkSent(t) \/ \E o \in ClosedRequest : FinishRequest(t, o))
    <3>1. inflight[t] # q
      BY <2>2 DEF RowsAreOwned
    <3>2. QED  BY <2>2, <3>1, LedgerTypes DEF MarkSent, FinishRequest
  <2>3. QED
    BY <1>1, <2>1, <2>2
    DEF LedgerStep, MarkSent, FinishRequest, StartEvaluation, LogEvaluation, FinishEvaluation
<1>2. ASSUME NEW t \in Tasks PROVE ReconciledRequests(t)[q] = requests[q]
  BY DEF ReconciledRequests
<1>3. ASSUME NEW t \in Tasks, MarkTerminal(t) PROVE requests'[q] = requests[q]
  BY <1>2, <1>3 DEF MarkTerminal
<1>4. CASE AgentStep
  BY <1>2, <1>4
  DEF AgentStep, CollectStep, SubmitPlan, Execute, ExecuteRefused, SubmitEvaluation, MemoryRevise,
      CommitMemory, FinishContinue, FinishComplete, ObserveDead, Age, Stop, Collect, ledgers
<1>5. QED  BY <1>1, <1>3, <1>4, LocalsAreLost DEF Next, ProcessStep, vars, ledgers

-----------------------------------------------------------------------------
(* Budgets                                                                 *)

(* What the budgets count: rows whose task had effects. *)
LEMMA SpentIsUsed ==
  ASSUME TypeOK, ExecutionInv, RowsAreOwned
  PROVE  /\ Spent(requests) = RequestsUsed /\ Spent(solverCalls) = CallsUsed
         /\ \A r \in Rounds : /\ SpentIn(requests, r) = RequestsUsedIn(r)
                              /\ SpentIn(solverCalls, r) = CallsUsedIn(r)
<1>1. Spent(requests) = RequestsUsed /\ Spent(solverCalls) = CallsUsed
  BY LedgerTypes DEF Spent, RequestsUsed, CallsUsed
<1>2. \A t \in Tasks : tasks[t].effect => tasks[t].state # "none"
  BY DEF ExecutionInv, NoneHasNoEffect
<1>3. ASSUME NEW r \in Rounds PROVE SpentIn(requests, r) = RequestsUsedIn(r)
  <2>1. ASSUME NEW q \in RequestsUsed
        PROVE  tasks[requests[q].task].round = r <=> requests[q].task \in TasksOf(r)
    BY <1>2, <2>1 DEF RowsAreOwned, RequestsUsed, TasksOf
  <2>2. QED  BY <1>1, <2>1 DEF SpentIn, RequestsUsedIn
<1>4. ASSUME NEW r \in Rounds PROVE SpentIn(solverCalls, r) = CallsUsedIn(r)
  <2>1. ASSUME NEW c \in CallsUsed
        PROVE  tasks[solverCalls[c].task].round = r <=> solverCalls[c].task \in TasksOf(r)
    BY <1>2, <2>1 DEF RowsAreOwned, CallsUsed, TasksOf
  <2>2. QED  BY <1>1, <2>1 DEF SpentIn, CallsUsedIn
<1>5. QED  BY <1>1, <1>3, <1>4

(* The same, as the guards of the ledger write it. *)
WithinBudgets ==
  /\ Cardinality(RequestsUsed) <= MaxRequests
  /\ Cardinality(CallsUsed) <= MaxSolverCalls
  /\ \A r \in Rounds : /\ Cardinality(RequestsUsedIn(r)) <= RoundMaxRequests
                       /\ Cardinality(CallsUsedIn(r)) <= RoundBudget

LEMMA UsedIsFinite ==
  /\ IsFiniteSet(RequestsUsed) /\ IsFiniteSet(CallsUsed)
  /\ \A r \in Rounds : IsFiniteSet(RequestsUsedIn(r)) /\ IsFiniteSet(CallsUsedIn(r))
  /\ Cardinality(RequestsUsed) \in Nat /\ Cardinality(CallsUsed) \in Nat
  /\ \A r \in Rounds : Cardinality(RequestsUsedIn(r)) \in Nat /\ Cardinality(CallsUsedIn(r)) \in Nat
<1>1. /\ RequestsUsed \subseteq Requests /\ CallsUsed \subseteq SolverCalls
      /\ \A r \in Rounds : /\ RequestsUsedIn(r) \subseteq Requests
                            /\ CallsUsedIn(r) \subseteq SolverCalls
  BY DEF RequestsUsed, CallsUsed, RequestsUsedIn, CallsUsedIn
<1>2. /\ IsFiniteSet(RequestsUsed) /\ IsFiniteSet(CallsUsed)
      /\ \A r \in Rounds : IsFiniteSet(RequestsUsedIn(r)) /\ IsFiniteSet(CallsUsedIn(r))
  BY <1>1, FiniteLedgers, FS_Subset
<1>3. QED  BY <1>2, FS_CardinalityType

(* At most the members of S, or one more. *)
LEMMA NoMore ==
  ASSUME NEW S, NEW T, NEW limit \in Nat, IsFiniteSet(S), T \subseteq S,
         Cardinality(S) <= limit
  PROVE  Cardinality(T) <= limit
<1>1. IsFiniteSet(T) /\ Cardinality(T) <= Cardinality(S)
  BY FS_Subset
<1>2. Cardinality(S) \in Nat /\ Cardinality(T) \in Nat
  BY <1>1, FS_CardinalityType
<1>3. QED  BY <1>1, <1>2

LEMMA OneMore ==
  ASSUME NEW S, NEW T, NEW x, NEW limit \in Nat, IsFiniteSet(S), T \subseteq S \cup {x},
         Cardinality(S) < limit
  PROVE  Cardinality(T) <= limit
<1>1. IsFiniteSet(S \cup {x}) /\ Cardinality(S \cup {x}) \in {Cardinality(S), Cardinality(S) + 1}
  BY FS_AddElement
<1>2. Cardinality(S) \in Nat
  BY FS_CardinalityType
<1>3. QED  BY <1>1, <1>2, NoMore

(* A task keeps its round for good. *)
LEMMA RoundsOfTasksStay ==
  ASSUME TypeOK, [Next]_vars, NEW u \in Tasks, tasks[u].state # "none"
  PROVE  tasks'[u].state # "none" /\ tasks'[u].round = tasks[u].round
<1> DEFINE Kept == tasks'[u].state # "none" /\ tasks'[u].round = tasks[u].round
<1>1. ASSUME NEW t \in Tasks, ProcessStep(t) PROVE Kept
  <2>1. CASE MarkTerminal(t)
    BY <2>1, TerminalRow, ProcessTypes DEF MarkTerminal, SameTask
  <2>2. CASE RegisterRunner(t)
    BY <2>2, RegisteredRow
  <2>3. CASE Own(t)
    BY <2>3, OwnedRow
  <2>4. CASE MarkEffect(t)
    BY <2>4, MarkedRow
  <2>5. QED  BY <1>1, <2>1, <2>2, <2>3, <2>4, ControlOfProcesses DEF control
<1>2. ASSUME NEW t \in Tasks, Execute(t) PROVE Kept
  BY <1>2, ProcessTypes DEF Execute
<1>3. ASSUME NEW t \in Tasks, ObserveDead(t) \/ Age(t) PROVE Kept
  BY <1>3, ObservedRow DEF SameTask
<1>4. CASE Stop
  BY <1>4, StoppedRows DEF SameTask
<1>5. ASSUME NEW t \in Tasks, NEW found \in BOOLEAN, Collect(t, found) PROVE Kept
  BY <1>5, CollectRow DEF SameTask
<1>6. CASE AgentStep
  BY <1>2, <1>3, <1>4, <1>5, <1>6
  DEF AgentStep, CollectStep, SubmitPlan, ExecuteRefused, SubmitEvaluation, MemoryRevise,
      CommitMemory, FinishContinue, FinishComplete
<1>7. QED  BY <1>1, <1>6 DEF Next, vars, control

LEMMA RequestsWithinBudgets ==
  ASSUME TypeOK, ExecutionInv, RowsAreOwned, WithinBudgets, [Next]_vars
  PROVE  /\ Cardinality(RequestsUsed)' <= MaxRequests
         /\ \A r \in Rounds : Cardinality(RequestsUsedIn(r))' <= RoundMaxRequests
<1>1. ASSUME NEW q \in RequestsUsed, NEW r \in Rounds, requests'[q].task = requests[q].task
      PROVE  requests'[q].task \in TasksOf(r)' => q \in RequestsUsedIn(r)
  <2>1. requests[q].task \in Tasks /\ tasks[requests[q].task].state # "none"
    BY DEF RequestsUsed, RowsAreOwned, ExecutionInv, NoneHasNoEffect
  <2>2. QED  BY <1>1, <2>1, RoundsOfTasksStay DEF TasksOf, RequestsUsedIn
<1>2. CASE ~ \E t \in Tasks, q \in Requests : Reserve(t, q)
  <2>1. /\ RequestsUsed' = RequestsUsed
        /\ \A q \in RequestsUsed : requests'[q].task = requests[q].task
    BY <1>2, RequestsStay DEF RequestsUsed
  <2>2. ASSUME NEW r \in Rounds PROVE RequestsUsedIn(r)' \subseteq RequestsUsedIn(r)
    BY <1>1, <2>1 DEF RequestsUsedIn
  <2>3. ASSUME NEW r \in Rounds PROVE Cardinality(RequestsUsedIn(r))' <= RoundMaxRequests
    BY <2>2, NoMore, UsedIsFinite, ConstantsAssumption DEF WithinBudgets
  <2>4. QED  BY <2>1, <2>3 DEF WithinBudgets
<1>3. ASSUME NEW t \in Tasks, NEW q \in Requests, Reserve(t, q)
      PROVE  /\ Cardinality(RequestsUsed)' <= MaxRequests
             /\ \A r \in Rounds : Cardinality(RequestsUsedIn(r))' <= RoundMaxRequests
  <2>1. /\ Cardinality(RequestsUsed) < MaxRequests
        /\ Cardinality(RequestsUsedIn(tasks[t].round)) < RoundMaxRequests
        /\ requests' = [requests EXCEPT ![q] = [state |-> "reserved", task |-> t]]
        /\ requests[q].state = "none" /\ tasks[t].state # "none"
    BY <1>3 DEF Reserve
  <2>2. /\ RequestsUsed' \subseteq RequestsUsed \cup {q}
        /\ \A p \in RequestsUsed : requests'[p].task = requests[p].task
    BY <2>1, LedgerTypes DEF RequestsUsed
  <2>3. Cardinality(RequestsUsed)' <= MaxRequests
    BY <2>1, <2>2, OneMore, UsedIsFinite, ConstantsAssumption
  <2>4. ASSUME NEW r \in Rounds PROVE Cardinality(RequestsUsedIn(r))' <= RoundMaxRequests
    <3>1. RequestsUsedIn(r)' \subseteq RequestsUsedIn(r) \cup {q}
      BY <1>1, <2>2 DEF RequestsUsedIn
    <3>2. CASE r = tasks[t].round
      BY <2>1, <3>1, <3>2, OneMore, UsedIsFinite, ConstantsAssumption
    <3>3. CASE r # tasks[t].round
      <4>1. q \notin RequestsUsedIn(r)'
        BY <2>1, <3>3, LedgerTypes, RoundsOfTasksStay DEF RequestsUsedIn, TasksOf
      <4>2. QED
        BY <3>1, <4>1, NoMore, UsedIsFinite, ConstantsAssumption DEF WithinBudgets
    <3>4. QED  BY <3>2, <3>3
  <2>5. QED  BY <2>3, <2>4
<1>4. QED  BY <1>2, <1>3

LEMMA CallsWithinBudgets ==
  ASSUME TypeOK, ExecutionInv, RowsAreOwned, WithinBudgets, [Next]_vars
  PROVE  /\ Cardinality(CallsUsed)' <= MaxSolverCalls
         /\ \A r \in Rounds : Cardinality(CallsUsedIn(r))' <= RoundBudget
<1>1. ASSUME NEW c \in CallsUsed, NEW r \in Rounds, solverCalls'[c].task = solverCalls[c].task
      PROVE  solverCalls'[c].task \in TasksOf(r)' => c \in CallsUsedIn(r)
  <2>1. solverCalls[c].task \in Tasks /\ tasks[solverCalls[c].task].state # "none"
    BY DEF CallsUsed, RowsAreOwned, ExecutionInv, NoneHasNoEffect
  <2>2. QED  BY <1>1, <2>1, RoundsOfTasksStay DEF TasksOf, CallsUsedIn
<1>2. CASE ~ \E t \in Tasks, c \in SolverCalls : StartEvaluation(t, c)
  <2>1. /\ CallsUsed' = CallsUsed
        /\ \A c \in CallsUsed : solverCalls'[c].task = solverCalls[c].task
    BY <1>2, CallsStay DEF CallsUsed
  <2>2. ASSUME NEW r \in Rounds PROVE CallsUsedIn(r)' \subseteq CallsUsedIn(r)
    BY <1>1, <2>1 DEF CallsUsedIn
  <2>3. ASSUME NEW r \in Rounds PROVE Cardinality(CallsUsedIn(r))' <= RoundBudget
    BY <2>2, NoMore, UsedIsFinite, ConstantsAssumption DEF WithinBudgets
  <2>4. QED  BY <2>1, <2>3 DEF WithinBudgets
<1>3. ASSUME NEW t \in Tasks, NEW c \in SolverCalls, StartEvaluation(t, c)
      PROVE  /\ Cardinality(CallsUsed)' <= MaxSolverCalls
             /\ \A r \in Rounds : Cardinality(CallsUsedIn(r))' <= RoundBudget
  <2>1. /\ Cardinality(CallsUsed) < MaxSolverCalls
        /\ Cardinality(CallsUsedIn(tasks[t].round)) < RoundBudget
        /\ solverCalls' =
             [solverCalls EXCEPT ![c] = [state |-> "started", task |-> t, log |-> "none"]]
        /\ solverCalls[c].state = "none" /\ tasks[t].state # "none"
    BY <1>3 DEF StartEvaluation
  <2>2. /\ CallsUsed' \subseteq CallsUsed \cup {c}
        /\ \A d \in CallsUsed : solverCalls'[d].task = solverCalls[d].task
    BY <2>1, LedgerTypes DEF CallsUsed
  <2>3. Cardinality(CallsUsed)' <= MaxSolverCalls
    BY <2>1, <2>2, OneMore, UsedIsFinite, ConstantsAssumption
  <2>4. ASSUME NEW r \in Rounds PROVE Cardinality(CallsUsedIn(r))' <= RoundBudget
    <3>1. CallsUsedIn(r)' \subseteq CallsUsedIn(r) \cup {c}
      BY <1>1, <2>2 DEF CallsUsedIn
    <3>2. CASE r = tasks[t].round
      BY <2>1, <3>1, <3>2, OneMore, UsedIsFinite, ConstantsAssumption
    <3>3. CASE r # tasks[t].round
      <4>1. c \notin CallsUsedIn(r)'
        BY <2>1, <3>3, LedgerTypes, RoundsOfTasksStay DEF CallsUsedIn, TasksOf
      <4>2. QED
        BY <3>1, <4>1, NoMore, UsedIsFinite, ConstantsAssumption DEF WithinBudgets
    <3>4. QED  BY <3>2, <3>3
  <2>5. QED  BY <2>3, <2>4
<1>4. QED  BY <1>2, <1>3

-----------------------------------------------------------------------------
(* Incumbents and publication                                              *)

LEMMA PublicationKept ==
  ASSUME TypeOK, RoundInv, ExecutionInv, PublicationSettled, [Next]_vars
  PROVE  PublicationSettled'
<1> USE RoundTypes DEF PublicationSettled, RoundRow
<1>1. CASE FinishContinue
  BY <1>1 DEF FinishContinue, MayFinish, NextRoundRow, NoRoundRow, Active
<1>2. CASE FinishComplete
  BY <1>2 DEF FinishComplete, MayFinish, Active
<1>3. ASSUME NEW r \in Rounds, NEW status \in {"accepted", "rejected", "published", "failed"},
             CommitMemory(r, status)
      PROVE  PublicationSettled'
  BY <1>3 DEF CommitMemory, MemoryPending
<1>4. CASE MemoryRevise
  BY <1>4 DEF MemoryRevise, RequireState, Active
<1>5. CASE \A r \in Rounds : rounds'[r].state = "ROUND_COMPLETED" => rounds'[r] = rounds[r]
  BY <1>5
<1>6. ASSUME NEW m, SubmitEvaluation(m) PROVE PublicationSettled'
  BY <1>6 DEF SubmitEvaluation, Active
<1>7. ASSUME NEW t \in Tasks, NEW found \in BOOLEAN, Collect(t, found) PROVE PublicationSettled'
  BY <1>7 DEF Collect, AfterCollect
<1>8. ASSUME NEW t \in Tasks, Execute(t) PROVE PublicationSettled'
  BY <1>8 DEF Execute
<1>9. CASE AgentStep
  BY <1>1, <1>2, <1>3, <1>4, <1>5, <1>6, <1>7, <1>8, <1>9
  DEF AgentStep, CollectStep, SubmitPlan, ExecuteRefused, ObserveDead, Age, Stop
<1>10. ASSUME NEW t \in Tasks, ProcessStep(t) PROVE PublicationSettled'
  <2>1. \/ UNCHANGED rounds
        \/ rounds' = [rounds EXCEPT ![tasks[t].round].state = "EXECUTING"]
    BY <1>10, ControlOfProcesses DEF control, Own, MarkTerminal, RegisterRunner, MarkEffect
  <2>2. QED  BY <1>5, <2>1
<1>11. QED  BY <1>5, <1>9, <1>10 DEF Next, vars, control

(* Effects come with an improvement: what collect finds is of its task.    *)
LEMMA FoundHasEffect ==
  ASSUME TypeOK, RowsAreOwned, NEW t \in Tasks, NEW found \in BOOLEAN, Collect(t, found), found
  PROVE  tasks[t].effect
<1>1. PICK c \in SolverCalls : solverCalls[c].task = t /\ solverCalls[c].log = "valid"
  BY DEF Collect, CanImprove
<1>2. QED  BY <1>1, LedgerTypes DEF RowsAreOwned

(* The incumbent is what it was, or collect has found one, or the round    *)
(* changes and hands its incumbent on.                                     *)
LEMMA IncumbentChanges ==
  ASSUME TypeOK, RoundInv, [Next]_vars
  PROVE  \/ /\ activeRound' = activeRound
            /\ Active'.before = Active.before /\ Active'.after = Active.after
         \/ \E t \in Tasks, found \in BOOLEAN :
              /\ Collect(t, found) /\ activeRound' = activeRound
              /\ Active'.before = Active.before /\ Active'.after = (Active.before \/ found)
         \/ FinishContinue /\ Active'.before = Active.after /\ Active'.after = Active.after
<1> DEFINE Same == /\ activeRound' = activeRound
                   /\ Active'.before = Active.before /\ Active'.after = Active.after
<1> USE RoundTypes
<1>1. ASSUME NEW t \in Tasks, NEW found \in BOOLEAN, Collect(t, found)
      PROVE  /\ activeRound' = activeRound
             /\ Active'.before = Active.before /\ Active'.after = (Active.before \/ found)
  BY <1>1 DEF Collect, Active, RoundRow, IncumbentAfter
<1>2. CASE FinishContinue
  <2>1. activeRound + 1 \in Rounds
    BY <1>2, ConstantsAssumption DEF FinishContinue, Rounds
  <2>2. QED
    BY <1>2, <2>1 DEF FinishContinue, Active, NextRoundRow, NoRoundRow, RoundRow
<1>3. ASSUME NEW m, SubmitEvaluation(m) PROVE Same
  BY <1>3 DEF SubmitEvaluation, Active, RoundRow
<1>4. ASSUME NEW r \in Rounds, NEW status \in {"accepted", "rejected", "published", "failed"},
             CommitMemory(r, status)
      PROVE  Same
  BY <1>4 DEF CommitMemory, Active, RoundRow
<1>5. CASE FinishComplete \/ MemoryRevise \/ SubmitPlan \/ ExecuteRefused
  BY <1>5 DEF FinishComplete, MemoryRevise, SubmitPlan, ExecuteRefused, Active, RoundRow
<1>6. ASSUME NEW t \in Tasks, Execute(t) PROVE Same
  BY <1>6 DEF Execute, Active, RoundRow
<1>7. CASE Stop
  BY <1>7 DEF Stop, Active, RoundRow
<1>8. ASSUME NEW t \in Tasks, ProcessStep(t) PROVE Same
  <2>1. /\ activeRound' = activeRound
        /\ \/ UNCHANGED rounds
           \/ rounds' = [rounds EXCEPT ![tasks[t].round].state = "EXECUTING"]
    BY <1>8, ControlOfProcesses DEF control, Own, MarkTerminal, RegisterRunner, MarkEffect
  <2>2. QED  BY <2>1 DEF Active, RoundRow
<1>9. CASE UNCHANGED <<activeRound, rounds>>
  BY <1>9 DEF Active
<1>10. ASSUME AgentStep
       PROVE  \/ Same \/ FinishContinue
              \/ \E t \in Tasks, found \in BOOLEAN : Collect(t, found)
  BY <1>3, <1>4, <1>5, <1>6, <1>7, <1>9, <1>10
  DEF AgentStep, CollectStep, ObserveDead, Age
<1>11. QED  BY <1>1, <1>2, <1>8, <1>9, <1>10 DEF Next, vars, control

(* While a round is active, only execute gives it another task, and not    *)
(* after effects.                                                          *)
LEMMA ActiveTaskStays ==
  ASSUME TypeOK, RoundInv, [Next]_vars, activeRound' = activeRound,
         Active.task \in Tasks, tasks[Active.task].effect
  PROVE  Active'.task = Active.task
<1> USE RoundTypes
<1>1. ASSUME NEW t \in Tasks, Execute(t) PROVE FALSE
  BY <1>1 DEF Execute, MayExecute, EffectfulTaskExists, TasksOf, RoundInv, TasksAreHere
<1>2. ASSUME NEW t \in Tasks, NEW found \in BOOLEAN, Collect(t, found)
      PROVE  Active'.task = Active.task
  BY <1>2 DEF Collect, Active, RoundRow
<1>3. ASSUME NEW m, SubmitEvaluation(m) PROVE Active'.task = Active.task
  BY <1>3 DEF SubmitEvaluation, Active, RoundRow
<1>4. ASSUME NEW r \in Rounds, NEW status \in {"accepted", "rejected", "published", "failed"},
             CommitMemory(r, status)
      PROVE  Active'.task = Active.task
  BY <1>4 DEF CommitMemory, Active, RoundRow
<1>5. CASE FinishComplete \/ MemoryRevise \/ SubmitPlan \/ ExecuteRefused
  BY <1>5 DEF FinishComplete, MemoryRevise, SubmitPlan, ExecuteRefused, Active, RoundRow
<1>6. CASE Stop
  BY <1>6 DEF Stop, Active, RoundRow
<1>7. ASSUME NEW t \in Tasks, ProcessStep(t) PROVE Active'.task = Active.task
  <2>1. \/ UNCHANGED rounds
        \/ rounds' = [rounds EXCEPT ![tasks[t].round].state = "EXECUTING"]
    BY <1>7, ControlOfProcesses DEF control, Own, MarkTerminal, RegisterRunner, MarkEffect
  <2>2. QED  BY <2>1 DEF Active, RoundRow
<1>8. CASE UNCHANGED rounds
  BY <1>8 DEF Active
<1>9. ~FinishContinue
  BY DEF FinishContinue
<1>10. QED
  BY <1>1, <1>2, <1>3, <1>4, <1>5, <1>6, <1>7, <1>8, <1>9
  DEF Next, AgentStep, CollectStep, ObserveDead, Age, vars, control

LEMMA FoundKept ==
  ASSUME TypeOK, ProcessInv, RoundInv, ExecutionInv, RowsAreOwned, FoundByCollect, [Next]_vars
  PROVE  FoundByCollect'
<1>1. CASE /\ activeRound' = activeRound
           /\ Active'.before = Active.before /\ Active'.after = Active.after
  <2>1. SUFFICES ASSUME Active.after, ~Active.before
                 PROVE  /\ Active'.task \in Tasks
                        /\ tasks'[Active'.task].state = "COLLECTED" /\ tasks'[Active'.task].effect
    BY <1>1 DEF FoundByCollect
  <2>2. PICK t \in Tasks : t = Active.task /\ tasks[t].state = "COLLECTED" /\ tasks[t].effect
    BY <2>1 DEF FoundByCollect
  <2>3. tasks'[t].state = "COLLECTED" /\ tasks'[t].effect
    BY <2>2, OnlyCollectCollects, EffectsStay
  <2>4. Active'.task = t
    BY <1>1, <2>2, ActiveTaskStays
  <2>5. QED  BY <2>3, <2>4
<1>2. ASSUME NEW t \in Tasks, NEW found \in BOOLEAN, Collect(t, found),
             activeRound' = activeRound,
             Active'.before = Active.before, Active'.after = (Active.before \/ found)
      PROVE  FoundByCollect'
  <2>1. Active'.task = t
    BY <1>2, RoundTypes DEF Collect, Active, RoundRow
  <2>2. tasks'[t].state = "COLLECTED" /\ tasks'[t].effect = tasks[t].effect
    BY <1>2, CollectRow DEF SameTask
  <2>3. QED  BY <1>2, <2>1, <2>2, FoundHasEffect DEF FoundByCollect
<1>3. CASE FinishContinue /\ Active'.before = Active.after /\ Active'.after = Active.after
  BY <1>3 DEF FoundByCollect
<1>4. QED  BY <1>1, <1>2, <1>3, IncumbentChanges

(* An incumbent, once found, is never lost. *)
LEMMA IncumbentStays ==
  ASSUME TypeOK, RoundInv, ProcessInv, FoundByCollect, [Next]_vars, Active.before \/ Active.after
  PROVE  (Active.before \/ Active.after)'
<1>1. ASSUME NEW t \in Tasks, NEW found \in BOOLEAN, Collect(t, found) PROVE Active.before
  <2>1. Active.task = t /\ tasks[t].state # "COLLECTED"
    BY <1>1, CollectRow DEF Collect, LiveTask
  <2>2. QED  BY <2>1 DEF FoundByCollect
<1>2. QED  BY <1>1, IncumbentChanges DEF FoundByCollect

-----------------------------------------------------------------------------
(* The invariant of a Session                                              *)

SessionInv ==
  /\ TypeOK /\ ExecutionInv /\ ProcessInv /\ RoundInv /\ MarkInv /\ RowsAreOwned
  /\ WithinBudgets /\ PublicationSettled /\ FoundByCollect

LEMMA InitialSession == Init => ProcessInv /\ RoundInv /\ MarkInv /\ RowsAreOwned
                                /\ WithinBudgets /\ PublicationSettled /\ FoundByCollect
                                /\ EvidenceAgrees
<1> SUFFICES ASSUME Init
             PROVE  ProcessInv /\ RoundInv /\ MarkInv /\ RowsAreOwned
                    /\ WithinBudgets /\ PublicationSettled /\ FoundByCollect /\ EvidenceAgrees
  OBVIOUS
<1>1. /\ \A t \in Tasks : /\ tasks[t].state = "none" /\ tasks[t].proc = "none"
                          /\ tasks[t].reason = "none" /\ tasks[t].effect = FALSE
                          /\ sup[t] = "none" /\ runner[t] = "none" /\ worker[t] = "none"
                          /\ inflight[t] = NoId /\ evaluating[t] = NoId
      /\ runState = "RUNNING"
  BY DEF Init, NoTaskRow
<1>2. ProcessInv
  BY <1>1 DEF ProcessInv, RunnerFollows, IdsAreDurable, EndedIsLeft, LocalsBelong, TreesAreEnded,
              Busy, RunnerAlive
<1>3. 1 \in Rounds /\ activeRound = 1
  BY ConstantsAssumption DEF Rounds, Init
<1>4. /\ Active.state = "WAITING_FOR_PLAN" /\ Active.task = NoId
      /\ Active.before = FALSE /\ Active.after = FALSE
  BY <1>3 DEF Init, Active, NoRoundRow
<1>5. RoundInv
  BY <1>1, <1>4, ConstantsAssumption
  DEF RoundInv, LiveIsActive, TasksAreHere, RoundIsWhereTasksAre, EndedIsDrained,
      EndedIsCollected, Marked, LiveTask
<1>6. MarkInv
  BY <1>1 DEF MarkInv, GoIsMarked, WorkIsMarked
<1>7. RowsAreOwned /\ EvidenceAgrees
  BY <1>1 DEF Init, RowsAreOwned, EvidenceAgrees
<1>8. WithinBudgets
  <2>1. RequestsUsed = {} /\ CallsUsed = {}
    BY DEF Init, RequestsUsed, CallsUsed
  <2>2. \A r \in Rounds : RequestsUsedIn(r) = {} /\ CallsUsedIn(r) = {}
    BY <2>1 DEF RequestsUsedIn, CallsUsedIn
  <2>3. QED  BY <2>1, <2>2, FS_EmptySet, ConstantsAssumption DEF WithinBudgets
<1>9. PublicationSettled
  BY DEF Init, PublicationSettled, NoRoundRow
<1>10. FoundByCollect
  BY <1>4 DEF FoundByCollect
<1>11. QED  BY <1>2, <1>5, <1>6, <1>7, <1>8, <1>9, <1>10

(* A step that changes nothing keeps everything. *)
LEMMA StutterKeepsSession ==
  ASSUME UNCHANGED vars, ProcessInv, RoundInv, MarkInv
  PROVE  ProcessInv' /\ RoundInv' /\ MarkInv'
<1>1. ProcessInv'
  BY DEF vars, control, procs, local, ProcessInv, RunnerFollows, IdsAreDurable, EndedIsLeft,
         LocalsBelong, TreesAreEnded, Busy
<1>2. RoundInv'
  BY SameKeepsRound DEF vars, control, SameTasks, SameActive, Active
<1>3. MarkInv'
  BY DEF vars, control, procs, MarkInv, GoIsMarked, WorkIsMarked
<1>4. QED  BY <1>1, <1>2, <1>3

LEMMA SessionInvariant == Spec => []SessionInv
<1> DEFINE Rest == /\ ProcessInv /\ RoundInv /\ MarkInv /\ RowsAreOwned
                   /\ WithinBudgets /\ PublicationSettled /\ FoundByCollect
<1>1. Init => Rest
  BY InitialSession
<1>2. TypeOK /\ ExecutionInv /\ Rest /\ [Next]_vars => Rest'
  <2>1. SUFFICES ASSUME TypeOK, ExecutionInv, Rest, [Next]_vars PROVE Rest'
    OBVIOUS
  <2>2. CASE AgentStep
    BY <2>1, <2>2, AgentKeepsProcesses, AgentKeepsRound, AgentKeepsMarks, NextKeepsOwned,
       RequestsWithinBudgets, CallsWithinBudgets, PublicationKept, FoundKept DEF WithinBudgets
  <2>3. ASSUME NEW t \in Tasks, ProcessStep(t) PROVE Rest'
    <3>1. ProcessInv'
      BY <2>1, <2>3, SupervisorKeepsProcesses, RunnerKeepsProcesses, LedgerKeepsProcesses
      DEF ProcessStep
    <3>2. QED
      BY <2>1, <2>3, <3>1, ProcessKeepsRound, ProcessKeepsMarks, NextKeepsOwned,
         RequestsWithinBudgets, CallsWithinBudgets, PublicationKept, FoundKept DEF WithinBudgets
  <2>4. CASE UNCHANGED vars
    BY <2>1, <2>4, StutterKeepsSession, NextKeepsOwned,
       RequestsWithinBudgets, CallsWithinBudgets, PublicationKept, FoundKept DEF WithinBudgets
  <2>5. QED  BY <2>1, <2>2, <2>3, <2>4 DEF Next
<1>3. TypeOK /\ ExecutionInv /\ Rest => SessionInv
  BY DEF SessionInv
<1>4. QED  BY <1>1, <1>2, <1>3, TypeCorrect, ExecutionIsInvariant, PTL DEF Spec

-----------------------------------------------------------------------------
(* What the invariant says                                                 *)

LEMMA RoundsTellTasks == TypeOK /\ RoundInv => RoundAgreesWithTasks
<1>1. SUFFICES ASSUME TypeOK, RoundInv, runState = "RUNNING"
               PROVE  RoundAgreesWithTasks
  BY DEF RoundAgreesWithTasks
<1>2. \A t \in Tasks : t \in TasksOf(activeRound) /\ tasks[t].effect <=> Marked(t)
  BY DEF TasksOf, Marked
<1>3. TasksOf(activeRound) \subseteq Tasks
  BY DEF TasksOf
<1>4. CASE /\ Active.state \in {"WAITING_FOR_PLAN", "READY_TO_EXECUTE"}
           /\ \A t \in Tasks : ~Marked(t)
  <2>1. {t \in TasksOf(activeRound) : tasks[t].effect} = {}
    BY <1>2, <1>3, <1>4
  <2>2. QED  BY <1>4, <2>1 DEF RoundAgreesWithTasks
<1>5. CASE /\ Active.state \in {"EXECUTING", "WAITING_FOR_EVALUATION", "READY_TO_FINISH"}
           /\ Active.task \in Tasks /\ Marked(Active.task)
           /\ \A t \in Tasks : Marked(t) => t = Active.task
           /\ Active.state = "EXECUTING" <=> tasks[Active.task].state # "COLLECTED"
  <2>1. {t \in TasksOf(activeRound) : tasks[t].effect} = {Active.task}
    BY <1>2, <1>3, <1>5
  <2>2. QED  BY <1>5, <2>1 DEF RoundAgreesWithTasks
<1>6. QED  BY <1>1, <1>4, <1>5 DEF RoundInv, RoundIsWhereTasksAre

(* The mark, the round, the task rows and the publication of its memory    *)
(* never tell different stories (mark_effect, collect, finish_round).      *)
THEOREM RoundsAlwaysAgree == Spec => []RoundsAgree
<1>1. SessionInv => RoundsAgree
  BY RoundsTellTasks DEF SessionInv, MarkInv, RoundsAgree
<1>2. QED  BY <1>1, SessionInvariant, PTL

(* Nobody works for a task that was recovered as dead, and no task of a    *)
(* run that has ended is live (recover_dead_task, stop_session, collect).  *)
THEOREM NobodyStillWorks == Spec => []NobodyWorksOn
<1>1. SessionInv => NobodyWorksOn
  <2>1. ProcessInv => RecoveredIsIdle
    BY DEF ProcessInv, EndedIsLeft, RecoveredIsIdle
  <2>2. QED  BY <2>1 DEF SessionInv, RoundInv, NobodyWorksOn
<1>2. QED  BY <1>1, SessionInvariant, PTL

(* Whatever crashes between a reservation and its end, what was spent is   *)
(* within the budgets of the run and of each round (session_ledger).       *)
THEOREM BudgetsAreKept == Spec => []BudgetsRespected
<1>1. SessionInv => BudgetsRespected
  BY SpentIsUsed DEF SessionInv, WithinBudgets, BudgetsRespected
<1>2. QED  BY <1>1, SessionInvariant, PTL

(* Where process trees end as a whole, the ledgers stay within the budgets *)
(* and agree with the evidence of collected tasks (collect_facts).         *)
THEOREM LedgersAlwaysAgree ==
  ASSUME JobObject
  PROVE  Spec => []LedgersAgree
<1>1. Init => EvidenceAgrees
  BY InitialSession
<1>2. SessionInv /\ EvidenceAgrees /\ [Next]_vars => EvidenceAgrees'
  BY EvidenceKept DEF SessionInv
<1>3. BudgetsRespected /\ EvidenceAgrees => LedgersAgree
  BY DEF LedgersAgree
<1>4. QED  BY <1>1, <1>2, <1>3, SessionInvariant, BudgetsAreKept, PTL DEF Spec

(* Where process trees end as a whole, the processes of a task are of the  *)
(* live one, if there is one.                                              *)
LEMMA BusyIsLive ==
  ASSUME JobObject, ProcessInv, NEW t \in Tasks, Busy(t), TypeOK
  PROVE  tasks[t].state \in LiveTask
<1>1. tasks[t].state \in LiveTask \cup {"none", "EXITED", "COLLECTED"}
  BY ProcessTypes DEF TaskRow, TaskStates
<1>2. tasks[t].state # "none"
  BY DEF ProcessInv, RunnerFollows, Busy, RunnerAlive
<1>3. tasks[t].state \notin {"EXITED", "COLLECTED"}
  BY DEF ProcessInv, EndedIsLeft, TreesAreEnded
<1>4. QED  BY <1>1, <1>2, <1>3

(* Where process trees end as a whole, a stopped run has no process left,  *)
(* and two tasks never share the machine (ExecutionTree, collect).         *)
THEOREM TreesAlwaysEnd ==
  ASSUME JobObject
  PROVE  Spec => []TreesEnd
<1>1. SessionInv => TreesEnd
  <2>1. SUFFICES ASSUME SessionInv PROVE TreesEnd
    OBVIOUS
  <2>2. \A t \in Tasks : Busy(t) => tasks[t].state \in LiveTask
    BY <2>1, BusyIsLive DEF SessionInv
  <2>3. NoLiveChildWhenStopped
    BY <2>1, <2>2 DEF SessionInv, RoundInv, EndedIsDrained, NoLiveChildWhenStopped
  <2>4. NoOverlap
    BY <2>1, <2>2 DEF SessionInv, RoundInv, LiveIsActive, NoOverlap
  <2>5. QED  BY <2>3, <2>4 DEF TreesEnd
<1>2. QED  BY <1>1, SessionInvariant, PTL

-----------------------------------------------------------------------------
(* What a step never does                                                  *)

LEMMA EndedStays ==
  ASSUME TypeOK, RoundInv, [Next]_vars, runState \in {"STOPPED", "COMPLETED"}
  PROVE  ControlStays
<1> USE RoundTypes
<1>1. CASE UNCHANGED <<runState, activeRound, rounds>>
  BY <1>1 DEF ControlStays, ControlOf
<1>2. ASSUME NEW t \in Tasks, ProcessStep(t) PROVE UNCHANGED <<runState, activeRound, rounds>>
  BY <1>2, ControlOfProcesses DEF control, Own, RegisterRunner, LaunchMarks, MarkTerminal
<1>3. ASSUME NEW t \in Tasks, NEW found \in BOOLEAN, Collect(t, found) PROVE FALSE
  <2>1. Active.task = t /\ tasks[t].state # "COLLECTED"
    BY <1>3, CollectRow DEF Collect, LiveTask
  <2>2. QED  BY <2>1 DEF RoundInv, EndedIsCollected
<1>4. ASSUME NEW r \in Rounds, NEW status \in {"accepted", "rejected", "published", "failed"},
             CommitMemory(r, status)
      PROVE  ControlStays
  <2>1. /\ UNCHANGED <<runState, activeRound>>
        /\ rounds' = [rounds EXCEPT ![r] = [rounds[r] EXCEPT !.memory = status]]
    BY <1>4 DEF CommitMemory
  <2>2. [[rounds[r] EXCEPT !.memory = status] EXCEPT !.memory = "null"] =
          [rounds[r] EXCEPT !.memory = "null"]
    BY DEF RoundRow
  <2>3. QED  BY <2>1, <2>2 DEF ControlStays, ControlOf
<1>5. CASE AgentStep
  BY <1>1, <1>3, <1>4, <1>5
  DEF AgentStep, CollectStep, SubmitPlan, Execute, ExecuteRefused, MayExecute, SubmitEvaluation,
      MemoryRevise, FinishContinue, FinishComplete, MayFinish, RequireState, Stop, MayStop,
      ObserveDead, Age
<1>6. QED  BY <1>1, <1>2, <1>5 DEF Next, vars, control

(* What a run has reached is not taken back: a stopped or completed run    *)
(* stays as it ended, and an incumbent, once found, is never lost.         *)
THEOREM NothingIsLost == Spec => NothingLost
<1>1. SessionInv /\ [Next]_vars => (runState \in {"STOPPED", "COMPLETED"} => ControlStays)
  BY EndedStays DEF SessionInv
<1>2. SessionInv /\ [Next]_vars =>
        (Active.before \/ Active.after => (Active.before \/ Active.after)')
  BY IncumbentStays DEF SessionInv
<1>3. Spec => EndedRunIsFrozen
  BY <1>1, SessionInvariant, PTL DEF Spec, EndedRunIsFrozen
<1>4. Spec => IncumbentKept
  BY <1>2, SessionInvariant, PTL DEF Spec, IncumbentKept
<1>5. QED  BY <1>3, <1>4, PTL DEF NothingLost

(* No late answer rewrites the outcome of a request, on any platform       *)
(* (SessionRequestBudget.finish, mark_terminal, recover_dead_task).        *)
THEOREM OutcomesAreFinal == Spec => RequestOutcomeFinal
<1>1. SessionInv /\ [Next]_vars =>
        \A q \in Requests : requests[q].state \in ClosedRequest => requests'[q] = requests[q]
  BY OutcomesStay DEF SessionInv
<1>2. QED  BY <1>1, SessionInvariant, PTL DEF Spec, RequestOutcomeFinal

(* Where process trees end as a whole, what a ledger says of something     *)
(* that is settled is never rewritten.                                     *)
THEOREM LedgersAreFinal ==
  ASSUME JobObject
  PROVE  Spec => LedgersFinal
<1>1. SessionInv /\ [Next]_vars =>
        \A c \in SolverCalls :
          solverCalls[c].task \in Tasks /\ tasks[solverCalls[c].task].state = "COLLECTED" =>
            solverCalls'[c] = solverCalls[c]
  BY CollectedCallsStay DEF SessionInv
<1>2. Spec => CollectedLedgerFrozen
  BY <1>1, SessionInvariant, PTL DEF Spec, CollectedLedgerFrozen
<1>3. QED  BY <1>2, OutcomesAreFinal, PTL DEF LedgersFinal

-----------------------------------------------------------------------------
(* The life cycle                                                          *)

SpentRounds == {r \in Rounds : \E t \in TasksOf(r) : tasks[t].effect}

(* Nothing the Agent sees of the life cycle changes. *)
Unseen ==
  /\ runState' = runState /\ activeRound' = activeRound /\ Active'.state = Active.state
  /\ SpentRounds' = SpentRounds

LEMMA UnseenStutters == ASSUME Unseen PROVE UNCHANGED Lifecycle!vars
BY DEF Unseen, SpentRounds, Lifecycle!vars

LEMMA MovesAreSteps ==
  ASSUME SpentRounds' = SpentRounds,
         \/ /\ runState = "RUNNING" /\ UNCHANGED <<runState, activeRound>>
            /\ \/ Active.state = "WAITING_FOR_PLAN" /\ Active'.state = "READY_TO_EXECUTE"
               \/ Active.state = "EXECUTING" /\ Active'.state = "WAITING_FOR_EVALUATION"
               \/ Active.state = "WAITING_FOR_EVALUATION" /\ Active'.state = "READY_TO_FINISH"
         \/ /\ runState = "RUNNING" /\ Active.state = "READY_TO_FINISH" /\ activeRound < MaxRounds
            /\ activeRound' = activeRound + 1 /\ UNCHANGED runState
            /\ Active'.state = "WAITING_FOR_PLAN"
  PROVE  Lifecycle!Next
BY DEF SpentRounds, Lifecycle!Next, Lifecycle!Plan, Lifecycle!Conclude, Lifecycle!Evaluate,
       Lifecycle!Move, Lifecycle!Continue

LEMMA EndsAreSteps ==
  ASSUME SpentRounds' = SpentRounds, UNCHANGED activeRound,
         \/ /\ runState = "RUNNING" /\ runState' = "COMPLETED"
            /\ Active.state = "READY_TO_FINISH" /\ Active'.state = "ROUND_COMPLETED"
         \/ /\ runState = "RUNNING" /\ runState' = "FAILED"
            /\ Active.state = "READY_TO_EXECUTE" /\ Active'.state = "FAILED"
         \/ /\ runState = "RUNNING" /\ runState' = "STOPPED"
            /\ Active.state # "EXECUTING" /\ Active'.state = "STOPPED"
         \/ /\ runState = "RUNNING" /\ runState' = "STOPPING" /\ Active'.state = Active.state
         \/ /\ runState = "STOPPING" /\ runState' = "STOPPED" /\ Active'.state = "STOPPED"
         \/ /\ runState = "FAILED" /\ UNCHANGED runState /\ activeRound \notin SpentRounds
            /\ Active.state = "FAILED" /\ Active'.state = "READY_TO_EXECUTE"
  PROVE  Lifecycle!Next
BY DEF SpentRounds, Lifecycle!Next, Lifecycle!Complete, Lifecycle!Fail, Lifecycle!StopNow,
       Lifecycle!Drain, Lifecycle!Drained, Lifecycle!End, Lifecycle!CollectLate

LEMMA SpendIsStep ==
  ASSUME runState = "RUNNING", UNCHANGED <<runState, activeRound>>,
         Active.state = "READY_TO_EXECUTE", Active'.state = "EXECUTING",
         activeRound \notin SpentRounds, SpentRounds' = SpentRounds \cup {activeRound}
  PROVE  Lifecycle!Next
BY DEF SpentRounds, Lifecycle!Next, Lifecycle!Spend

(* A round is spent by the effect of one of its tasks, for good. *)
LEMMA SpentByEffect ==
  ASSUME TypeOK, ExecutionInv, [Next]_vars
  PROVE  /\ \A r \in Rounds : r \in SpentRounds <=>
              \E u \in Tasks : tasks[u].effect /\ tasks[u].round = r
         /\ \A r \in Rounds : r \in SpentRounds' <=>
              \E u \in Tasks : /\ tasks'[u].effect /\ tasks'[u].round = r
                               /\ tasks'[u].state # "none"
         /\ \A u \in Tasks : tasks[u].effect => /\ tasks'[u].effect
                                                /\ tasks'[u].round = tasks[u].round
                                                /\ tasks'[u].state # "none"
<1>1. \A u \in Tasks : tasks[u].effect => tasks[u].state # "none"
  BY DEF ExecutionInv, NoneHasNoEffect
<1>2. \A r \in Rounds : r \in SpentRounds <=>
        \E u \in Tasks : tasks[u].effect /\ tasks[u].round = r
  BY <1>1 DEF SpentRounds, TasksOf
<1>3. \A r \in Rounds : r \in SpentRounds' <=>
        \E u \in Tasks : tasks'[u].effect /\ tasks'[u].round = r /\ tasks'[u].state # "none"
  BY DEF SpentRounds, TasksOf
<1>4. QED  BY <1>1, <1>2, <1>3, EffectsStay, RoundsOfTasksStay

LEMMA NoEffectSpendsNothing ==
  ASSUME TypeOK, ExecutionInv, [Next]_vars, \A u \in Tasks : tasks'[u].effect => tasks[u].effect
  PROVE  SpentRounds' = SpentRounds
<1>1. \A r \in Rounds : r \in SpentRounds' <=> r \in SpentRounds
  BY SpentByEffect
<1>2. SpentRounds \subseteq Rounds /\ SpentRounds' \subseteq Rounds
  BY DEF SpentRounds
<1>3. QED  BY <1>1, <1>2

LEMMA MarkedIsSpent ==
  ASSUME TypeOK, RoundInv
  PROVE  (\A u \in Tasks : ~Marked(u)) => activeRound \notin SpentRounds
BY DEF SpentRounds, TasksOf, Marked

(* The first effect of a task spends its round, which is the active one. *)
LEMMA MarkingSpends ==
  ASSUME TypeOK, RoundInv, ExecutionInv, [Next]_vars, NEW t \in Tasks,
         tasks[t].state = "RUNNING", runState = "RUNNING",
         \/ MarkEffect(t) /\ UNCHANGED <<runState, activeRound>>
         \/ RegisterRunner(t)
  PROVE  [Lifecycle!Next]_(Lifecycle!vars)
<1>1. /\ tasks'[t].effect /\ runState' = runState /\ activeRound' = activeRound
      /\ \A u \in Tasks \ {t} : tasks'[u] = tasks[u]
      /\ tasks'[t].state = tasks[t].state /\ tasks'[t].round = tasks[t].round
      /\ Active'.state = "EXECUTING"
      /\ tasks[t].effect => Active.state = "EXECUTING"
      /\ ~tasks[t].effect => Active.state = "READY_TO_EXECUTE"
  BY MarkingStep
<1>2. CASE tasks[t].effect
  BY <1>1, <1>2, NoEffectSpendsNothing, UnseenStutters DEF Unseen
<1>3. CASE ~tasks[t].effect
  <2>1. tasks[t].round = activeRound /\ activeRound \in Rounds
    BY RoundTypes DEF RoundInv, LiveIsActive, TasksAreHere, LiveTask
  <2>2. activeRound \notin SpentRounds
    BY <1>1, <1>3, MarkedIsSpent DEF RoundInv, RoundIsWhereTasksAre
  <2>3. \A r \in Rounds : r \in SpentRounds' <=> r \in SpentRounds \/ r = activeRound
    BY <1>1, <2>1, SpentByEffect
  <2>4. SpentRounds' = SpentRounds \cup {activeRound}
    <3>1. SpentRounds \subseteq Rounds /\ SpentRounds' \subseteq Rounds
      BY DEF SpentRounds
    <3>2. QED  BY <2>1, <2>3, <3>1
  <2>5. QED  BY <1>1, <1>3, <2>2, <2>4, SpendIsStep
<1>4. QED  BY <1>2, <1>3

LEMMA ProcessesRefine ==
  ASSUME TypeOK, RoundInv, ExecutionInv, [Next]_vars, NEW t \in Tasks, ProcessStep(t)
  PROVE  [Lifecycle!Next]_(Lifecycle!vars)
<1>1. ASSUME UNCHANGED <<runState, activeRound, rounds>>,
             \A u \in Tasks : tasks'[u].effect => tasks[u].effect
      PROVE  [Lifecycle!Next]_(Lifecycle!vars)
  BY <1>1, NoEffectSpendsNothing, UnseenStutters DEF Unseen, Active
<1>2. CASE UNCHANGED control
  BY <1>1, <1>2 DEF control
<1>3. CASE Own(t)
  BY <1>1, <1>3, OwnedRow DEF Own
<1>4. CASE MarkTerminal(t)
  BY <1>1, <1>4, TerminalRow DEF MarkTerminal, SameTask
<1>5. CASE RegisterRunner(t)
  <2>1. CASE LaunchMarks(t)
    BY <1>5, <2>1, MarkingSpends DEF LaunchMarks
  <2>2. CASE ~LaunchMarks(t)
    BY <1>1, <1>5, <2>2, RegisteredRow DEF RegisterRunner
  <2>3. QED  BY <2>1, <2>2
<1>6. CASE /\ tasks[t].state = "RUNNING" /\ runState = "RUNNING"
           /\ MarkEffect(t) /\ UNCHANGED <<runState, activeRound, procs>>
  BY <1>6, MarkingSpends
<1>7. QED  BY <1>2, <1>3, <1>4, <1>5, <1>6, ControlOfProcesses

LEMMA CollectRefines ==
  ASSUME TypeOK, RoundInv, ExecutionInv, [Next]_vars, NEW t \in Tasks, NEW found \in BOOLEAN,
         Collect(t, found)
  PROVE  [Lifecycle!Next]_(Lifecycle!vars)
<1>1. /\ Active.task = t /\ activeRound' = activeRound /\ Active'.state = AfterCollect(t)
      /\ runState' = IF runState = "STOPPING" THEN "STOPPED" ELSE runState
  BY RoundTypes DEF Collect, Active, RoundRow
<1>2. /\ tasks[t].state \notin {"none", "COLLECTED"}
      /\ \A u \in Tasks : tasks'[u].effect => tasks[u].effect
  BY CollectRow DEF SameTask, LiveTask
<1>3. SpentRounds' = SpentRounds
  BY <1>2, NoEffectSpendsNothing
<1>4. runState \in {"RUNNING", "STOPPING", "FAILED"}
  BY <1>1, <1>2, RoundTypes DEF RoundInv, EndedIsCollected, RunStates
<1>5. CASE runState = "STOPPING"
  BY <1>1, <1>3, <1>5, EndsAreSteps DEF AfterCollect
<1>6. CASE runState = "FAILED"
  <2>1. Active.state = "FAILED" /\ \A u \in Tasks : ~Marked(u)
    BY <1>1, <1>2, <1>6 DEF RoundInv, EndedIsCollected
  <2>2. ~tasks[t].effect
    BY <1>1, <1>2, <2>1 DEF RoundInv, TasksAreHere, Marked
  <2>3. QED  BY <1>1, <1>3, <1>6, <2>1, <2>2, MarkedIsSpent, EndsAreSteps DEF AfterCollect
<1>7. CASE runState = "RUNNING"
  <2>1. tasks[t].effect <=> Marked(t)
    BY <1>1, <1>2 DEF RoundInv, TasksAreHere, Marked
  <2>2. CASE tasks[t].effect
    <3>1. Active.state = "EXECUTING" /\ Active'.state = "WAITING_FOR_EVALUATION"
      BY <1>1, <1>2, <1>7, <2>1, <2>2 DEF RoundInv, RoundIsWhereTasksAre, AfterCollect
    <3>2. QED  BY <1>1, <1>3, <1>7, <3>1, MovesAreSteps
  <2>3. CASE ~tasks[t].effect
    <3>1. Active.state = "READY_TO_EXECUTE" /\ Active'.state = "READY_TO_EXECUTE"
      BY <1>1, <1>2, <1>7, <2>1, <2>3, ConstantsAssumption
      DEF RoundInv, RoundIsWhereTasksAre, AfterCollect
    <3>2. QED  BY <1>1, <1>3, <1>7, <3>1, UnseenStutters DEF Unseen
  <2>4. QED  BY <2>2, <2>3
<1>8. QED  BY <1>4, <1>5, <1>6, <1>7

LEMMA StopRefines ==
  ASSUME TypeOK, RoundInv, ExecutionInv, [Next]_vars, Stop
  PROVE  [Lifecycle!Next]_(Lifecycle!vars)
<1>1. \A u \in Tasks : tasks'[u].effect => tasks[u].effect
  BY StoppedRows DEF SameTask
<1>2. /\ SpentRounds' = SpentRounds /\ runState = "RUNNING" /\ UNCHANGED activeRound
  BY <1>1, NoEffectSpendsNothing DEF Stop, MayStop
<1>3. CASE MustDrain
  BY <1>2, <1>3, EndsAreSteps DEF Stop, Active
<1>4. CASE ~MustDrain
  <2>1. runState' = "STOPPED" /\ Active'.state = "STOPPED"
    BY <1>2, <1>4, RoundTypes DEF Stop, Active, RoundRow
  <2>2. Active.state # "EXECUTING"
    BY <1>2, <1>4 DEF MustDrain, TasksOf, RoundInv, RoundIsWhereTasksAre, Marked
  <2>3. QED  BY <1>2, <2>1, <2>2, EndsAreSteps
<1>5. QED  BY <1>3, <1>4

LEMMA AgentRefines ==
  ASSUME TypeOK, RoundInv, ExecutionInv, [Next]_vars, AgentStep
  PROVE  [Lifecycle!Next]_(Lifecycle!vars)
<1>1. ASSUME UNCHANGED tasks PROVE SpentRounds' = SpentRounds
  BY <1>1 DEF SpentRounds, TasksOf
<1>2. CASE SubmitPlan
  <2>1. /\ runState = "RUNNING" /\ UNCHANGED <<runState, activeRound, tasks>>
        /\ Active.state = "WAITING_FOR_PLAN" /\ Active'.state = "READY_TO_EXECUTE"
    BY <1>2, RoundTypes DEF SubmitPlan, RequireState, Active, RoundRow
  <2>2. QED  BY <1>1, <2>1, MovesAreSteps
<1>3. ASSUME NEW t \in Tasks, Execute(t) PROVE [Lifecycle!Next]_(Lifecycle!vars)
  <2>1. \A u \in Tasks : tasks'[u].effect => tasks[u].effect
    BY <1>3, ProcessTypes DEF Execute, NoTaskRow
  <2>2. runState' = runState /\ activeRound' = activeRound /\ Active'.state = Active.state
    BY <1>3, RoundTypes DEF Execute, Active, RoundRow
  <2>3. QED  BY <2>1, <2>2, NoEffectSpendsNothing, UnseenStutters DEF Unseen
<1>4. CASE ExecuteRefused
  <2>1. /\ runState = "RUNNING" /\ runState' = "FAILED" /\ UNCHANGED <<activeRound, tasks>>
        /\ Active.state = "READY_TO_EXECUTE" /\ Active'.state = "FAILED"
    BY <1>4, RoundTypes DEF ExecuteRefused, MayExecute, RequireState, Active, RoundRow
  <2>2. QED  BY <1>1, <2>1, EndsAreSteps
<1>5. ASSUME NEW t \in Tasks, ObserveDead(t) \/ Age(t) PROVE [Lifecycle!Next]_(Lifecycle!vars)
  <2>1. \A u \in Tasks : tasks'[u].effect => tasks[u].effect
    BY <1>5, ObservedRow DEF SameTask
  <2>2. runState' = runState /\ activeRound' = activeRound /\ Active'.state = Active.state
    BY <1>5 DEF ObserveDead, Age, Active
  <2>3. QED  BY <2>1, <2>2, NoEffectSpendsNothing, UnseenStutters DEF Unseen
<1>6. ASSUME NEW m, SubmitEvaluation(m) PROVE [Lifecycle!Next]_(Lifecycle!vars)
  <2>1. /\ runState = "RUNNING" /\ UNCHANGED <<runState, activeRound, tasks>>
        /\ Active.state = "WAITING_FOR_EVALUATION"
        /\ rounds' = [rounds EXCEPT ![activeRound] =
                        [rounds[activeRound] EXCEPT !.state = "READY_TO_FINISH", !.memory = m]]
    BY <1>6 DEF SubmitEvaluation, RequireState
  <2>2. Active'.state = "READY_TO_FINISH"
    BY <2>1, RoundTypes DEF Active, RoundRow
  <2>3. QED  BY <1>1, <2>1, <2>2, MovesAreSteps
<1>7. CASE \/ MemoryRevise
           \/ \E r \in Rounds, status \in {"accepted", "rejected", "published", "failed"} :
                CommitMemory(r, status)
  <2>1. /\ runState' = runState /\ activeRound' = activeRound /\ UNCHANGED tasks
        /\ Active'.state = Active.state
    BY <1>7, RoundTypes DEF MemoryRevise, CommitMemory, Active, RoundRow
  <2>2. QED  BY <1>1, <2>1, UnseenStutters DEF Unseen
<1>8. CASE FinishContinue
  <2>1. /\ runState = "RUNNING" /\ UNCHANGED <<runState, tasks>> /\ activeRound < MaxRounds
        /\ Active.state = "READY_TO_FINISH" /\ activeRound' = activeRound + 1
    BY <1>8 DEF FinishContinue, MayFinish, RequireState
  <2>2. Active'.state = "WAITING_FOR_PLAN"
    <3>1. activeRound + 1 \in Rounds
      BY <2>1, RoundTypes, ConstantsAssumption DEF Rounds
    <3>2. QED  BY <1>8, <2>1, <3>1, RoundTypes DEF FinishContinue, Active, NextRoundRow, NoRoundRow
  <2>3. QED  BY <1>1, <2>1, <2>2, MovesAreSteps
<1>9. CASE FinishComplete
  <2>1. /\ runState = "RUNNING" /\ runState' = "COMPLETED" /\ UNCHANGED <<activeRound, tasks>>
        /\ Active.state = "READY_TO_FINISH" /\ Active'.state = "ROUND_COMPLETED"
    BY <1>9, RoundTypes DEF FinishComplete, MayFinish, RequireState, Active, RoundRow
  <2>2. QED  BY <1>1, <2>1, EndsAreSteps
<1>10. QED
  BY <1>2, <1>3, <1>4, <1>5, <1>6, <1>7, <1>8, <1>9, CollectRefines, StopRefines
  DEF AgentStep, CollectStep

LEMMA InitRefines == Init => Lifecycle!Init
<1>1. SUFFICES ASSUME Init PROVE Lifecycle!Init
  OBVIOUS
<1>2. activeRound = 1 /\ 1 \in Rounds /\ runState = "RUNNING"
  BY <1>1, ConstantsAssumption DEF Init, Rounds
<1>3. Active.state = "WAITING_FOR_PLAN"
  BY <1>1, <1>2 DEF Init, Active, NoRoundRow
<1>4. {r \in Rounds : \E t \in TasksOf(r) : tasks[t].effect} = {}
  BY <1>1 DEF Init, TasksOf, NoTaskRow
<1>5. QED  BY <1>2, <1>3, <1>4 DEF Lifecycle!Init

(* The Session implements the life cycle the Agent is promised: whatever   *)
(* its tasks, processes and ledgers do is a step of it or is not seen.     *)
THEOREM SessionImplementsLifecycle == Spec => ImplementsLifecycle
<1>1. SessionInv /\ [Next]_vars => [Lifecycle!Next]_(Lifecycle!vars)
  <2>1. SUFFICES ASSUME SessionInv, [Next]_vars PROVE [Lifecycle!Next]_(Lifecycle!vars)
    OBVIOUS
  <2>2. CASE UNCHANGED vars
    BY <2>2, UnseenStutters DEF Unseen, vars, control, SpentRounds, TasksOf, Active
  <2>3. QED  BY <2>1, <2>2, ProcessesRefine, AgentRefines DEF SessionInv, Next
<1>2. QED
  BY InitRefines, <1>1, SessionInvariant, PTL DEF Spec, ImplementsLifecycle, Lifecycle!Spec

=============================================================================

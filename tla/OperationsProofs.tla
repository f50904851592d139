-------------------------- MODULE OperationsProofs --------------------------
(***************************************************************************)
(* Theorems about module Operations, for any number of calls, operation    *)
(* ids, plans, rounds and faults.                                          *)
(***************************************************************************)
EXTENDS Operations, TLAPS

-----------------------------------------------------------------------------
(* Types                                                                   *)

CallRow == [pc : Pcs, req : Request \cup {Nobody}, expected : Nat, result : {"none", "receipt"}]

(* A call that is not idle has a request. *)
CallsAsk == \A c \in Calls : call[c].pc # "idle" => call[c].req \in Request

TypeInv == TypeOK /\ CallsAsk

LEMMA RequestType == \A r \in Request : r.id \in OpIds /\ r.input \in Input
BY OperationsAssumption DEF Request

LEMMA CallType ==
  ASSUME TypeInv, NEW c \in Calls, call[c].pc # "idle"
  PROVE  Id(c) \in OpIds /\ Asked(c) \in Input
BY RequestType DEF TypeInv, CallsAsk, Id, Asked

LEMMA ProcessType == Calls \subseteq Process /\ Supervisor \in Process
BY OperationsAssumption

LEMMA AuditInitType == AuditInit => AuditTypeOK
BY DEF AuditInit, AuditTypeOK, NotFlushing, FlushSteps

LEMMA InitType == Init => TypeInv
<1>1. SUFFICES ASSUME Init PROVE TypeInv
  OBVIOUS
<1>2. AuditTypeOK
  BY <1>1, AuditInitType DEF Init
<1>3. control \in Control
  BY <1>1, OperationsAssumption DEF Init, Control, NewRound, Rounds, RunStates, RoundStates,
                                  TaskStates, MemoryStates
<1>4. /\ operations \in [OpIds -> Operation \cup {NoOperation}]
      /\ planFile \in [Rounds -> Plans \cup {NoPlan}]
      /\ launches \in [OpIds -> Nat]
      /\ version \in Nat \ {0} /\ supervisor \in {"none", "alive", "flushing", "dead"}
      /\ faults \in 0..MaxFaults
  BY <1>1, OperationsAssumption DEF Init
<1>5. call \in [Calls -> CallRow] /\ CallsAsk
  BY <1>1 DEF Init, NoCall, CallRow, Pcs, CallsAsk
<1>6. QED  BY <1>2, <1>3, <1>4, <1>5 DEF TypeInv, TypeOK, CallRow

(* What an action writes of the local state of a call keeps its type. *)
LEMMA GotoType ==
  ASSUME TypeInv, NEW c \in Calls, call[c].pc # "idle", NEW pc \in Pcs, Goto(c, pc)
  PROVE  call' \in [Calls -> CallRow] /\ CallsAsk'
BY DEF TypeInv, TypeOK, CallsAsk, Goto, CallRow

LEMMA ReturnType ==
  ASSUME TypeInv, NEW c \in Calls, Return(c)
  PROVE  call' \in [Calls -> CallRow] /\ CallsAsk'
BY DEF TypeInv, TypeOK, CallsAsk, Return, NoCall, CallRow, Pcs

LEMMA ResultType ==
  ASSUME TypeInv, NEW c \in Calls, call[c].pc # "idle", NEW pc \in Pcs, GotoWithResult(c, pc)
  PROVE  call' \in [Calls -> CallRow] /\ CallsAsk'
BY DEF TypeInv, TypeOK, CallsAsk, GotoWithResult, CallRow

(* The flush of a process keeps the types of the audit journal. *)
FlushStep(p) ==
  FlushSelect(p) \/ FlushReplace(p) \/ FlushAcknowledge(p) \/ FlushFails(p) \/ Vanish(p)

LEMMA FlushType ==
  ASSUME AuditTypeOK, NEW p \in Process, FlushStep(p)
  PROVE  AuditTypeOK'
<1>1. \A n \in Nat : /\ [flush EXCEPT ![p] = [at |-> "selected", rows |-> n]]
                          \in [Process -> [at : FlushSteps, rows : Nat]]
                     /\ [flush EXCEPT ![p].at = "replaced"]
                          \in [Process -> [at : FlushSteps, rows : Nat]]
                     /\ [flush EXCEPT ![p] = NotFlushing]
                          \in [Process -> [at : FlushSteps, rows : Nat]]
  BY DEF AuditTypeOK, NotFlushing, FlushSteps
<1>2. Len(outbox) \in Nat /\ flush[p].rows \in Nat
  BY DEF AuditTypeOK
<1>3. QED
  BY <1>1, <1>2 DEF FlushStep, FlushSelect, FlushReplace, FlushAcknowledge, FlushFails, Vanish,
                    AuditTypeOK

LEMMA QueueType ==
  ASSUME AuditTypeOK, NEW v \in Nat, Queue(v), UNCHANGED <<flushed, journal, flush>>,
         writer' \in Process \cup {Nobody}
  PROVE  AuditTypeOK'
BY DEF AuditTypeOK, Queue

-----------------------------------------------------------------------------
(* The values the code writes belong to the types of their columns. *)
LEMMA ControlNames ==
  /\ {"RUNNING", "STOPPING", "STOPPED", "COMPLETED", "FAILED"} \subseteq RunStates
  /\ {"WAITING_FOR_PLAN", "READY_TO_EXECUTE", "EXECUTING", "WAITING_FOR_EVALUATION",
      "READY_TO_FINISH", "ROUND_COMPLETED", "STOPPED", "FAILED"} \subseteq RoundStates
  /\ {"STARTING", "RUNNING", "STOP_REQUESTED", "none", "EXITED", "COLLECTED"} \subseteq TaskStates
  /\ {"null", "none", "proposed", "accepted", "published", "rejected", "failed"}
       \subseteq MemoryStates
BY DEF RunStates, RoundStates, TaskStates, LiveTask, MemoryStates, MemoryPending

(* Writing a column keeps the type of the row. *)
LEMMA ControlColumns ==
  ASSUME NEW row \in Control
  PROVE  /\ \A x \in TaskStates : [row EXCEPT !.task = x] \in Control
         /\ \A m \in MemoryStates : [row EXCEPT !.memory = m] \in Control
         /\ \A e \in BOOLEAN, s \in RoundStates :
              [row EXCEPT !.effect = e, !.state = s] \in Control
BY DEF Control

LEMMA NewRoundType == \A r \in Rounds : NewRound(r) \in Control
BY ControlNames DEF NewRound, Control

(* What is left of Allowed when the transaction commits: a supervisor may  *)
(* have been launched after collect found its task dead.                   *)
StillAllowed(action) ==
  /\ action = "submit-plan" => RequireState("WAITING_FOR_PLAN")
  /\ action = "execute" => RequireState("READY_TO_EXECUTE")
  /\ action = "collect" => control.task \in LiveTask \cup {"EXITED"}
  /\ action = "submit-evaluation" => RequireState("WAITING_FOR_EVALUATION")
  /\ action = "memory-revise" =>
       RequireState("READY_TO_FINISH") /\ control.memory \in {"failed", "rejected"}
  /\ action \in {"finish-continue", "finish-complete"} =>
       RequireState("READY_TO_FINISH") /\ control.memory \notin MemoryPending
  /\ action = "finish-continue" => control.round < MaxRounds
  /\ action = "stop" => control.run = "RUNNING"

LEMMA AllowedIsStill ==
  ASSUME NEW action \in Actions, Allowed(action)
  PROVE  StillAllowed(action)
BY DEF Actions, Allowed, StillAllowed, Recoverable, PlanAllowed, FinishAllowed

LEMMA ResultsType ==
  ASSUME TypeInv, NEW o \in OpIds, NEW i \in Input, StillAllowed(i.action)
  PROVE  Results(o, i) \subseteq Control
<1>1. /\ control \in Control /\ i.action \in Actions /\ i.plan \in Plans \cup {NoPlan}
      /\ control.run \in RunStates /\ control.task \in TaskStates
  BY DEF TypeInv, TypeOK, Input, Control
<1>2. CASE i.action = "submit-plan"
  <2>1. Results(o, i) = {[control EXCEPT !.state = "READY_TO_EXECUTE", !.plan = i.plan]}
    BY <1>2 DEF Results
  <2>2. [control EXCEPT !.state = "READY_TO_EXECUTE", !.plan = i.plan] \in Control
    BY <1>1, ControlNames DEF Control
  <2>3. QED  BY <2>1, <2>2
<1>3. CASE i.action = "execute"
  <2>1. (control.left \/ control.task = "EXITED") \in BOOLEAN
    OBVIOUS
  <2>2. [control EXCEPT !.task = "STARTING", !.owner = o, !.effect = FALSE,
                        !.left = @ \/ control.task = "EXITED"] \in Control
    BY <1>1, <2>1, ControlNames DEF Control
  <2>3. [control EXCEPT !.run = "FAILED", !.state = "FAILED"] \in Control
    BY <1>1, ControlNames DEF Control
  <2>4. QED  BY <1>3, <2>2, <2>3 DEF Results
<1>4. CASE i.action = "collect"
  <2>1. Results(o, i) = {[control EXCEPT !.task = "COLLECTED", !.state = AfterCollect,
                            !.run = IF @ = "STOPPING" THEN "STOPPED" ELSE @]}
    BY <1>4 DEF Results
  <2>2. AfterCollect \in RoundStates
    BY ControlNames DEF AfterCollect
  <2>3. (IF control.run = "STOPPING" THEN "STOPPED" ELSE control.run) \in RunStates
    BY <1>1, ControlNames
  <2>4. [control EXCEPT !.task = "COLLECTED", !.state = AfterCollect,
                        !.run = IF @ = "STOPPING" THEN "STOPPED" ELSE @] \in Control
    BY <1>1, <2>2, <2>3, ControlNames DEF Control
  <2>5. QED  BY <2>1, <2>4
<1>5. CASE i.action = "submit-evaluation"
  <2>1. Results(o, i) = {[control EXCEPT !.state = "READY_TO_FINISH", !.memory = m] :
                            m \in {"none", "proposed"}}
    BY <1>5 DEF Results
  <2>2. \A m \in {"none", "proposed"} :
          [control EXCEPT !.state = "READY_TO_FINISH", !.memory = m] \in Control
    BY <1>1, ControlNames DEF Control
  <2>3. QED  BY <2>1, <2>2
<1>6. CASE i.action = "memory-revise"
  <2>1. Results(o, i) = {[control EXCEPT !.memory = "proposed"]}
    BY <1>6 DEF Results
  <2>2. [control EXCEPT !.memory = "proposed"] \in Control
    BY <1>1, ControlNames DEF Control
  <2>3. QED  BY <2>1, <2>2
<1>7. CASE i.action = "finish-continue"
  <2>1. control.round + 1 \in Rounds
    BY <1>1, <1>7, OperationsAssumption DEF StillAllowed, Control, Rounds
  <2>2. QED  BY <1>7, <2>1, NewRoundType DEF Results
<1>8. CASE i.action = "finish-complete"
  <2>1. Results(o, i) = {[control EXCEPT !.state = "ROUND_COMPLETED", !.run = "COMPLETED"]}
    BY <1>8 DEF Results
  <2>2. [control EXCEPT !.state = "ROUND_COMPLETED", !.run = "COMPLETED"] \in Control
    BY <1>1, ControlNames DEF Control
  <2>3. QED  BY <2>1, <2>2
<1>9. CASE i.action = "stop"
  <2>1. Results(o, i) = {AfterStop}
    BY <1>9 DEF Results
  <2>2. AfterStop \in Control
    BY <1>1, ControlNames DEF AfterStop, Control
  <2>3. QED  BY <2>1, <2>2
<1>10. QED
  BY <1>1, <1>2, <1>3, <1>4, <1>5, <1>6, <1>7, <1>8, <1>9 DEF Actions

(* A transaction outside the protocol. *)
LEMMA ChangeType ==
  ASSUME TypeInv, NEW new \in Control, Change(new)
  PROVE  control' \in Control /\ version' \in Nat \ {0} /\ AuditTypeOK'
BY DEF TypeInv, TypeOK, Change, AuditTypeOK, Queue

LEMMA FaultType ==
  ASSUME TypeInv, Fault
  PROVE  faults' \in 0..MaxFaults
BY OperationsAssumption DEF TypeInv, TypeOK, Fault

LEMMA CommitType ==
  ASSUME TypeInv, NEW c \in Calls, Commit(c), StillAllowed(Asked(c).action)
  PROVE  TypeInv'
<1>1. call[c].pc # "idle" /\ Id(c) \in OpIds /\ Asked(c) \in Input
  BY CallType DEF Commit
<1>2. control' \in Control
  BY <1>1, ResultsType DEF Commit
<1>3. control.round \in Rounds /\ control'.memory \in MemoryStates /\ "null" \in MemoryStates
  BY <1>2, ControlNames DEF TypeInv, TypeOK, Control
<1>4. version' \in Nat \ {0} /\ version + 1 \in Nat
  BY DEF TypeInv, TypeOK, Commit
<1>5. operations' \in [OpIds -> Operation \cup {NoOperation}]
  <2> DEFINE row == [done |-> TRUE, input |-> Asked(c), first |-> version + 1,
                     round |-> control.round,
                     memory |-> IF Asked(c).action \in Publishers
                                THEN control'.memory ELSE "null"]
  <2>1. row \in Operation
    BY <1>1, <1>3, <1>4 DEF Operation
  <2>2. operations' = [operations EXCEPT ![Id(c)] = row]
    BY DEF Commit
  <2>3. QED  BY <2>1, <2>2 DEF TypeInv, TypeOK
<1>6. call' \in [Calls -> CallRow] /\ CallsAsk'
  <2>1. AfterCommit(c) \in Pcs
    BY DEF AfterCommit, Pcs
  <2>2. QED  BY <1>1, <2>1, ResultType DEF Commit
<1>7. AuditTypeOK'
  BY <1>4 DEF TypeInv, TypeOK, Commit, QueueReceipt, Queue, AuditTypeOK
<1>8. QED
  BY <1>2, <1>4, <1>5, <1>6, <1>7 DEF Commit, TypeInv, TypeOK, CallRow

(* The steps of a call other than Commit. *)
LEMMA CallStepType ==
  ASSUME TypeInv, NEW c \in Calls, CallStep(c), ~Commit(c)
  PROVE  TypeInv'
<1>1. c \in Process
  BY ProcessType
<1>2. AuditTypeOK /\ Pcs = {"idle", "flush first", "begin", "saved", "launch", "publish",
                           "accepted", "flush", "answer"}
  BY DEF TypeInv, TypeOK, Pcs
<1>3. CASE Replay(c) \/ Refuse(c) \/ AnswerNotYet(c) \/ Answer(c) \/ PublishSkips(c)
  <2>1. call' \in [Calls -> CallRow] /\ CallsAsk'
    <3>1. ReplayFrom(Asked(c).action) \in Pcs
      BY <1>2 DEF ReplayFrom
    <3>2. QED
      BY <1>2, <1>3, <3>1, ReturnType, GotoType, ResultType
      DEF Replay, Refuse, AnswerNotYet, Answer, PublishSkips
  <2>2. UNCHANGED <<auditVars, stateVars, supervisor, faults>>
    BY <1>3 DEF Replay, Refuse, AnswerNotYet, Answer, PublishSkips
  <2>3. QED
    BY <2>1, <2>2 DEF TypeInv, TypeOK, auditVars, stateVars, AuditTypeOK, CallRow
<1>4. CASE Save(c)
  <2>1. call' \in [Calls -> CallRow] /\ CallsAsk'
    BY <1>2, <1>4, GotoType DEF Save
  <2>2. Asked(c) \in Input /\ control.round \in Rounds
    BY <1>4, CallType DEF Save, TypeInv, TypeOK, Control
  <2>3. planFile' \in [Rounds -> Plans \cup {NoPlan}]
    BY <1>4, <2>2 DEF Save, TypeInv, TypeOK, Input
  <2>4. AuditTypeOK'
    BY <1>1, <1>2, <1>4 DEF Save, AuditTypeOK
  <2>5. QED
    BY <1>4, <2>1, <2>3, <2>4 DEF Save, TypeInv, TypeOK, CallRow
<1>5. CASE Abort(c) \/ CallFails(c)
  <2>1. call' \in [Calls -> CallRow] /\ CallsAsk'
    BY <1>5, ReturnType DEF Abort, CallFails
  <2>2. AuditTypeOK' /\ faults' \in 0..MaxFaults
    BY <1>2, <1>5, FaultType DEF Abort, CallFails, AuditTypeOK, auditVars
  <2>3. QED
    BY <1>5, <2>1, <2>2 DEF Abort, CallFails, TypeInv, TypeOK, stateVars, CallRow
<1>6. CASE Launch(c)
  <2>1. call' \in [Calls -> CallRow] /\ CallsAsk'
    BY <1>2, <1>6, GotoType DEF Launch
  <2>2. launches' \in [OpIds -> Nat] /\ supervisor' \in {"none", "alive", "flushing", "dead"}
    BY <1>6, CallType DEF Launch, TypeInv, TypeOK
  <2>3. QED
    BY <1>6, <2>1, <2>2 DEF Launch, TypeInv, TypeOK, auditVars, AuditTypeOK, CallRow
<1>7. CASE LaunchFails(c)
  <2>1. call' \in [Calls -> CallRow] /\ CallsAsk'
    BY <1>2, <1>7, GotoType DEF LaunchFails
  <2>2. [control EXCEPT !.task = "EXITED"] \in Control
    BY ControlColumns, ControlNames DEF TypeInv, TypeOK
  <2>3. control' \in Control /\ version' \in Nat \ {0} /\ AuditTypeOK'
    BY <1>7, <2>2, ChangeType DEF LaunchFails, TypeInv, TypeOK, auditVars, AuditTypeOK
  <2>4. QED
    BY <1>7, <2>1, <2>3, FaultType DEF LaunchFails, TypeInv, TypeOK, CallRow
<1>8. ASSUME NEW status \in MemoryStates, NEW pc \in Pcs, call[c].pc # "idle",
             Record(Id(c), status), Goto(c, pc)
      PROVE  TypeInv'
  <2>1. call' \in [Calls -> CallRow] /\ CallsAsk'
    BY <1>8, GotoType
  <2>2. [control EXCEPT !.memory = status] \in Control /\ control \in Control
    BY <1>8, ControlColumns DEF TypeInv, TypeOK
  <2>3. control' \in Control /\ version' \in Nat \ {0} /\ AuditTypeOK'
    BY <1>8, <2>2, ChangeType DEF Record
  <2>4. operations' \in [OpIds -> Operation \cup {NoOperation}]
    <3>1. \A row \in Operation : [row EXCEPT !.memory = status] \in Operation
      BY <1>8 DEF Operation
    <3>2. [NoOperation EXCEPT !.memory = status] = NoOperation
      BY DEF NoOperation
    <3>3. QED
      BY <1>8, <3>1, <3>2 DEF Record, TypeInv, TypeOK
  <2>5. QED
    BY <1>8, <2>1, <2>3, <2>4 DEF Record, TypeInv, TypeOK, CallRow
<1>9. ASSUME NEW status \in {"accepted", "rejected"}, PublishDecides(c, status)
      PROVE  TypeInv'
  BY <1>2, <1>8, <1>9, ControlNames DEF PublishDecides
<1>10. ASSUME NEW status \in {"published", "failed"}, PublishEnds(c, status)
       PROVE  TypeInv'
  BY <1>2, <1>8, <1>10, ControlNames DEF PublishEnds
<1>11. CASE FlushOn(c) \/ FlushEnds(c) \/ FlushGivesUp(c)
  <2>1. AuditTypeOK'
    BY <1>1, <1>2, <1>11, FlushType
    DEF FlushOn, FlushEnds, FlushGivesUp, FlushStep, auditVars, AuditTypeOK
  <2>2. call' \in [Calls -> CallRow] /\ CallsAsk'
    BY <1>2, <1>11, ReturnType, GotoType
    DEF FlushOn, FlushEnds, FlushGivesUp, AfterFlush, TypeInv, TypeOK, CallRow, CallsAsk
  <2>3. faults' \in 0..MaxFaults
    BY <1>11, FaultType DEF FlushOn, FlushEnds, FlushGivesUp, TypeInv, TypeOK
  <2>4. QED
    BY <1>11, <2>1, <2>2, <2>3
    DEF FlushOn, FlushEnds, FlushGivesUp, TypeInv, TypeOK, stateVars, CallRow
<1>12. QED
  BY <1>3, <1>4, <1>5, <1>6, <1>7, <1>9, <1>10, <1>11 DEF CallStep

LEMMA OtherStepType ==
  ASSUME TypeInv, ~\E c \in Calls : CallStep(c), [Next]_vars
  PROVE  TypeInv'
<1>1. AuditTypeOK /\ control \in Control
  BY DEF TypeInv, TypeOK
<1>2. ASSUME NEW c \in Calls, CallDies(c) PROVE TypeInv'
  <2>1. call' \in [Calls -> CallRow] /\ CallsAsk'
    BY <1>2, ReturnType DEF CallDies, Return
  <2>2. AuditTypeOK'
    BY <1>1, <1>2, FlushType, ProcessType DEF CallDies, FlushStep
  <2>3. QED
    BY <1>2, <2>1, <2>2, FaultType DEF CallDies, stateVars, TypeInv, TypeOK, CallRow
<1>3. ASSUME NEW c \in Calls, NEW r \in Request, Start(c, r) PROVE TypeInv'
  <2>1. call' \in [Calls -> CallRow] /\ CallsAsk'
    BY <1>3 DEF Start, TypeInv, TypeOK, CallRow, CallsAsk, Pcs
  <2>2. QED
    BY <1>3, <2>1 DEF Start, TypeInv, TypeOK, auditVars, AuditTypeOK, stateVars, CallRow
<1>4. CASE SupervisorOwns \/ EffectStarts \/ SupervisorEnds
  <2>1. /\ [control EXCEPT !.task = "RUNNING"] \in Control
        /\ [control EXCEPT !.task = "EXITED"] \in Control
        /\ [control EXCEPT !.effect = TRUE, !.state = "EXECUTING"] \in Control
    BY <1>1, ControlColumns, ControlNames
  <2>2. control' \in Control /\ version' \in Nat \ {0} /\ AuditTypeOK'
    BY <1>4, <2>1, ChangeType
    DEF SupervisorOwns, EffectStarts, SupervisorEnds, TypeInv, TypeOK, auditVars, AuditTypeOK
  <2>3. QED
    BY <1>4, <2>2
    DEF SupervisorOwns, EffectStarts, SupervisorEnds, TypeInv, TypeOK, CallsAsk
<1>5. CASE SupervisorFlushes \/ SupervisorDies
  <2>1. AuditTypeOK'
    BY <1>1, <1>5, FlushType, ProcessType DEF SupervisorFlushes, SupervisorDies, FlushStep
  <2>2. QED
    BY <1>5, <2>1, FaultType
    DEF SupervisorFlushes, SupervisorDies, stateVars, TypeInv, TypeOK, CallsAsk
<1>6. CASE UNCHANGED vars
  BY <1>6 DEF vars, auditVars, stateVars, TypeInv, TypeOK, AuditTypeOK, CallsAsk
<1>7. QED
  BY <1>2, <1>3, <1>4, <1>5, <1>6 DEF Next, SupervisorStep

-----------------------------------------------------------------------------
(* The write lock                                                          *)

(* A call between its files and its COMMIT holds the lock, and what begin  *)
(* found out still holds.                                                  *)
HoldsLock(c) ==
  /\ writer = c /\ call[c].expected = version
  /\ ~Known(c) /\ StillAllowed(Asked(c).action)

Holding == \A c \in Calls : call[c].pc = "saved" => HoldsLock(c)

(* So does a process between SELECT and COMMIT of its flush; it has read   *)
(* the whole outbox, and written it if it says so.                         *)
FlushesAt(p) ==
  IF p = Supervisor THEN supervisor = "flushing" ELSE call[p].pc \in {"flush first", "flush"}

Flushing ==
  \A p \in Process : flush[p].at # "no" =>
    /\ writer = p /\ FlushesAt(p) /\ flush[p].rows = Len(outbox)
    /\ flush[p].at = "replaced" => journal = Len(outbox)

LockInv == TypeInv /\ Holding /\ Flushing /\ JournalCoversFlushed

LEMMA InitLock == Init => LockInv
<1>1. SUFFICES ASSUME Init PROVE LockInv
  OBVIOUS
<1>2. Holding /\ Flushing
  BY <1>1 DEF Init, AuditInit, NoCall, NotFlushing, Holding, Flushing
<1>3. JournalCoversFlushed
  BY <1>1 DEF Init, AuditInit, JournalCoversFlushed
<1>4. QED  BY <1>1, <1>2, <1>3, InitType DEF LockInv

(* Who holds the lock excludes the others. *)
LEMMA LockExcludes ==
  ASSUME LockInv
  PROVE  /\ LockFree => /\ \A c \in Calls : call[c].pc # "saved"
                        /\ \A p \in Process : flush[p].at = "no"
         /\ \A c \in Calls : call[c].pc = "saved" =>
              /\ writer = c
              /\ \A d \in Calls \ {c} : call[d].pc # "saved"
              /\ \A p \in Process : flush[p].at = "no"
         /\ \A p \in Process : flush[p].at # "no" =>
              /\ writer = p
              /\ \A c \in Calls : call[c].pc # "saved"
              /\ \A q \in Process \ {p} : flush[q].at = "no"
BY OperationsAssumption DEF LockInv, LockFree, Holding, HoldsLock, Flushing, FlushesAt

(* A step that leaves every call in its transaction as it is. *)
LEMMA HoldingKept ==
  ASSUME Holding,
         \A d \in Calls : call'[d].pc = "saved" =>
           /\ call'[d] = call[d] /\ (writer = d => writer' = d)
           /\ UNCHANGED <<version, control, operations>>
  PROVE  Holding'
<1>1. SUFFICES ASSUME NEW d \in Calls, call'[d].pc = "saved" PROVE HoldsLock(d)'
  BY DEF Holding
<1>2. HoldsLock(d) /\ UNCHANGED <<call[d], writer, version, control, operations>>
  BY <1>1 DEF Holding, HoldsLock
<1>3. UNCHANGED <<Known(d), Asked(d)>>
  BY <1>2 DEF Known, Id, Asked
<1>4. StillAllowed(Asked(d).action)'
  BY <1>2, <1>3 DEF HoldsLock, StillAllowed, RequireState
<1>5. QED
  BY <1>2, <1>3, <1>4 DEF HoldsLock

(* A step that has nothing to do with a flush. *)
LEMMA FlushingKept ==
  ASSUME Flushing, JournalCoversFlushed, UNCHANGED <<flushed, journal, flush>>,
         \A p \in Process : flush[p].at # "no" =>
           /\ writer = p => writer' = p
           /\ FlushesAt(p) => FlushesAt(p)'
           /\ outbox' = outbox,
         outbox' = outbox \/ Len(outbox') = Len(outbox) + 1,
         Len(outbox) \in Nat, flushed \in Nat, journal \in Nat
  PROVE  Flushing' /\ JournalCoversFlushed'
<1>1. Flushing'
  BY DEF Flushing
<1>2. JournalCoversFlushed'
  BY DEF JournalCoversFlushed
<1>3. QED  BY <1>1, <1>2

(* The steps of a flush. *)
LEMMA FlushKeepsLock ==
  ASSUME LockInv, NEW p \in Process, FlushStep(p), UNCHANGED <<version, control, operations>>,
         \A d \in Calls : d # p => call'[d] = call[d],
         p \in Calls => call'[p].pc # "saved",
         p # Supervisor => supervisor' = supervisor,
         flush'[p].at # "no" => FlushesAt(p)'
  PROVE  Holding' /\ Flushing' /\ JournalCoversFlushed'
<1>1. /\ flush \in [Process -> [at : FlushSteps, rows : Nat]] /\ Len(outbox) \in Nat
      /\ flushed \in Nat /\ journal \in Nat
  BY DEF LockInv, TypeInv, TypeOK, AuditTypeOK
<1>2. \A d \in Calls : d # p /\ writer = d => writer' = d \/ call[d].pc # "saved"
  BY LockExcludes, OperationsAssumption
  DEF FlushStep, FlushSelect, FlushReplace, FlushAcknowledge, FlushFails, Vanish, LockFree
<1>3. Holding'
  BY <1>2, HoldingKept DEF LockInv
<1>4. JournalCoversFlushed'
  BY <1>1, LockExcludes
  DEF LockInv, Flushing, JournalCoversFlushed, FlushStep, FlushSelect, FlushReplace,
      FlushAcknowledge, FlushFails, Vanish
<1>5. Flushing'
  <2>1. SUFFICES ASSUME NEW q \in Process, flush'[q].at # "no"
                 PROVE  /\ writer' = q /\ FlushesAt(q)' /\ flush'[q].rows = Len(outbox)
                        /\ flush'[q].at = "replaced" => journal' = Len(outbox)
    BY DEF Flushing, FlushStep, FlushSelect, FlushReplace, FlushAcknowledge, FlushFails, Vanish
  <2>2. CASE q = p
    BY <1>1, <2>1, <2>2, LockExcludes
    DEF LockInv, Flushing, FlushStep, FlushSelect, FlushReplace, FlushAcknowledge, FlushFails,
        Vanish, NotFlushing
  <2>3. CASE q # p
    <3>1. flush'[q] = flush[q] /\ flush[q].at # "no"
      BY <1>1, <2>1, <2>3
      DEF FlushStep, FlushSelect, FlushReplace, FlushAcknowledge, FlushFails, Vanish
    <3>2. writer = q /\ Vanish(p)
      BY <2>3, <3>1, LockExcludes
      DEF FlushStep, FlushSelect, FlushReplace, FlushAcknowledge, FlushFails
    <3>3. writer' = q /\ UNCHANGED <<journal, flush[q]>>
      BY <2>3, <3>1, <3>2 DEF Vanish
    <3>4. FlushesAt(q)'
      BY <2>3, <3>1, OperationsAssumption DEF LockInv, Flushing, FlushesAt
    <3>5. QED  BY <3>1, <3>3, <3>4 DEF LockInv, Flushing
  <2>4. QED  BY <2>2, <2>3
<1>6. QED  BY <1>3, <1>4, <1>5

(* A step that does not touch the lock and leaves every call in its        *)
(* transaction, or in its flush, as it is.                                 *)
LEMMA QuietKeepsLock ==
  ASSUME LockInv, UNCHANGED auditVars, UNCHANGED <<version, control, operations>>,
         \A d \in Calls : /\ call'[d].pc = "saved" => call'[d] = call[d]
                          /\ call[d].pc \in {"flush first", "flush"} =>
                               call'[d] = call[d] \/ flush[d].at = "no",
         supervisor = "flushing" => supervisor' = "flushing"
  PROVE  Holding' /\ Flushing' /\ JournalCoversFlushed'
<1>1. Holding'
  BY HoldingKept DEF LockInv, auditVars
<1>2. \A p \in Process : flush[p].at # "no" => (FlushesAt(p) => FlushesAt(p)')
  BY OperationsAssumption DEF FlushesAt
<1>3. Flushing' /\ JournalCoversFlushed'
  BY <1>2 DEF LockInv, auditVars, Flushing, JournalCoversFlushed
<1>4. QED  BY <1>1, <1>3

(* A transaction outside the protocol finds the lock free. *)
LEMMA ChangeKeepsLock ==
  ASSUME LockInv, NEW new, Change(new),
         \A d \in Calls : call'[d].pc = "saved" => call[d].pc = "saved"
  PROVE  Holding' /\ Flushing' /\ JournalCoversFlushed'
<1>1. /\ \A c \in Calls : call[c].pc # "saved"
      /\ \A p \in Process : flush[p].at = "no"
  BY LockExcludes DEF Change
<1>2. Holding' /\ Flushing'
  BY <1>1 DEF Change, Holding, Flushing
<1>3. JournalCoversFlushed'
  BY DEF Change, Queue, LockInv, TypeInv, TypeOK, AuditTypeOK, JournalCoversFlushed
<1>4. QED  BY <1>2, <1>3

LEMMA SaveKeepsLock ==
  ASSUME LockInv, NEW c \in Calls, Save(c)
  PROVE  Holding' /\ Flushing' /\ JournalCoversFlushed'
<1>1. /\ \A d \in Calls : call[d].pc # "saved"
      /\ \A p \in Process : flush[p].at = "no"
  BY LockExcludes DEF Save
<1>2. \A d \in Calls : d # c => call'[d] = call[d]
  BY DEF Save, Goto, LockInv, TypeInv, TypeOK
<1>3. /\ call'[c].req = call[c].req /\ call'[c].expected = call[c].expected
  BY DEF Save, Goto, LockInv, TypeInv, TypeOK, CallRow
<1>4. /\ ~Known(c) /\ call[c].expected = version /\ StillAllowed(Asked(c).action)
      /\ UNCHANGED <<version, control, operations, Asked(c), Id(c)>>
  <2>1. Asked(c).action \in Actions
    BY CallType DEF Save, LockInv, Input
  <2>2. QED
    BY <1>3, <2>1, AllowedIsStill DEF Save, VersionMatches, Asked, Id
<1>5. HoldsLock(c)'
  BY <1>3, <1>4 DEF Save, HoldsLock, Known, StillAllowed, RequireState
<1>6. Holding'
  BY <1>1, <1>2, <1>5 DEF Holding
<1>7. Flushing' /\ JournalCoversFlushed'
  BY <1>1 DEF Save, LockInv, Flushing, JournalCoversFlushed
<1>8. QED  BY <1>6, <1>7

LEMMA CommitKeepsLock ==
  ASSUME LockInv, NEW c \in Calls, Commit(c)
  PROVE  Holding' /\ Flushing' /\ JournalCoversFlushed'
<1>1. /\ \A d \in Calls \ {c} : call[d].pc # "saved"
      /\ \A p \in Process : flush[p].at = "no"
  BY LockExcludes DEF Commit
<1>2. /\ \A d \in Calls : d # c => call'[d] = call[d]
      /\ call'[c].pc # "saved"
  BY DEF Commit, GotoWithResult, AfterCommit, LockInv, TypeInv, TypeOK, CallRow
<1>3. Holding' /\ Flushing'
  BY <1>1, <1>2 DEF Commit, Holding, Flushing
<1>4. JournalCoversFlushed'
  BY DEF Commit, QueueReceipt, Queue, LockInv, TypeInv, TypeOK, AuditTypeOK,
         JournalCoversFlushed
<1>5. QED  BY <1>3, <1>4

LEMMA AbortKeepsLock ==
  ASSUME LockInv, NEW c \in Calls, Abort(c)
  PROVE  Holding' /\ Flushing' /\ JournalCoversFlushed'
<1>1. /\ \A d \in Calls \ {c} : call[d].pc # "saved"
      /\ \A p \in Process : flush[p].at = "no"
  BY LockExcludes DEF Abort
<1>2. \A d \in Calls : call'[d].pc # "saved"
  BY <1>1 DEF Abort, Return, NoCall, LockInv, TypeInv, TypeOK
<1>3. QED
  BY <1>1, <1>2 DEF Abort, LockInv, Holding, Flushing, JournalCoversFlushed

(* What an action writes of the local state of its call. *)
LEMMA CallMoves ==
  ASSUME TypeInv, NEW c \in Calls, NEW pc,
         Goto(c, pc) \/ GotoWithResult(c, pc) \/ (Return(c) /\ pc = "idle")
  PROVE  /\ call'[c].pc = pc
         /\ \A d \in Calls : d # c => call'[d] = call[d]
<1>1. call \in [Calls -> CallRow]
  BY DEF TypeInv, TypeOK, CallRow
<1>2. CASE Goto(c, pc)
  BY <1>1, <1>2 DEF Goto, CallRow
<1>3. CASE GotoWithResult(c, pc)
  BY <1>1, <1>3 DEF GotoWithResult, CallRow
<1>4. CASE Return(c) /\ pc = "idle"
  BY <1>1, <1>4 DEF Return, NoCall
<1>5. QED  BY <1>2, <1>3, <1>4

LEMMA LockStep == LockInv /\ [Next]_vars => LockInv'
<1>1. SUFFICES ASSUME LockInv, [Next]_vars PROVE LockInv'
  OBVIOUS
<1>2. TypeInv /\ call \in [Calls -> CallRow] /\ Calls \subseteq Process
  BY <1>1, ProcessType DEF LockInv, TypeInv, TypeOK, CallRow
<1>3. TypeInv'
  BY <1>1, <1>2, CallStepType, CommitType, OtherStepType DEF LockInv, Holding, HoldsLock, Commit
<1>4. ASSUME NEW c \in Calls, CallStep(c) PROVE Holding' /\ Flushing' /\ JournalCoversFlushed'
  <2>1. CASE \/ Replay(c) \/ Refuse(c) \/ AnswerNotYet(c) \/ Answer(c) \/ PublishSkips(c)
             \/ CallFails(c)
    <3>1. /\ UNCHANGED <<auditVars, version, control, operations, supervisor>>
          /\ call[c].pc \in {"begin", "answer", "publish", "accepted"}
      BY <2>1
      DEF Replay, Refuse, AnswerNotYet, Answer, PublishSkips, CallFails, stateVars
    <3>2. call'[c].pc # "saved" /\ \A d \in Calls : d # c => call'[d] = call[d]
      <4>1. ReplayFrom(Asked(c).action) # "saved"
        BY DEF ReplayFrom
      <4>2. \E pc : /\ pc # "saved"
                    /\ Goto(c, pc) \/ GotoWithResult(c, pc) \/ (Return(c) /\ pc = "idle")
        BY <2>1, <4>1 DEF Replay, Refuse, AnswerNotYet, Answer, PublishSkips, CallFails
      <4>3. QED  BY <1>2, <4>2, CallMoves
    <3>3. QED  BY <1>1, <3>1, <3>2, QuietKeepsLock
  <2>2. CASE Save(c)
    BY <1>1, <2>2, SaveKeepsLock
  <2>3. CASE Commit(c)
    BY <1>1, <2>3, CommitKeepsLock
  <2>4. CASE Abort(c)
    BY <1>1, <2>4, AbortKeepsLock
  <2>5. CASE Launch(c)
    <3>1. /\ UNCHANGED <<auditVars, version, control, operations>> /\ supervisor # "flushing"
          /\ call[c].pc = "launch"
      BY <2>5 DEF Launch
    <3>2. call'[c].pc # "saved" /\ \A d \in Calls : d # c => call'[d] = call[d]
      BY <1>2, <2>5 DEF Launch, Goto, CallRow
    <3>3. QED  BY <1>1, <3>1, <3>2, QuietKeepsLock
  <2>6. CASE LaunchFails(c)
    <3>1. /\ call'[c].pc # "saved" /\ \A d \in Calls : d # c => call'[d] = call[d]
          /\ call[c].pc = "launch"
      BY <1>2, <2>6 DEF LaunchFails, Goto, CallRow
    <3>2. CASE control.owner = Id(c) /\ control.task \in LiveTask
      BY <1>1, <2>6, <3>1, <3>2, ChangeKeepsLock DEF LaunchFails
    <3>3. CASE ~(control.owner = Id(c) /\ control.task \in LiveTask)
      BY <1>1, <2>6, <3>1, <3>3, QuietKeepsLock DEF LaunchFails
    <3>4. QED  BY <3>2, <3>3
  <2>7. ASSUME NEW status, NEW pc, pc # "saved", Record(Id(c), status), Goto(c, pc)
        PROVE  Holding' /\ Flushing' /\ JournalCoversFlushed'
    <3>1. \A d \in Calls : call'[d].pc = "saved" => call[d].pc = "saved"
      BY <1>2, <2>7 DEF Goto, CallRow
    <3>2. QED  BY <1>1, <2>7, <3>1, ChangeKeepsLock DEF Record
  <2>8. CASE \/ \E status \in {"accepted", "rejected"} : PublishDecides(c, status)
             \/ \E status \in {"published", "failed"} : PublishEnds(c, status)
    BY <2>7, <2>8 DEF PublishDecides, PublishEnds
  <2>9. CASE FlushOn(c) \/ FlushEnds(c)
    <3>1. /\ FlushStep(c) /\ UNCHANGED <<version, control, operations, supervisor>>
          /\ c # Supervisor
      BY <2>9, OperationsAssumption DEF FlushOn, FlushEnds, FlushStep, stateVars
    <3>2. /\ call'[c].pc # "saved" /\ \A d \in Calls : d # c => call'[d] = call[d]
      <4>1. CASE FlushOn(c)
        BY <4>1 DEF FlushOn
      <4>2. CASE FlushEnds(c)
        <5>1. PICK pc \in {"idle", "begin"} : Goto(c, pc) \/ (Return(c) /\ pc = "idle")
          BY <4>2 DEF FlushEnds, AfterFlush
        <5>2. QED  BY <1>2, <5>1, CallMoves
      <4>3. QED  BY <2>9, <4>1, <4>2
    <3>3. flush'[c].at # "no" => FlushesAt(c)'
      <4>1. CASE FlushOn(c)
        BY <3>1, <4>1 DEF FlushOn, FlushesAt
      <4>2. CASE FlushEnds(c)
        <5>1. flush' = [flush EXCEPT ![c] = NotFlushing] /\ c \in DOMAIN flush
          BY <1>2, <4>2 DEF FlushEnds, FlushAcknowledge, FlushFails, TypeInv, TypeOK, AuditTypeOK
        <5>2. QED  BY <5>1 DEF NotFlushing
      <4>3. QED  BY <2>9, <4>1, <4>2
    <3>4. QED
      BY <1>1, <1>2, <3>1, <3>2, <3>3, FlushKeepsLock, OperationsAssumption
  <2>10. CASE FlushGivesUp(c)
    <3>1. /\ UNCHANGED <<auditVars, version, control, operations, supervisor>>
          /\ flush[c].at = "no"
      BY <2>10 DEF FlushGivesUp, stateVars
    <3>2. call'[c].pc # "saved" /\ \A d \in Calls : d # c => call'[d] = call[d]
      <4>1. PICK pc \in {"idle", "begin"} : Goto(c, pc) \/ (Return(c) /\ pc = "idle")
        BY <2>10 DEF FlushGivesUp, AfterFlush
      <4>2. QED  BY <1>2, <4>1, CallMoves
    <3>3. QED  BY <1>1, <3>1, <3>2, QuietKeepsLock
  <2>11. QED
    BY <1>4, <2>1, <2>2, <2>3, <2>4, <2>5, <2>6, <2>8, <2>9, <2>10 DEF CallStep
<1>5. ASSUME NEW c \in Calls, CallDies(c)
      PROVE  Holding' /\ Flushing' /\ JournalCoversFlushed'
  <2>1. /\ FlushStep(c) /\ UNCHANGED <<version, control, operations, supervisor>>
        /\ flush'[c].at = "no" /\ c # Supervisor
    BY <1>2, <1>5, OperationsAssumption
    DEF CallDies, FlushStep, Vanish, NotFlushing, stateVars, TypeInv, TypeOK, AuditTypeOK
  <2>2. call'[c].pc # "saved" /\ \A d \in Calls : d # c => call'[d] = call[d]
    BY <1>2, <1>5 DEF CallDies, NoCall
  <2>3. QED  BY <1>1, <1>2, <2>1, <2>2, FlushKeepsLock
<1>6. ASSUME NEW c \in Calls, NEW r \in Request, Start(c, r)
      PROVE  Holding' /\ Flushing' /\ JournalCoversFlushed'
  <2>1. /\ UNCHANGED <<auditVars, version, control, operations, supervisor>>
        /\ call[c].pc = "idle"
    BY <1>6 DEF Start, stateVars
  <2>2. call'[c].pc # "saved" /\ \A d \in Calls : d # c => call'[d] = call[d]
    BY <1>2, <1>6 DEF Start
  <2>3. QED  BY <1>1, <2>1, <2>2, QuietKeepsLock
<1>7. ASSUME SupervisorOwns \/ EffectStarts PROVE Holding' /\ Flushing' /\ JournalCoversFlushed'
  <2>1. PICK new : Change(new)
    BY <1>7 DEF SupervisorOwns, EffectStarts
  <2>2. call' = call
    BY <1>7 DEF SupervisorOwns, EffectStarts
  <2>3. QED  BY <1>1, <2>1, <2>2, ChangeKeepsLock
<1>8. ASSUME SupervisorEnds PROVE Holding' /\ Flushing' /\ JournalCoversFlushed'
  <2>1. call' = call /\ supervisor # "flushing" /\ operations' = operations
    BY <1>8 DEF SupervisorEnds
  <2>2. CASE control.task \in LiveTask
    BY <1>1, <1>8, <2>1, <2>2, ChangeKeepsLock DEF SupervisorEnds
  <2>3. CASE control.task \notin LiveTask
    BY <1>1, <1>8, <2>1, <2>3, QuietKeepsLock DEF SupervisorEnds
  <2>4. QED  BY <2>2, <2>3
<1>9. ASSUME SupervisorFlushes \/ SupervisorDies PROVE Holding' /\ Flushing' /\ JournalCoversFlushed'
  <2>1. /\ FlushStep(Supervisor) /\ UNCHANGED <<version, control, operations, call>>
        /\ Supervisor \in Process /\ Supervisor \notin Calls
    BY <1>9, OperationsAssumption DEF SupervisorFlushes, SupervisorDies, FlushStep, stateVars
  <2>2. flush'[Supervisor].at # "no" => FlushesAt(Supervisor)'
    BY <1>2, <1>9, <2>1
    DEF SupervisorFlushes, SupervisorDies, FlushAcknowledge, FlushFails, Vanish, NotFlushing,
        FlushesAt, TypeInv, TypeOK, AuditTypeOK
  <2>3. \A d \in Calls : d # Supervisor => call'[d] = call[d]
    BY <2>1
  <2>4. QED  BY <1>1, <2>1, <2>2, <2>3, FlushKeepsLock
<1>10. ASSUME UNCHANGED vars PROVE Holding' /\ Flushing' /\ JournalCoversFlushed'
  <2>1. UNCHANGED <<auditVars, version, control, operations, call, supervisor>>
    BY <1>10 DEF vars, stateVars
  <2>2. QED  BY <1>1, <2>1, QuietKeepsLock
<1>11. Holding' /\ Flushing' /\ JournalCoversFlushed'
  BY <1>1, <1>4, <1>5, <1>6, <1>7, <1>8, <1>9, <1>10 DEF Next, SupervisorStep
<1>12. QED  BY <1>3, <1>11 DEF LockInv

(* The columns, the outbox, the journal and the local states of the calls  *)
(* keep their types.                                                       *)
THEOREM OperationsTypeCorrect == Spec => []TypeOK
<1>1. LockInv => TypeOK
  BY DEF LockInv, TypeInv
<1>2. QED  BY <1>1, InitLock, LockStep, PTL DEF Spec

(* Whatever dies, fails or races between os.replace and the UPDATE, what   *)
(* is marked as flushed is in the journal (flush_audit).                   *)
THEOREM FlushedIsWritten == Spec => []JournalCoversFlushed
<1>1. LockInv => JournalCoversFlushed
  BY DEF LockInv
<1>2. QED  BY <1>1, InitLock, LockStep, PTL DEF Spec

(* Only two steps of a flush write the file or the marks. *)
LEMMA JournalSteps ==
  ASSUME [Next]_vars
  PROVE  UNCHANGED <<journal, flushed>>
           \/ \E p \in Process : FlushReplace(p) \/ FlushAcknowledge(p)
<1>1. ASSUME NEW c \in Calls, CallStep(c)
      PROVE  UNCHANGED <<journal, flushed>> \/ FlushReplace(c) \/ FlushAcknowledge(c)
  <2>1. CASE \/ Replay(c) \/ Refuse(c) \/ AnswerNotYet(c) \/ CallFails(c) \/ PublishSkips(c)
             \/ Answer(c) \/ Launch(c) \/ FlushGivesUp(c)
    BY <2>1 DEF Replay, Refuse, AnswerNotYet, CallFails, PublishSkips, Answer, Launch,
                FlushGivesUp, auditVars
  <2>2. CASE Save(c) \/ Commit(c) \/ Abort(c)
    BY <2>2 DEF Save, Commit, Abort
  <2>3. CASE LaunchFails(c)
    BY <2>3 DEF LaunchFails, Change, auditVars
  <2>4. CASE \/ \E status \in {"accepted", "rejected"} : PublishDecides(c, status)
             \/ \E status \in {"published", "failed"} : PublishEnds(c, status)
    BY <2>4 DEF PublishDecides, PublishEnds, Record, Change
  <2>5. CASE FlushOn(c) \/ FlushEnds(c)
    BY <2>5 DEF FlushOn, FlushEnds, FlushSelect, FlushFails
  <2>6. QED  BY <1>1, <2>1, <2>2, <2>3, <2>4, <2>5 DEF CallStep
<1>2. CASE SupervisorStep
  <2>1. CASE SupervisorOwns \/ EffectStarts \/ SupervisorEnds
    BY <2>1 DEF SupervisorOwns, EffectStarts, SupervisorEnds, Change, auditVars
  <2>2. CASE SupervisorFlushes
    BY <2>2, ProcessType DEF SupervisorFlushes, FlushSelect, FlushFails
  <2>3. QED  BY <1>2, <2>1, <2>2 DEF SupervisorStep
<1>3. ASSUME NEW c \in Calls, NEW r \in Request, Start(c, r) PROVE UNCHANGED <<journal, flushed>>
  BY <1>3 DEF Start, auditVars
<1>4. ASSUME NEW c \in Calls, CallDies(c) PROVE UNCHANGED <<journal, flushed>>
  BY <1>4 DEF CallDies, Vanish
<1>5. CASE SupervisorDies \/ UNCHANGED vars
  BY <1>5 DEF SupervisorDies, Vanish, vars, auditVars
<1>6. QED  BY <1>1, <1>2, <1>3, <1>4, <1>5, ProcessType DEF Next

(* The journal never loses an event again, although every flush rewrites   *)
(* the file: a flush that holds the lock has read the whole outbox         *)
(* (flush_audit).                                                          *)
THEOREM JournalIsAppendOnly == Spec => JournalOnlyGrows
<1>1. ASSUME LockInv, [Next]_vars PROVE [journal' >= journal /\ flushed' >= flushed]_auditVars
  <2>1. /\ journal \in Nat /\ flushed \in Nat /\ Len(outbox) \in Nat
        /\ flushed <= journal /\ journal <= Len(outbox)
    BY <1>1 DEF LockInv, TypeInv, TypeOK, AuditTypeOK, JournalCoversFlushed
  <2>2. ASSUME NEW p \in Process, FlushReplace(p) PROVE journal' >= journal /\ flushed' >= flushed
    <3>1. journal' = Len(outbox) /\ flushed' = flushed
      BY <1>1, <2>2 DEF FlushReplace, LockInv, Flushing
    <3>2. QED  BY <2>1, <3>1
  <2>3. ASSUME NEW p \in Process, FlushAcknowledge(p)
        PROVE  journal' >= journal /\ flushed' >= flushed
    <3>1. journal' = journal /\ flushed' = Len(outbox)
      BY <2>3 DEF FlushAcknowledge
    <3>2. QED  BY <2>1, <3>1
  <2>4. CASE UNCHANGED <<journal, flushed>>
    BY <2>1, <2>4
  <2>5. QED  BY <1>1, <2>2, <2>3, <2>4, JournalSteps
<1>2. QED  BY <1>1, InitLock, LockStep, PTL DEF Spec, JournalOnlyGrows

-----------------------------------------------------------------------------
(* The outbox                                                              *)

LEMMA NextNumber ==
  ASSUME NEW n \in Nat, NEW s, s = [v \in 1..n |-> v]
  PROVE  Append(s, n + 1) = [v \in 1..(n + 1) |-> v]
<1>1. s \in Seq(Nat) /\ Len(s) = n
  <2>1. s \in [1..n -> Nat]
    OBVIOUS
  <2>2. QED  BY <2>1
<1>2. QED  BY <1>1

(* A version and its event come together. *)
VersionStep ==
  \/ UNCHANGED <<version, outbox>>
  \/ version' = version + 1 /\ outbox' = Append(outbox, version + 1)

LEMMA EveryStepIsVersionStep == [Next]_vars => VersionStep
<1>1. SUFFICES ASSUME [Next]_vars PROVE VersionStep
  OBVIOUS
<1>2. \A new : Change(new) => VersionStep
  BY DEF Change, Queue, VersionStep
<1>3. ASSUME NEW c \in Calls, CallStep(c) PROVE VersionStep
  <2>1. CASE \/ Replay(c) \/ Refuse(c) \/ AnswerNotYet(c) \/ Save(c) \/ Abort(c) \/ CallFails(c)
             \/ Launch(c) \/ PublishSkips(c) \/ FlushOn(c) \/ FlushEnds(c) \/ FlushGivesUp(c)
             \/ Answer(c)
    BY <2>1
    DEF Replay, Refuse, AnswerNotYet, Save, Abort, CallFails, Launch, PublishSkips, FlushOn,
        FlushEnds, FlushGivesUp, Answer, FlushSelect, FlushReplace, FlushAcknowledge, FlushFails,
        auditVars, stateVars, VersionStep
  <2>2. CASE Commit(c)
    BY <2>2 DEF Commit, QueueReceipt, Queue, VersionStep
  <2>3. CASE LaunchFails(c)
    BY <1>2, <2>3 DEF LaunchFails, auditVars, VersionStep
  <2>4. CASE \/ \E status \in {"accepted", "rejected"} : PublishDecides(c, status)
             \/ \E status \in {"published", "failed"} : PublishEnds(c, status)
    BY <1>2, <2>4 DEF PublishDecides, PublishEnds, Record
  <2>5. QED  BY <1>3, <2>1, <2>2, <2>3, <2>4 DEF CallStep
<1>4. ASSUME NEW c \in Calls, CallDies(c) \/ \E r \in Request : Start(c, r) PROVE VersionStep
  BY <1>4 DEF CallDies, Vanish, Start, auditVars, stateVars, VersionStep
<1>5. CASE SupervisorOwns \/ EffectStarts \/ SupervisorEnds
  BY <1>2, <1>5 DEF SupervisorOwns, EffectStarts, SupervisorEnds, auditVars, VersionStep
<1>6. CASE SupervisorFlushes \/ SupervisorDies
  BY <1>6
  DEF SupervisorFlushes, SupervisorDies, FlushSelect, FlushReplace, FlushAcknowledge, FlushFails,
      Vanish, stateVars, VersionStep
<1>7. CASE UNCHANGED vars
  BY <1>7 DEF vars, auditVars, stateVars, VersionStep
<1>8. QED
  BY <1>1, <1>3, <1>4, <1>5, <1>6, <1>7 DEF Next, SupervisorStep

(* No version without its event, none twice and none out of order, by      *)
(* whichever process (_queue_audit, in the transaction of the change).     *)
THEOREM OutboxIsComplete == Spec => []EveryVersionIsAudited
<1> DEFINE Inv == EveryVersionIsAudited /\ version \in Nat
<1>1. Init => Inv
  <2>1. <<1>> = [v \in 1..1 |-> v]
    OBVIOUS
  <2>2. QED  BY <2>1 DEF Init, AuditInit, EveryVersionIsAudited
<1>2. Inv /\ [Next]_vars => Inv'
  <2>1. SUFFICES ASSUME Inv, [Next]_vars PROVE Inv'
    OBVIOUS
  <2>2. VersionStep
    BY <2>1, EveryStepIsVersionStep
  <2>3. CASE UNCHANGED <<version, outbox>>
    BY <2>1, <2>3 DEF EveryVersionIsAudited
  <2>4. CASE version' = version + 1 /\ outbox' = Append(outbox, version + 1)
    BY <2>1, <2>4, NextNumber DEF EveryVersionIsAudited
  <2>5. QED  BY <2>2, <2>3, <2>4 DEF VersionStep
<1>3. QED  BY <1>1, <1>2, PTL DEF Spec

-----------------------------------------------------------------------------
(* At most one launch                                                      *)

(* A call that is about to launch belongs to a committed execute that was  *)
(* not launched yet, and no other call is about to launch for its id.      *)
MayLaunch(c) ==
  /\ Known(c) /\ operations[Id(c)].input.action = "execute" /\ launches[Id(c)] = 0
  /\ \A d \in Calls : call[d].pc = "launch" /\ Id(d) = Id(c) => d = c

LaunchInv ==
  /\ LaunchedOnce
  /\ \A c \in Calls : call[c].pc = "launch" => MayLaunch(c)
  /\ \A c \in Calls : call[c].pc = "publish" => Known(c)

(* Rows of the operations table are never deleted, nor is their input ever *)
(* changed.                                                                *)
RowsKept ==
  \A o \in OpIds : operations[o].done =>
    operations'[o].done /\ operations'[o].input = operations[o].input

(* What every step but Commit and Launch leaves alone. *)
NoLaunch ==
  /\ launches' = launches /\ RowsKept
  /\ \A d \in Calls : call'[d].pc = "launch" => call'[d] = call[d]
  /\ \A d \in Calls : call'[d].pc = "publish" =>
       call'[d] = call[d] \/ (Known(d) /\ call'[d].req = call[d].req)

LEMMA RecordKeepsRows ==
  ASSUME TypeInv, NEW o, NEW status, Record(o, status)
  PROVE  RowsKept
<1>1. SUFFICES ASSUME NEW u \in OpIds, operations[u].done
               PROVE  operations'[u].done /\ operations'[u].input = operations[u].input
  BY DEF RowsKept
<1>2. operations' = [operations EXCEPT ![o] = [@ EXCEPT !.memory = status]]
  BY DEF Record
<1>3. operations[u] \in Operation
  BY <1>1 DEF TypeInv, TypeOK, NoOperation
<1>4. QED
  BY <1>1, <1>2, <1>3 DEF TypeInv, TypeOK, Operation

LEMMA LaunchSteps ==
  ASSUME LockInv, [Next]_vars
  PROVE  NoLaunch \/ \E c \in Calls : Commit(c) \/ Launch(c)
<1>1. TypeInv
  BY DEF LockInv
<1>2. ASSUME NEW c \in Calls, NEW pc, pc \notin {"launch", "publish"}, launches' = launches, RowsKept,
             Goto(c, pc) \/ GotoWithResult(c, pc) \/ (Return(c) /\ pc = "idle")
      PROVE  NoLaunch
  BY <1>1, <1>2, CallMoves DEF NoLaunch
<1>3. operations' = operations => RowsKept
  BY DEF RowsKept
<1>4. ASSUME NEW c \in Calls, CallStep(c), ~Commit(c), ~Launch(c) PROVE NoLaunch
  <2>0. CASE Replay(c)
    <3>1. ReplayFrom(Asked(c).action) # "launch"
      BY DEF ReplayFrom
    <3>2. call \in [Calls -> CallRow]
      BY <1>1 DEF TypeInv, TypeOK, CallRow
    <3>3. /\ call'[c].pc # "launch" /\ Known(c) /\ call'[c].req = call[c].req
          /\ \A d \in Calls : d # c => call'[d] = call[d]
      BY <2>0, <3>1, <3>2 DEF Replay, GotoWithResult, CallRow
    <3>4. launches' = launches /\ operations' = operations
      BY <2>0 DEF Replay, stateVars
    <3>5. QED  BY <1>3, <3>3, <3>4 DEF NoLaunch
  <2>1. CASE \/ Refuse(c) \/ AnswerNotYet(c) \/ Answer(c) \/ PublishSkips(c)
             \/ CallFails(c) \/ Save(c) \/ Abort(c) \/ LaunchFails(c)
    <3>2. PICK pc : /\ pc \notin {"launch", "publish"}
                    /\ Goto(c, pc) \/ (Return(c) /\ pc = "idle")
      BY <2>1
      DEF Refuse, AnswerNotYet, Answer, PublishSkips, CallFails, Save, Abort, LaunchFails
    <3>3. launches' = launches /\ operations' = operations
      BY <2>1
      DEF Refuse, AnswerNotYet, Answer, PublishSkips, CallFails, Save, Abort, LaunchFails,
          stateVars
    <3>4. QED  BY <1>2, <1>3, <3>2, <3>3
  <2>2. CASE \/ \E status \in {"accepted", "rejected"} : PublishDecides(c, status)
             \/ \E status \in {"published", "failed"} : PublishEnds(c, status)
    <3>1. PICK status, pc : pc \notin {"launch", "publish"} /\ Goto(c, pc) /\ Record(Id(c), status)
      BY <2>2 DEF PublishDecides, PublishEnds
    <3>2. launches' = launches /\ RowsKept
      BY <1>1, <3>1, RecordKeepsRows DEF Record
    <3>3. QED  BY <1>2, <3>1, <3>2
  <2>3. CASE FlushOn(c) \/ FlushEnds(c) \/ FlushGivesUp(c)
    <3>1. launches' = launches /\ operations' = operations
      BY <2>3 DEF FlushOn, FlushEnds, FlushGivesUp, stateVars
    <3>2. CASE FlushOn(c)
      BY <1>3, <3>1, <3>2 DEF FlushOn, NoLaunch
    <3>3. CASE FlushEnds(c) \/ FlushGivesUp(c)
      <4>1. PICK pc : pc \notin {"launch", "publish"} /\ (Goto(c, pc) \/ (Return(c) /\ pc = "idle"))
        BY <3>3 DEF FlushEnds, FlushGivesUp, AfterFlush
      <4>2. QED  BY <1>2, <1>3, <3>1, <4>1
    <3>4. QED  BY <2>3, <3>2, <3>3
  <2>4. QED  BY <1>4, <2>0, <2>1, <2>2, <2>3 DEF CallStep
<1>5. ASSUME NEW c \in Calls, CallDies(c) \/ \E r \in Request : Start(c, r) PROVE NoLaunch
  <2>1. launches' = launches /\ operations' = operations
    BY <1>5 DEF CallDies, Start, stateVars
  <2>2. \A d \in Calls : call'[d].pc \in {"launch", "publish"} => call'[d] = call[d]
    <3>1. call \in [Calls -> CallRow]
      BY <1>1 DEF TypeInv, TypeOK, CallRow
    <3>2. CASE CallDies(c)
      BY <3>1, <3>2 DEF CallDies, NoCall
    <3>3. ASSUME NEW r \in Request, Start(c, r)
          PROVE  \A d \in Calls : call'[d].pc \in {"launch", "publish"} => call'[d] = call[d]
      BY <3>1, <3>3 DEF Start
    <3>4. QED  BY <1>5, <3>2, <3>3
  <2>3. QED  BY <1>3, <2>1, <2>2 DEF NoLaunch
<1>6. CASE SupervisorStep \/ SupervisorDies \/ UNCHANGED vars
  <2>1. UNCHANGED <<launches, operations, call>>
    BY <1>6
    DEF SupervisorStep, SupervisorOwns, EffectStarts, SupervisorEnds, SupervisorFlushes,
        SupervisorDies, stateVars, vars
  <2>2. QED  BY <1>3, <2>1 DEF NoLaunch
<1>7. QED  BY <1>4, <1>5, <1>6 DEF Next

LEMMA NoLaunchKeepsInv ==
  ASSUME LockInv, TypeInv', LaunchInv, NoLaunch
  PROVE  LaunchInv'
<1>1. \A c \in Calls : call'[c].pc = "launch" => MayLaunch(c)'
  <2>1. SUFFICES ASSUME NEW c \in Calls, call'[c].pc = "launch" PROVE MayLaunch(c)'
    OBVIOUS
  <2>2. call[c].pc = "launch" /\ MayLaunch(c) /\ Id(c)' = Id(c) /\ Id(c) \in OpIds
    BY <2>1, CallType DEF LaunchInv, NoLaunch, Id, LockInv
  <2>3. \A d \in Calls : call'[d].pc = "launch" => call[d].pc = "launch" /\ Id(d)' = Id(d)
    BY DEF NoLaunch, Id
  <2>4. QED  BY <2>2, <2>3 DEF MayLaunch, NoLaunch, RowsKept, Known
<1>2. LaunchedOnce'
  BY DEF LaunchInv, LaunchedOnce, NoLaunch, RowsKept
<1>3. ASSUME NEW c \in Calls, call'[c].pc = "publish" PROVE Known(c)'
  <2>1. Known(c) /\ Id(c)' = Id(c)
    BY <1>3 DEF LaunchInv, NoLaunch, Id
  <2>2. Id(c) \in OpIds
    <3>1. Id(c)' \in OpIds
      BY <1>3, RequestType DEF TypeInv, CallsAsk, Id
    <3>2. QED  BY <2>1, <3>1
  <2>3. QED  BY <2>1, <2>2 DEF Known, NoLaunch, RowsKept
<1>4. QED  BY <1>1, <1>2, <1>3 DEF LaunchInv

LEMMA CommitKeepsLaunch ==
  ASSUME LockInv, LaunchInv, NEW c \in Calls, Commit(c)
  PROVE  LaunchInv'
<1>1. /\ Id(c) \in OpIds /\ Asked(c) \in Input /\ ~Known(c) /\ TypeInv
      /\ operations \in [OpIds -> Operation \cup {NoOperation}]
  BY CallType DEF Commit, LockInv, Holding, HoldsLock, TypeInv, TypeOK
<1>2. /\ operations'[Id(c)].done /\ operations'[Id(c)].input = Asked(c)
      /\ \A o \in OpIds : o # Id(c) => operations'[o] = operations[o]
      /\ launches' = launches
  BY <1>1 DEF Commit
<1>3. /\ call'[c].pc = AfterCommit(c) /\ Id(c)' = Id(c)
      /\ \A d \in Calls : d # c => call'[d] = call[d] /\ Id(d)' = Id(d)
  <2>1. call \in [Calls -> CallRow]
    BY <1>1 DEF TypeInv, TypeOK, CallRow
  <2>2. QED  BY <2>1 DEF Commit, GotoWithResult, CallRow, Id
<1>4. LaunchedOnce'
  BY <1>1, <1>2 DEF LaunchInv, LaunchedOnce, Known
<1>5. ASSUME NEW d \in Calls, call'[d].pc = "launch" PROVE MayLaunch(d)'
  <2>1. CASE d = c
    <3>1. Asked(c).action = "execute"
      BY <1>3, <1>5, <2>1 DEF AfterCommit
    <3>2. launches[Id(c)] = 0
      <4>1. launches[Id(c)] \in Nat
        BY <1>1 DEF TypeInv, TypeOK
      <4>2. launches[Id(c)] <= 1 /\ launches[Id(c)] # 1
        BY <1>1 DEF LaunchInv, LaunchedOnce, Known
      <4>3. QED  BY <4>1, <4>2
    <3>3. \A u \in Calls : u # c /\ call[u].pc = "launch" => Id(u) # Id(c)
      BY <1>1 DEF LaunchInv, MayLaunch, Known
    <3>4. QED  BY <1>1, <1>2, <1>3, <2>1, <3>1, <3>2, <3>3 DEF MayLaunch, Known
  <2>2. CASE d # c
    <3>1. call[d].pc = "launch" /\ MayLaunch(d) /\ Id(d) # Id(c) /\ Id(d) \in OpIds
      BY <1>1, <1>3, <1>5, <2>2, CallType DEF LaunchInv, MayLaunch, Known
    <3>2. QED  BY <1>2, <1>3, <2>2, <3>1 DEF MayLaunch, Known
  <2>3. QED  BY <2>1, <2>2
<1>6. ASSUME NEW d \in Calls, call'[d].pc = "publish" PROVE Known(d)'
  <2>1. CASE d = c
    BY <1>2, <1>3, <2>1 DEF Known
  <2>2. CASE d # c
    <3>1. Known(d) /\ Id(d) \in OpIds /\ Id(d) # Id(c)
      BY <1>1, <1>3, <1>6, <2>2, CallType DEF LaunchInv, Known
    <3>2. QED  BY <1>2, <1>3, <2>2, <3>1 DEF Known
  <2>3. QED  BY <2>1, <2>2
<1>7. QED  BY <1>4, <1>5, <1>6 DEF LaunchInv

LEMMA LaunchKeepsLaunch ==
  ASSUME LockInv, LaunchInv, NEW c \in Calls, Launch(c)
  PROVE  LaunchInv'
<1>1. /\ Id(c) \in OpIds /\ MayLaunch(c) /\ TypeInv /\ launches \in [OpIds -> Nat]
  BY CallType DEF Launch, LockInv, LaunchInv, TypeInv, TypeOK
<1>2. /\ launches'[Id(c)] = 1 /\ operations' = operations
      /\ \A o \in OpIds : o # Id(c) => launches'[o] = launches[o]
  BY <1>1 DEF Launch, MayLaunch
<1>3. /\ call'[c].pc = "flush"
      /\ \A d \in Calls : d # c => call'[d] = call[d] /\ Id(d)' = Id(d)
  BY <1>1, CallMoves DEF Launch, Id
<1>4. LaunchedOnce'
  BY <1>1, <1>2 DEF LaunchInv, LaunchedOnce, MayLaunch, Known
<1>5. ASSUME NEW d \in Calls, call'[d].pc = "launch" PROVE MayLaunch(d)'
  <2>1. d # c /\ call[d].pc = "launch" /\ MayLaunch(d) /\ Id(d) \in OpIds
    BY <1>1, <1>3, <1>5, CallType DEF LaunchInv
  <2>2. Id(d) # Id(c)
    BY <1>1, <2>1 DEF MayLaunch
  <2>3. \A u \in Calls : call'[u].pc = "launch" => call[u].pc = "launch" /\ Id(u)' = Id(u)
    BY <1>3
  <2>4. QED  BY <1>2, <1>3, <2>1, <2>2, <2>3 DEF MayLaunch, Known
<1>6. \A d \in Calls : call'[d].pc = "publish" => Known(d)'
  BY <1>2, <1>3 DEF LaunchInv, Known
<1>7. QED  BY <1>4, <1>5, <1>6 DEF LaunchInv

(* No supervisor is launched twice for one execute, however often the call *)
(* is repeated, and none before its execute is committed (I5 of            *)
(* docs/protocol.md).                                                      *)
THEOREM NoSecondLaunch == Spec => []LaunchedOnce
<1>1. Init => LockInv /\ LaunchInv
  BY InitLock DEF Init, NoCall, LaunchInv, LaunchedOnce
<1>2. (LockInv /\ LaunchInv) /\ [Next]_vars => (LockInv /\ LaunchInv)'
  BY LockStep, LaunchSteps, NoLaunchKeepsInv, CommitKeepsLaunch, LaunchKeepsLaunch DEF LockInv
<1>3. LockInv /\ LaunchInv => LaunchedOnce
  BY DEF LaunchInv
<1>4. QED  BY <1>1, <1>2, <1>3, PTL DEF Spec

-----------------------------------------------------------------------------
(* The contract                                                            *)

(* A call has no receipt before begin or receipt gave it one. *)
NoReceiptYet ==
  \A c \in Calls : call[c].pc \in {"flush first", "begin", "saved"} => call[c].result = "none"

ContractInv == LockInv /\ NoReceiptYet

LEMMA SeenSame ==
  ASSUME call' = call
  PROVE  Asking' = Asking
BY DEF Asking, Id, Asked

(* Going on without a result is not seen, returning is Leave. *)
LEMMA GotoSeen ==
  ASSUME TypeInv, NEW c \in Calls, NEW pc, Goto(c, pc), pc # "idle", call[c].pc # "idle"
  PROVE  Asking' = Asking
<1>1. call \in [Calls -> CallRow]
  BY DEF TypeInv, TypeOK, CallRow
<1>2. /\ call'[c].pc = pc /\ call'[c].req = call[c].req
      /\ call'[c].expected = call[c].expected /\ call'[c].result = call[c].result
      /\ \A d \in Calls : d # c => call'[d] = call[d]
  BY <1>1 DEF Goto, CallRow
<1>3. QED  BY <1>2 DEF Asking, Id, Asked

LEMMA ReturnSeen ==
  ASSUME TypeInv, NEW c \in Calls, Return(c), UNCHANGED <<version, control, operations>>
  PROVE  Contract!Leave(c)
<1>1. call \in [Calls -> CallRow]
  BY DEF TypeInv, TypeOK, CallRow
<1>2. /\ call'[c].pc = "idle" /\ \A d \in Calls : d # c => call'[d] = call[d]
  BY <1>1 DEF Return, NoCall
<1>3. Asking' = [Asking EXCEPT ![c] = Contract!Idle]
  BY <1>2 DEF Asking, Id, Asked, Contract!Idle
<1>4. Applied' = Applied
  BY DEF Applied
<1>5. QED  BY <1>3, <1>4 DEF Contract!Leave

LEMMA ReceiptSeen ==
  ASSUME TypeInv, NEW c \in Calls, NEW pc, GotoWithResult(c, pc), pc # "idle", call[c].pc # "idle"
  PROVE  Contract!GiveReceipt(c)
<1>1. call \in [Calls -> CallRow]
  BY DEF TypeInv, TypeOK, CallRow
<1>2. /\ call'[c].pc = pc /\ call'[c].req = call[c].req
      /\ call'[c].expected = 0 /\ call'[c].result = "receipt"
      /\ \A d \in Calls : d # c => call'[d] = call[d]
  BY <1>1 DEF GotoWithResult, CallRow
<1>3. Asking' = [Asking EXCEPT ![c] = [@ EXCEPT !.expected = 0, !.result = "receipt"]]
  BY <1>2 DEF Asking, Id, Asked
<1>4. QED  BY <1>3 DEF Contract!GiveReceipt

(* A call in its transaction waits for its receipt. *)
LEMMA WaitingSeen ==
  ASSUME ContractInv, NEW c \in Calls, call[c].pc \in {"begin", "saved"}
  PROVE  /\ Contract!Waiting(c) /\ Asking[c].id = Id(c) /\ Asking[c].input = Asked(c)
         /\ Asking[c].expected = call[c].expected /\ Id(c) \in OpIds
BY CallType DEF ContractInv, LockInv, NoReceiptYet, Asking, Contract!Waiting

LEMMA ProgressSeen ==
  ASSUME NEW new \in Control, Change(new), Asking' = Asking, Applied' = Applied
  PROVE  Contract!Progress
BY DEF Change, Contract!Progress

LEMMA ReplaySeen ==
  ASSUME ContractInv, NEW c \in Calls, Replay(c)
  PROVE  Contract!Repeat(c)
<1>1. Contract!GiveReceipt(c)
  <2>1. ReplayFrom(Asked(c).action) # "idle"
    BY DEF ReplayFrom
  <2>2. QED  BY <2>1, ReceiptSeen DEF Replay, ContractInv, LockInv
<1>2. /\ Contract!Waiting(c) /\ Asking[c].id = Id(c) /\ Asking[c].input = Asked(c)
      /\ Id(c) \in OpIds
  BY WaitingSeen DEF Replay
<1>3. Applied[Id(c)] = Asked(c)
  BY <1>2 DEF Replay, Known, SameInput, Applied
<1>4. UNCHANGED <<version, control, Applied>>
  BY DEF Replay, stateVars, Applied
<1>5. QED  BY <1>1, <1>2, <1>3, <1>4 DEF Contract!Repeat

LEMMA CommitSeen ==
  ASSUME ContractInv, NEW c \in Calls, Commit(c)
  PROVE  Contract!Apply(c)
<1>1. /\ TypeInv /\ TypeInv' /\ HoldsLock(c)
      /\ operations \in [OpIds -> Operation \cup {NoOperation}]
  BY CommitType DEF Commit, ContractInv, LockInv, Holding, HoldsLock, TypeInv, TypeOK
<1>2. Contract!GiveReceipt(c)
  <2>1. AfterCommit(c) # "idle"
    BY DEF AfterCommit
  <2>2. QED  BY <1>1, <2>1, ReceiptSeen DEF Commit
<1>3. /\ Contract!Waiting(c) /\ Asking[c].id = Id(c) /\ Asking[c].input = Asked(c)
      /\ Asking[c].expected = version /\ Id(c) \in OpIds
  BY <1>1, WaitingSeen DEF Commit, HoldsLock
<1>4. Applied[Id(c)] = Nobody
  BY <1>1, <1>3 DEF HoldsLock, Known, Applied
<1>5. Applied' = [Applied EXCEPT ![Id(c)] = Asked(c)]
  <2>1. /\ operations'[Id(c)].done /\ operations'[Id(c)].input = Asked(c)
        /\ \A o \in OpIds : o # Id(c) => operations'[o] = operations[o]
    BY <1>1, <1>3 DEF Commit
  <2>2. QED  BY <1>3, <2>1 DEF Applied
<1>6. control' \in Control /\ version' = version + 1
  BY <1>1 DEF Commit, TypeInv, TypeOK
<1>7. QED  BY <1>2, <1>3, <1>4, <1>5, <1>6 DEF Contract!Apply

LEMMA RecordSeen ==
  ASSUME TypeInv, NEW c \in Calls, NEW status \in MemoryStates, NEW pc, Record(Id(c), status),
         Goto(c, pc), pc # "idle", call[c].pc # "idle"
  PROVE  Contract!Progress
<1>1. [control EXCEPT !.memory = status] \in Control /\ control \in Control
  BY ControlColumns DEF TypeInv, TypeOK
<1>2. Applied' = Applied
  <2>1. /\ operations \in [OpIds -> Operation \cup {NoOperation}]
        /\ operations' = [operations EXCEPT ![Id(c)] = [@ EXCEPT !.memory = status]]
    BY DEF Record, TypeInv, TypeOK
  <2>2. ASSUME NEW o \in OpIds
        PROVE  (IF operations'[o].done THEN operations'[o].input ELSE Nobody)
                 = (IF operations[o].done THEN operations[o].input ELSE Nobody)
    <3>1. CASE operations[o] \in Operation
      BY <2>1, <3>1 DEF Operation
    <3>2. CASE operations[o] = NoOperation
      BY <2>1, <3>2 DEF NoOperation
    <3>3. QED  BY <2>1, <3>1, <3>2
  <2>3. QED  BY <2>2 DEF Applied
<1>3. Asking' = Asking
  BY GotoSeen
<1>4. QED  BY <1>1, <1>2, <1>3, ProgressSeen DEF Record

LEMMA CallStepSeen ==
  ASSUME ContractInv, NEW c \in Calls, CallStep(c)
  PROVE  Contract!Next \/ UNCHANGED <<version, control, Applied, Asking>>
<1>1. TypeInv
  BY DEF ContractInv, LockInv
<1>2. CASE Replay(c)
  BY <1>2, ReplaySeen DEF Contract!Next
<1>3. CASE Commit(c)
  BY <1>3, CommitSeen DEF Contract!Next
<1>4. CASE Refuse(c) \/ AnswerNotYet(c) \/ Answer(c) \/ Abort(c) \/ CallFails(c)
  <2>1. Return(c) /\ UNCHANGED <<version, control, operations>>
    BY <1>4 DEF Refuse, AnswerNotYet, Answer, Abort, CallFails, stateVars
  <2>2. QED  BY <1>1, <2>1, ReturnSeen DEF Contract!Next
<1>5. CASE Save(c) \/ Launch(c) \/ PublishSkips(c)
  <2>1. UNCHANGED <<version, control, operations>>
    BY <1>5 DEF Save, Launch, PublishSkips, stateVars
  <2>2. PICK pc : Goto(c, pc) /\ pc # "idle" /\ call[c].pc # "idle"
    BY <1>5 DEF Save, Launch, PublishSkips
  <2>3. QED  BY <1>1, <2>1, <2>2, GotoSeen DEF Applied
<1>6. CASE LaunchFails(c)
  <2>1. Asking' = Asking /\ Applied' = Applied
    <3>1. Goto(c, "flush") /\ call[c].pc # "idle" /\ operations' = operations
      BY <1>6 DEF LaunchFails
    <3>2. QED  BY <1>1, <3>1, GotoSeen DEF Applied
  <2>2. [control EXCEPT !.task = "EXITED"] \in Control
    BY <1>1, ControlColumns, ControlNames DEF TypeInv, TypeOK
  <2>3. QED
    BY <1>6, <2>1, <2>2, ProgressSeen DEF LaunchFails, Contract!Next
<1>7. CASE \/ \E status \in {"accepted", "rejected"} : PublishDecides(c, status)
           \/ \E status \in {"published", "failed"} : PublishEnds(c, status)
  <2>1. PICK status \in MemoryStates, pc \in {"accepted", "flush"} :
          Record(Id(c), status) /\ Goto(c, pc) /\ pc # "idle" /\ call[c].pc # "idle"
    BY <1>7, ControlNames DEF PublishDecides, PublishEnds
  <2>2. QED  BY <1>1, <2>1, RecordSeen DEF Contract!Next
<1>8. CASE FlushOn(c)
  BY <1>8, SeenSame DEF FlushOn, stateVars, Applied
<1>9. CASE FlushEnds(c) \/ FlushGivesUp(c)
  <2>1. UNCHANGED <<version, control, operations>>
    BY <1>9 DEF FlushEnds, FlushGivesUp, stateVars
  <2>2. CASE Return(c)
    BY <1>1, <2>1, <2>2, ReturnSeen DEF Contract!Next
  <2>3. CASE Goto(c, "begin") /\ call[c].pc # "idle"
    BY <1>1, <2>1, <2>3, GotoSeen DEF Applied
  <2>4. QED  BY <1>9, <2>2, <2>3 DEF FlushEnds, FlushGivesUp, AfterFlush
<1>10. QED
  BY <1>2, <1>3, <1>4, <1>5, <1>6, <1>7, <1>8, <1>9 DEF CallStep

LEMMA OtherStepSeen ==
  ASSUME ContractInv, [Next]_vars, ~\E c \in Calls : CallStep(c)
  PROVE  Contract!Next \/ UNCHANGED <<version, control, Applied, Asking>>
<1>1. TypeInv /\ call \in [Calls -> CallRow] /\ control \in Control /\ version \in Nat \ {0}
  BY DEF ContractInv, LockInv, TypeInv, TypeOK, CallRow
<1>2. ASSUME NEW c \in Calls, CallDies(c) PROVE Contract!Next
  <2>1. Return(c) /\ UNCHANGED <<version, control, operations>>
    BY <1>2 DEF CallDies, Return, stateVars
  <2>2. QED  BY <1>1, <2>1, ReturnSeen DEF Contract!Next
<1>3. ASSUME NEW c \in Calls, NEW r \in Request, Start(c, r) PROVE Contract!Ask(c)
  <2>1. /\ call'[c].pc # "idle" /\ call'[c].req = r /\ call'[c].expected = version
        /\ call'[c].result = "none" /\ call[c].pc = "idle"
        /\ \A d \in Calls : d # c => call'[d] = call[d]
    BY <1>1, <1>3 DEF Start
  <2>2. /\ Asking'[c] = [id |-> r.id, input |-> r.input, expected |-> version, result |-> "none"]
        /\ Asking' = [Asking EXCEPT ![c] = Asking'[c]]
        /\ Asking[c] = Contract!Idle
    BY <2>1 DEF Asking, Id, Asked, Contract!Idle
  <2>3. Asking'[c] \in [id : OpIds, input : Input, expected : 1..version, result : {"none"}]
    BY <1>1, <2>2, RequestType
  <2>4. UNCHANGED <<version, control, Applied>>
    BY <1>3 DEF Start, stateVars, Applied
  <2>5. QED  BY <2>2, <2>3, <2>4 DEF Contract!Ask
<1>4. CASE SupervisorOwns \/ EffectStarts \/ SupervisorEnds
  <2>1. /\ [control EXCEPT !.task = "RUNNING"] \in Control
        /\ [control EXCEPT !.task = "EXITED"] \in Control
        /\ [control EXCEPT !.effect = TRUE, !.state = "EXECUTING"] \in Control
    BY <1>1, ControlColumns, ControlNames
  <2>2. Asking' = Asking /\ Applied' = Applied
    BY <1>4, SeenSame DEF SupervisorOwns, EffectStarts, SupervisorEnds, Applied
  <2>3. QED
    BY <1>4, <2>1, <2>2, ProgressSeen
    DEF SupervisorOwns, EffectStarts, SupervisorEnds, Contract!Next
<1>5. CASE SupervisorFlushes \/ SupervisorDies \/ UNCHANGED vars
  <2>1. UNCHANGED <<version, control, operations, call>>
    BY <1>5 DEF SupervisorFlushes, SupervisorDies, vars, stateVars
  <2>2. QED  BY <2>1, SeenSame DEF Applied
<1>6. QED
  BY <1>2, <1>3, <1>4, <1>5 DEF Next, SupervisorStep, Contract!Next

LEMMA NoReceiptStep ==
  ASSUME TypeInv, NoReceiptYet, [Next]_vars
  PROVE  NoReceiptYet'
<1> DEFINE Before == {"flush first", "begin", "saved"}
<1>1. call \in [Calls -> CallRow]
  BY DEF TypeInv, TypeOK, CallRow
<1>2. ASSUME NEW c \in Calls, NEW pc,
             \/ Goto(c, pc) /\ (pc \in Before => call[c].pc \in Before)
             \/ GotoWithResult(c, pc) /\ pc \notin Before
             \/ Return(c)
      PROVE  NoReceiptYet'
  <2>1. /\ \A d \in Calls : d # c => call'[d] = call[d]
        /\ call'[c].pc \in Before => call[c].pc \in Before /\ call'[c].result = call[c].result
    <3>1. CASE Goto(c, pc) /\ (pc \in Before => call[c].pc \in Before)
      BY <1>1, <3>1 DEF Goto, CallRow
    <3>2. CASE GotoWithResult(c, pc) /\ pc \notin Before
      BY <1>1, <3>2 DEF GotoWithResult, CallRow
    <3>3. CASE Return(c)
      BY <1>1, <3>3 DEF Return, NoCall, CallRow
    <3>4. QED  BY <1>2, <3>1, <3>2, <3>3
  <2>2. QED  BY <2>1 DEF NoReceiptYet
<1>3. ASSUME NEW c \in Calls, CallStep(c) PROVE NoReceiptYet'
  <2>1. CASE \/ Replay(c) \/ Commit(c)
    <3>1. ReplayFrom(Asked(c).action) \notin Before /\ AfterCommit(c) \notin Before
      BY DEF ReplayFrom, AfterCommit
    <3>2. QED  BY <1>2, <2>1, <3>1 DEF Replay, Commit
  <2>2. CASE Refuse(c) \/ AnswerNotYet(c) \/ Answer(c) \/ Abort(c) \/ CallFails(c)
    BY <1>2, <2>2 DEF Refuse, AnswerNotYet, Answer, Abort, CallFails
  <2>3. CASE Save(c) \/ Launch(c) \/ PublishSkips(c) \/ LaunchFails(c)
    <3>1. (Goto(c, "saved") /\ call[c].pc = "begin") \/ Goto(c, "flush")
      BY <2>3 DEF Save, Launch, PublishSkips, LaunchFails
    <3>2. CASE Goto(c, "saved") /\ call[c].pc = "begin"
      BY <1>2, <3>2
    <3>3. CASE Goto(c, "flush")
      <4>1. "flush" \notin Before
        OBVIOUS
      <4>2. QED  BY <1>2, <3>3, <4>1
    <3>4. QED  BY <3>1, <3>2, <3>3
  <2>4. CASE \/ \E status \in {"accepted", "rejected"} : PublishDecides(c, status)
             \/ \E status \in {"published", "failed"} : PublishEnds(c, status)
    <3>1. PICK pc \in {"accepted", "flush"} : Goto(c, pc)
      BY <2>4 DEF PublishDecides, PublishEnds
    <3>2. QED  BY <1>2, <3>1
  <2>5. CASE FlushOn(c)
    BY <2>5 DEF FlushOn, NoReceiptYet
  <2>6. CASE FlushEnds(c) \/ FlushGivesUp(c)
    <3>1. Return(c) \/ (Goto(c, "begin") /\ call[c].pc \in Before)
      BY <2>6 DEF FlushEnds, FlushGivesUp, AfterFlush
    <3>2. QED  BY <1>2, <3>1
  <2>7. QED  BY <1>3, <2>1, <2>2, <2>3, <2>4, <2>5, <2>6 DEF CallStep
<1>4. ASSUME NEW c \in Calls, CallDies(c) PROVE NoReceiptYet'
  BY <1>2, <1>4 DEF CallDies, Return
<1>5. ASSUME NEW c \in Calls, NEW r \in Request, Start(c, r) PROVE NoReceiptYet'
  BY <1>1, <1>5 DEF Start, NoReceiptYet
<1>6. CASE SupervisorStep \/ SupervisorDies \/ UNCHANGED vars
  BY <1>6
  DEF SupervisorStep, SupervisorOwns, EffectStarts, SupervisorEnds, SupervisorFlushes,
      SupervisorDies, stateVars, vars, NoReceiptYet
<1>7. QED  BY <1>3, <1>4, <1>5, <1>6 DEF Next

(* Retries, races, crashes and lost answers included, the protocol is an   *)
(* implementation of OperationsContract: an id is applied at most once,    *)
(* with one input and to the version its caller named (begin, receipt,     *)
(* stop_session).                                                          *)
THEOREM ContractImplemented == Spec => ImplementsContract
<1>1. Init => ContractInv
  <2>1. ASSUME Init PROVE NoReceiptYet
    <3>1. \A c \in Calls : call[c].pc = "idle"
      BY <2>1 DEF Init, NoCall
    <3>2. QED  BY <3>1 DEF NoReceiptYet
  <2>2. QED  BY <2>1, InitLock DEF ContractInv
<1>2. ContractInv /\ [Next]_vars => ContractInv'
  BY LockStep, NoReceiptStep DEF ContractInv, LockInv
<1>3. Init => Contract!Init
  BY DEF Init, NoOperation, NoCall, Applied, Asking, Contract!Init, Contract!Idle
<1>4. ContractInv /\ [Next]_vars => [Contract!Next]_(Contract!contractVars)
  BY CallStepSeen, OtherStepSeen DEF Contract!contractVars
<1>5. QED
  BY <1>1, <1>2, <1>3, <1>4, PTL DEF Spec, ImplementsContract, Contract!Spec

-----------------------------------------------------------------------------
(* The plan of a round and the publication that holds it                   *)

(* What is left alone by every step other than Save, Commit and those of   *)
(* a publication, in two kinds: the task goes on, or nothing happens that  *)
(* the invariants below are about.                                         *)
CallsKept ==
  \A d \in Calls : call'[d].pc \in {"saved", "accepted"} => call'[d] = call[d]

TaskMoves ==
  /\ LockFree /\ CallsKept /\ UNCHANGED <<planFile, operations>>
  /\ control.task \in LiveTask
  /\ \/ control' = [control EXCEPT !.task = "EXITED"]
     \/ control' = [control EXCEPT !.task = "RUNNING"]
     \/ control' = [control EXCEPT !.effect = TRUE, !.state = "EXECUTING"]

ControlKept == CallsKept /\ UNCHANGED <<planFile, operations, control>>

Publishes(c) ==
  \/ \E status \in {"accepted", "rejected"} : PublishDecides(c, status)
  \/ \E status \in {"published", "failed"} : PublishEnds(c, status)

LEMMA ControlSteps ==
  ASSUME LockInv, [Next]_vars
  PROVE  \/ \E c \in Calls : Save(c) \/ Commit(c) \/ Publishes(c)
         \/ TaskMoves \/ ControlKept
<1>1. TypeInv /\ call \in [Calls -> CallRow]
  BY DEF LockInv, TypeInv, TypeOK, CallRow
<1>2. ASSUME NEW c \in Calls, NEW pc, pc \notin {"saved", "accepted"},
             Goto(c, pc) \/ GotoWithResult(c, pc) \/ (Return(c) /\ pc = "idle")
      PROVE  CallsKept
  BY <1>1, <1>2, CallMoves DEF CallsKept
<1>3. ASSUME NEW c \in Calls, CallStep(c), ~Save(c), ~Commit(c), ~Publishes(c)
      PROVE  TaskMoves \/ ControlKept
  <2>1. CASE \/ Replay(c) \/ Refuse(c) \/ AnswerNotYet(c) \/ Answer(c) \/ PublishSkips(c)
             \/ CallFails(c) \/ Abort(c) \/ Launch(c)
    <3>1. ReplayFrom(Asked(c).action) \notin {"saved", "accepted"}
      BY DEF ReplayFrom
    <3>2. PICK pc : /\ pc \notin {"saved", "accepted"}
                    /\ Goto(c, pc) \/ GotoWithResult(c, pc) \/ (Return(c) /\ pc = "idle")
      BY <2>1, <3>1
      DEF Replay, Refuse, AnswerNotYet, Answer, PublishSkips, CallFails, Abort, Launch
    <3>3. UNCHANGED <<planFile, operations, control>>
      BY <2>1
      DEF Replay, Refuse, AnswerNotYet, Answer, PublishSkips, CallFails, Abort, Launch, stateVars
    <3>4. QED  BY <1>2, <3>2, <3>3 DEF ControlKept
  <2>2. CASE LaunchFails(c)
    <3>1. Goto(c, "flush") /\ UNCHANGED <<planFile, operations>>
      BY <2>2 DEF LaunchFails
    <3>2. CallsKept
      <4>1. "flush" \notin {"saved", "accepted"}
        OBVIOUS
      <4>2. QED  BY <1>2, <3>1, <4>1
    <3>3. QED  BY <2>2, <3>1, <3>2 DEF LaunchFails, Change, TaskMoves, ControlKept
  <2>3. CASE FlushOn(c)
    BY <2>3 DEF FlushOn, stateVars, CallsKept, ControlKept
  <2>4. CASE FlushEnds(c) \/ FlushGivesUp(c)
    <3>1. PICK pc \in {"idle", "begin"} : Goto(c, pc) \/ (Return(c) /\ pc = "idle")
      BY <2>4 DEF FlushEnds, FlushGivesUp, AfterFlush
    <3>2. CallsKept
      <4>1. pc \notin {"saved", "accepted"}
        OBVIOUS
      <4>2. QED  BY <1>2, <3>1, <4>1
    <3>3. UNCHANGED <<planFile, operations, control>>
      BY <2>4 DEF FlushEnds, FlushGivesUp, stateVars
    <3>4. QED  BY <3>2, <3>3 DEF ControlKept
  <2>5. QED  BY <1>3, <2>1, <2>2, <2>3, <2>4 DEF CallStep, Publishes
<1>4. ASSUME NEW c \in Calls, CallDies(c) \/ \E r \in Request : Start(c, r) PROVE ControlKept
  <2>1. UNCHANGED <<planFile, operations, control>>
    BY <1>4 DEF CallDies, Start, stateVars
  <2>2. CASE CallDies(c)
    BY <1>1, <2>1, <2>2 DEF CallDies, NoCall, CallsKept, ControlKept
  <2>3. ASSUME NEW r \in Request, Start(c, r) PROVE ControlKept
    BY <1>1, <2>1, <2>3 DEF Start, CallsKept, ControlKept
  <2>4. QED  BY <1>4, <2>2, <2>3
<1>5. CASE SupervisorOwns \/ EffectStarts \/ SupervisorEnds
  BY <1>5
  DEF SupervisorOwns, EffectStarts, SupervisorEnds, Change, LiveTask, CallsKept, TaskMoves,
      ControlKept
<1>6. CASE SupervisorFlushes \/ SupervisorDies \/ UNCHANGED vars
  BY <1>6 DEF SupervisorFlushes, SupervisorDies, stateVars, vars, CallsKept, ControlKept
<1>7. QED  BY <1>3, <1>4, <1>5, <1>6 DEF Next, SupervisorStep

(* A round that waits for its plan has none, and a submission in its       *)
(* transaction has written its own.                                        *)
PlanInv ==
  /\ AcceptedPlanIntact
  /\ control.state = "WAITING_FOR_PLAN" => control.plan = NoPlan
  /\ \A c \in Calls : call[c].pc = "saved" /\ Asked(c).action = "submit-plan" =>
       planFile[control.round] = Asked(c).plan

LEMMA SaveKeepsPlan ==
  ASSUME LockInv, PlanInv, NEW c \in Calls, Save(c)
  PROVE  PlanInv'
<1>1. /\ \A d \in Calls : call[d].pc # "saved"
      /\ \A d \in Calls : d # c => call'[d] = call[d]
      /\ call'[c].pc = "saved" /\ call'[c].req = call[c].req
      /\ planFile \in [Rounds -> Plans \cup {NoPlan}] /\ control.round \in Rounds
      /\ control' = control
  <2>1. call \in [Calls -> CallRow]
    BY DEF LockInv, TypeInv, TypeOK, CallRow
  <2>2. QED
    BY <2>1, LockExcludes DEF Save, Goto, CallRow, LockInv, TypeInv, TypeOK, Control
<1>2. CASE Asked(c).action = "submit-plan"
  <2>1. planFile'[control.round] = Asked(c).plan /\ control.plan = NoPlan
    BY <1>1, <1>2 DEF Save, Allowed, PlanAllowed, RequireState, PlanInv
  <2>2. QED  BY <1>1, <2>1 DEF PlanInv, AcceptedPlanIntact, Asked
<1>3. CASE Asked(c).action # "submit-plan"
  BY <1>1, <1>3 DEF Save, PlanInv, AcceptedPlanIntact, Asked
<1>4. QED  BY <1>2, <1>3

LEMMA CommitKeepsPlan ==
  ASSUME LockInv, PlanInv, NEW c \in Calls, Commit(c)
  PROVE  PlanInv'
<1>1. /\ \A d \in Calls : call'[d].pc # "saved"
      /\ Asked(c) \in Input /\ StillAllowed(Asked(c).action) /\ planFile' = planFile
      /\ control \in Control /\ control' \in Results(Id(c), Asked(c))
  <2>1. call'[c].pc = AfterCommit(c) /\ \A d \in Calls : d # c => call'[d] = call[d]
    BY CallMoves DEF Commit, LockInv
  <2>2. AfterCommit(c) # "saved"
    BY DEF AfterCommit
  <2>3. QED
    BY <2>1, <2>2, CallType, LockExcludes
    DEF Commit, LockInv, Holding, HoldsLock, TypeInv, TypeOK
<1>2. /\ control'.state = "WAITING_FOR_PLAN" => control'.plan = NoPlan
      /\ control'.plan # NoPlan => planFile[control'.round] = control'.plan
  <2>1. CASE Asked(c).action = "submit-plan"
    <3>1. control' = [control EXCEPT !.state = "READY_TO_EXECUTE", !.plan = Asked(c).plan]
      BY <1>1, <2>1 DEF Results
    <3>2. planFile[control.round] = Asked(c).plan
      BY <2>1 DEF Commit, PlanInv
    <3>3. QED  BY <1>1, <3>1, <3>2 DEF Control
  <2>2. CASE Asked(c).action = "finish-continue"
    <3>1. control' = NewRound(control.round + 1)
      BY <1>1, <2>2 DEF Results
    <3>2. QED  BY <3>1 DEF NewRound
  <2>3. CASE Asked(c).action \notin {"submit-plan", "finish-continue"}
    <3>1. /\ control'.plan = control.plan /\ control'.round = control.round
          /\ control'.state # control.state => control'.state # "WAITING_FOR_PLAN"
      <4>1. CASE Asked(c).action = "execute"
        BY <1>1, <4>1 DEF Results, Control
      <4>2. CASE Asked(c).action = "collect"
        BY <1>1, <4>2 DEF Results, AfterCollect, Control
      <4>3. CASE Asked(c).action = "stop"
        BY <1>1, <4>3 DEF Results, AfterStop, Control
      <4>4. CASE Asked(c).action = "submit-evaluation"
        BY <1>1, <4>4 DEF Results, Control
      <4>5. CASE Asked(c).action = "memory-revise"
        BY <1>1, <4>5 DEF Results, Control
      <4>6. CASE Asked(c).action = "finish-complete"
        BY <1>1, <4>6 DEF Results, Control
      <4>7. QED
        BY <1>1, <2>3, <4>1, <4>2, <4>3, <4>4, <4>5, <4>6 DEF Input, Actions
    <3>2. QED  BY <3>1 DEF PlanInv, AcceptedPlanIntact
  <2>4. QED  BY <2>1, <2>2, <2>3
<1>3. QED  BY <1>1, <1>2 DEF PlanInv, AcceptedPlanIntact

LEMMA PlanStep ==
  ASSUME LockInv, PlanInv, [Next]_vars
  PROVE  PlanInv'
<1>1. TypeInv /\ control \in Control
  BY DEF LockInv, TypeInv, TypeOK
<1>2. ASSUME NEW c \in Calls, Publishes(c) PROVE PlanInv'
  <2>1. /\ control' = [control EXCEPT !.memory = control'.memory] \/ control' = control
        /\ UNCHANGED planFile /\ LockFree
        /\ \E pc : pc # "saved" /\ Goto(c, pc)
    BY <1>1, <1>2 DEF Publishes, PublishDecides, PublishEnds, Record, Change, Control
  <2>2. \A d \in Calls : call'[d].pc # "saved"
    BY <1>1, <2>1, CallMoves, LockExcludes
  <2>3. /\ control'.state = control.state /\ control'.plan = control.plan
        /\ control'.round = control.round
    BY <1>1, <2>1 DEF Control
  <2>4. QED  BY <2>1, <2>2, <2>3 DEF PlanInv, AcceptedPlanIntact
<1>3. CASE TaskMoves
  <2>1. /\ control'.plan = control.plan /\ control'.round = control.round
        /\ control'.state \in {control.state, "EXECUTING"} /\ planFile' = planFile
    BY <1>1, <1>3 DEF TaskMoves, Control
  <2>2. \A d \in Calls : call'[d].pc = "saved" => call'[d] = call[d]
    BY <1>3 DEF TaskMoves, CallsKept
  <2>3. QED  BY <2>1, <2>2 DEF PlanInv, AcceptedPlanIntact, Asked
<1>4. CASE ControlKept
  BY <1>4 DEF ControlKept, CallsKept, PlanInv, AcceptedPlanIntact, Asked
<1>5. QED  BY <1>2, <1>3, <1>4, ControlSteps, SaveKeepsPlan, CommitKeepsPlan

(* The plan file of a round is the plan that was accepted for it: neither  *)
(* a rival submission nor one that dies between its files and its COMMIT   *)
(* replaces it (submit_plan writes plan.json before it commits).           *)
THEOREM PlanStaysIntact == Spec => []AcceptedPlanIntact
<1>1. Init => LockInv /\ PlanInv
  <2>1. Init => PlanInv
    BY DEF Init, NewRound, NoCall, PlanInv, AcceptedPlanIntact
  <2>2. QED  BY <2>1, InitLock
<1>2. (LockInv /\ PlanInv) /\ [Next]_vars => (LockInv /\ PlanInv)'
  BY LockStep, PlanStep
<1>3. LockInv /\ PlanInv => AcceptedPlanIntact
  BY DEF PlanInv
<1>4. QED  BY <1>1, <1>2, <1>3, PTL DEF Spec

(* At most one publication is pending, the round knows of it, and only one *)
(* call writes to the store for it.  Before its evaluation a round has no  *)
(* memory.                                                                 *)
Pending(o) == operations[o].done /\ operations[o].memory \in MemoryPending

MayPublish(c) ==
  /\ Known(c) /\ operations[Id(c)].memory = "accepted"
  /\ \A d \in Calls : call[d].pc = "accepted" /\ Id(d) = Id(c) => d = c

NoMemoryYet ==
  \/ control.task \in LiveTask \cup {"EXITED"}
  \/ control.state \in {"WAITING_FOR_PLAN", "READY_TO_EXECUTE", "EXECUTING",
                        "WAITING_FOR_EVALUATION"}

PendingInv ==
  /\ PendingHoldsRound
  /\ \A o, u \in OpIds : Pending(o) /\ Pending(u) => o = u
  /\ \A c \in Calls : call[c].pc = "accepted" => MayPublish(c)
  /\ NoMemoryYet => control.memory = "null"
  /\ control.state = "WAITING_FOR_EVALUATION" => control.task = "COLLECTED"

LEMMA KeptKeepsPending ==
  ASSUME LockInv, PendingInv, CallsKept, operations' = operations,
         control'.memory = control.memory, control'.round = control.round,
         NoMemoryYet' => NoMemoryYet,
         control'.state = "WAITING_FOR_EVALUATION" => control'.task = "COLLECTED"
  PROVE  PendingInv'
<1>1. PendingHoldsRound' /\ \A o, u \in OpIds : Pending(o)' /\ Pending(u)' => o = u
  BY DEF PendingInv, PendingHoldsRound, Pending
<1>2. ASSUME NEW c \in Calls, call'[c].pc = "accepted" PROVE MayPublish(c)'
  <2>1. call[c].pc = "accepted" /\ call'[c] = call[c] /\ MayPublish(c)
    BY <1>2 DEF CallsKept, PendingInv
  <2>2. \A d \in Calls : call'[d].pc = "accepted" => call[d].pc = "accepted" /\ Id(d)' = Id(d)
    BY DEF CallsKept, Id
  <2>3. QED  BY <1>2, <2>1, <2>2 DEF MayPublish, Known, Id
<1>3. QED  BY <1>1, <1>2 DEF PendingInv

LEMMA PublishKeepsPending ==
  ASSUME LockInv, LaunchInv, PendingInv, NEW c \in Calls, Publishes(c)
  PROVE  PendingInv'
<1>1. PICK status \in {"accepted", "rejected", "published", "failed"}, pc \in {"accepted", "flush"} :
        /\ Record(Id(c), status) /\ Goto(c, pc) /\ call[c].pc # "idle"
        /\ Pending(Id(c)) /\ (pc = "accepted" <=> status = "accepted")
        /\ ~Publishing(Id(c)) \/ (call[c].pc = "accepted" /\ pc # "accepted")
  <2>1. CASE \E status \in {"accepted", "rejected"} : PublishDecides(c, status)
    <3>1. operations[Id(c)].done
      BY <2>1 DEF PublishDecides, LaunchInv, Known
    <3>2. QED  BY <2>1, <3>1 DEF PublishDecides, Pending
  <2>2. CASE \E status \in {"published", "failed"} : PublishEnds(c, status)
    BY <2>2 DEF PublishEnds, Pending, PendingInv, MayPublish, Known, MemoryPending
  <2>3. QED  BY <2>1, <2>2 DEF Publishes
<1>2. /\ TypeInv /\ Id(c) \in OpIds /\ control \in Control
      /\ operations \in [OpIds -> Operation \cup {NoOperation}]
      /\ operations[Id(c)] \in Operation
  BY <1>1, CallType DEF LockInv, TypeInv, TypeOK, Pending, NoOperation
<1>3. /\ operations'[Id(c)] = [operations[Id(c)] EXCEPT !.memory = status]
      /\ operations'[Id(c)].done /\ operations'[Id(c)].memory = status
      /\ operations'[Id(c)].round = operations[Id(c)].round
      /\ \A o \in OpIds : o # Id(c) => operations'[o] = operations[o] /\ ~Pending(o)
  BY <1>1, <1>2 DEF Record, Operation, PendingInv
<1>4. /\ control' = [control EXCEPT !.memory = status] /\ operations[Id(c)].round = control.round
      /\ control.memory \in MemoryPending
  BY <1>1, <1>2 DEF Record, Change, PendingInv, PendingHoldsRound, Pending
<1>5. /\ control'.memory = status /\ control'.round = control.round
      /\ control'.task = control.task /\ control'.state = control.state
  BY <1>2, <1>4 DEF Control
<1>6. PendingHoldsRound' /\ \A o, u \in OpIds : Pending(o)' /\ Pending(u)' => o = u
  BY <1>3, <1>4, <1>5 DEF PendingHoldsRound, Pending
<1>7. NoMemoryYet' => control'.memory = "null"
  <2>1. ~NoMemoryYet
    BY <1>4 DEF PendingInv, MemoryPending
  <2>2. QED  BY <1>5, <2>1 DEF NoMemoryYet
<1>8. ASSUME NEW d \in Calls, call'[d].pc = "accepted" PROVE MayPublish(d)'
  <2>1. /\ call'[c].pc = pc /\ \A u \in Calls : Id(u)' = Id(u)
        /\ \A u \in Calls : u # c => call'[u] = call[u]
    <3>1. call \in [Calls -> CallRow]
      BY <1>2 DEF TypeInv, TypeOK, CallRow
    <3>2. QED  BY <1>1, <3>1 DEF Goto, CallRow, Id
  <2>2. \A u \in Calls : u # c /\ call[u].pc = "accepted" => Id(u) = Id(c)
    BY <1>3, CallType, <1>2 DEF PendingInv, MayPublish, Known, Pending, MemoryPending
  <2>3. \A u \in Calls : u # c => call'[u].pc # "accepted"
    <3>1. CASE ~Publishing(Id(c))
      BY <2>1, <2>2, <3>1 DEF Publishing
    <3>2. CASE call[c].pc = "accepted"
      BY <2>1, <2>2, <3>2 DEF PendingInv, MayPublish
    <3>3. QED  BY <1>1, <3>1, <3>2
  <2>4. d = c /\ status = "accepted"
    BY <1>1, <1>8, <2>1, <2>3
  <2>5. QED  BY <1>3, <2>1, <2>3, <2>4 DEF MayPublish, Known
<1>9. QED
  BY <1>5, <1>6, <1>7, <1>8 DEF PendingInv

LEMMA CommitKeepsPending ==
  ASSUME LockInv, PendingInv, NEW c \in Calls, Commit(c)
  PROVE  PendingInv'
<1> DEFINE action == Asked(c).action
<1>0. PICK o \in OpIds : o = Id(c)
  BY CallType DEF Commit, LockInv, TypeInv
<1>1. /\ TypeInv /\ action \in Actions /\ ~Known(c)
      /\ StillAllowed(action) /\ control \in Control /\ control' \in Results(o, Asked(c))
      /\ operations \in [OpIds -> Operation \cup {NoOperation}]
  BY <1>0, CallType DEF Commit, LockInv, Holding, HoldsLock, TypeInv, TypeOK, Input
<1>2. /\ operations'[o].done /\ operations'[o].round = control.round
      /\ operations'[o].memory = IF action \in Publishers THEN control'.memory ELSE "null"
      /\ \A u \in OpIds : u # o => operations'[u] = operations[u]
      /\ ~Pending(o)
  BY <1>0, <1>1 DEF Commit, Pending, Known
<1>3. /\ \A d \in Calls : call'[d].pc = "accepted" => call'[d] = call[d] /\ d # c
      /\ \A d \in Calls : d # c => Id(d)' = Id(d)
  <2>1. call'[c].pc = AfterCommit(c) /\ \A d \in Calls : d # c => call'[d] = call[d]
    BY <1>1, CallMoves DEF Commit
  <2>2. AfterCommit(c) # "accepted"
    BY DEF AfterCommit
  <2>3. QED  BY <2>1, <2>2 DEF Id
<1>4. /\ control'.memory \in {control.memory, "null", "none", "proposed"}
      /\ control.memory \in MemoryPending =>
           control'.memory = control.memory /\ control'.round = control.round
             /\ action \notin Publishers
      /\ NoMemoryYet' => control'.memory = "null"
      /\ control'.state = "WAITING_FOR_EVALUATION" => control'.task = "COLLECTED"
  <2>1. CASE action = "submit-plan"
    BY <1>1, <2>1
    DEF Results, Control, StillAllowed, RequireState, PendingInv, NoMemoryYet, Publishers
  <2>2. CASE action = "execute"
    <3>1. control.state = "READY_TO_EXECUTE" /\ control.memory = "null"
      BY <1>1, <2>2 DEF StillAllowed, RequireState, PendingInv, NoMemoryYet
    <3>2. /\ control'.memory = control.memory /\ control'.round = control.round
          /\ control'.state \in {"READY_TO_EXECUTE", "FAILED"}
      BY <1>1, <2>2, <3>1 DEF Results, Control
    <3>3. QED  BY <2>2, <3>1, <3>2 DEF Publishers
  <2>3. CASE action = "collect"
    <3>1. control.memory = "null"
      BY <1>1, <2>3 DEF StillAllowed, PendingInv, NoMemoryYet
    <3>2. /\ control'.memory = control.memory /\ control'.round = control.round
          /\ control'.task = "COLLECTED"
      BY <1>1, <2>3 DEF Results, Control
    <3>3. QED  BY <2>3, <3>1, <3>2 DEF Publishers
  <2>4. CASE action = "submit-evaluation"
    <3>1. control.memory = "null" /\ control.task = "COLLECTED"
      BY <1>1, <2>4 DEF StillAllowed, RequireState, PendingInv, NoMemoryYet
    <3>2. /\ control'.memory \in {"none", "proposed"} /\ control'.state = "READY_TO_FINISH"
          /\ control'.task = control.task
      BY <1>1, <2>4 DEF Results, Control
    <3>3. QED  BY <3>1, <3>2 DEF MemoryPending, NoMemoryYet, LiveTask
  <2>5. CASE action = "memory-revise"
    <3>1. /\ control.memory \in {"failed", "rejected"} /\ control.state = "READY_TO_FINISH"
          /\ ~NoMemoryYet
      BY <1>1, <2>5 DEF StillAllowed, RequireState, PendingInv
    <3>2. /\ control'.memory = "proposed" /\ control'.state = control.state
          /\ control'.task = control.task
      BY <1>1, <2>5 DEF Results, Control
    <3>3. QED  BY <3>1, <3>2 DEF MemoryPending, NoMemoryYet
  <2>6. CASE action = "finish-continue"
    <3>1. control.memory \notin MemoryPending
      BY <1>1, <2>6 DEF StillAllowed
    <3>2. control' = NewRound(control.round + 1)
      BY <1>1, <2>6 DEF Results
    <3>3. QED  BY <3>1, <3>2 DEF NewRound
  <2>7. CASE action = "finish-complete"
    BY <1>1, <2>7 DEF Results, Control, PendingInv, NoMemoryYet, Publishers
  <2>8. CASE action = "stop"
    <3>1. /\ control'.memory = control.memory /\ control'.round = control.round
          /\ control'.state \in {control.state, "STOPPED"}
          /\ control'.task = control.task \/
               (control.task \in LiveTask /\ control'.task = "STOP_REQUESTED")
      BY <1>1, <2>8 DEF Results, AfterStop, Control
    <3>2. QED
      BY <2>8, <3>1 DEF PendingInv, NoMemoryYet, Publishers, LiveTask
  <2>9. QED
    BY <1>1, <2>1, <2>2, <2>3, <2>4, <2>5, <2>6, <2>7, <2>8 DEF Actions
<1>5. \A u \in OpIds : Pending(u) => control.memory \in MemoryPending
  BY DEF PendingInv, PendingHoldsRound, Pending
<1>6. \A u \in OpIds : u # o => (Pending(u)' <=> Pending(u))
  BY <1>2 DEF Pending
<1>7. ASSUME Pending(o)', NEW u \in OpIds PROVE ~Pending(u)
  <2>1. operations'[o].memory \in MemoryPending
    BY <1>7 DEF Pending
  <2>2. "null" \notin MemoryPending
    BY DEF MemoryPending
  <2>3. action \in Publishers
    BY <1>2, <2>1, <2>2
  <2>4. control.memory \notin MemoryPending
    BY <1>4, <2>3
  <2>5. QED  BY <1>5, <2>4
<1>8. PendingHoldsRound'
  <2>1. SUFFICES ASSUME NEW u \in OpIds, Pending(u)'
                 PROVE  operations'[u].round = control'.round
                          /\ operations'[u].memory = control'.memory
    BY DEF PendingHoldsRound, Pending
  <2>2. CASE u = o
    <3>1. action \in {"submit-evaluation", "memory-revise"}
      BY <1>2, <2>1, <2>2 DEF Pending, MemoryPending, Publishers
    <3>2. control'.round = control.round
      BY <1>1, <3>1 DEF Results, Control
    <3>3. QED  BY <1>2, <2>2, <3>1, <3>2 DEF Publishers
  <2>3. CASE u # o
    BY <1>2, <1>4, <1>5, <1>6, <2>1, <2>3 DEF PendingInv, PendingHoldsRound, Pending
  <2>4. QED  BY <2>2, <2>3
<1>9. \A u, v \in OpIds : Pending(u)' /\ Pending(v)' => u = v
  <2>1. SUFFICES ASSUME NEW u \in OpIds, NEW v \in OpIds, Pending(u)', Pending(v)'
                 PROVE  u = v
    OBVIOUS
  <2>2. CASE u # o /\ v # o
    <3>1. Pending(u) /\ Pending(v)
      BY <1>6, <2>1, <2>2
    <3>2. QED  BY <3>1 DEF PendingInv
  <2>3. CASE u = o /\ v # o
    <3>1. Pending(o)' /\ Pending(v)
      BY <1>6, <2>1, <2>3
    <3>2. QED  BY <1>7, <3>1
  <2>4. CASE u # o /\ v = o
    <3>1. Pending(o)' /\ Pending(u)
      BY <1>6, <2>1, <2>4
    <3>2. QED  BY <1>7, <3>1
  <2>5. QED  BY <2>2, <2>3, <2>4
<1>10. ASSUME NEW d \in Calls, call'[d].pc = "accepted" PROVE MayPublish(d)'
  <2>1. /\ call[d].pc = "accepted" /\ d # c /\ MayPublish(d) /\ Id(d) \in OpIds
        /\ Id(d) # o /\ Id(d)' = Id(d)
    BY <1>0, <1>1, <1>3, <1>10, CallType DEF PendingInv, MayPublish, Known
  <2>2. \A u \in Calls : call'[u].pc = "accepted" => call[u].pc = "accepted" /\ Id(u)' = Id(u)
    BY <1>3
  <2>3. QED  BY <1>2, <2>1, <2>2 DEF MayPublish, Known
<1>11. QED  BY <1>4, <1>8, <1>9, <1>10 DEF PendingInv

LEMMA PendingStep ==
  ASSUME LockInv, LaunchInv, PendingInv, [Next]_vars
  PROVE  PendingInv'
<1>1. control \in Control /\ TypeInv
  BY DEF LockInv, TypeInv, TypeOK
<1>2. ASSUME NEW c \in Calls, Save(c) PROVE PendingInv'
  <2>1. \A d \in Calls : call'[d].pc = "accepted" => call'[d] = call[d]
    BY <1>1, <1>2, CallMoves DEF Save
  <2>2. UNCHANGED <<operations, control>>
    BY <1>2 DEF Save
  <2>3. PendingHoldsRound' /\ \A o, u \in OpIds : Pending(o)' /\ Pending(u)' => o = u
    BY <2>2 DEF PendingInv, PendingHoldsRound, Pending
  <2>4. ASSUME NEW d \in Calls, call'[d].pc = "accepted" PROVE MayPublish(d)'
    BY <2>1, <2>2, <2>4 DEF PendingInv, MayPublish, Known, Id
  <2>5. QED  BY <2>2, <2>3, <2>4 DEF PendingInv, NoMemoryYet
<1>3. CASE TaskMoves
  <2>1. /\ control'.memory = control.memory /\ control'.round = control.round
        /\ control'.state \in {control.state, "EXECUTING"} /\ NoMemoryYet
    BY <1>1, <1>3 DEF TaskMoves, Control, NoMemoryYet
  <2>2. control'.state # "WAITING_FOR_EVALUATION"
    BY <1>3, <2>1 DEF TaskMoves, PendingInv, LiveTask
  <2>3. QED  BY <1>3, <2>1, <2>2, KeptKeepsPending DEF TaskMoves
<1>4. CASE ControlKept
  <2>1. NoMemoryYet' => NoMemoryYet
    BY <1>4 DEF ControlKept, NoMemoryYet
  <2>2. QED  BY <1>4, <2>1, KeptKeepsPending DEF ControlKept, PendingInv
<1>5. QED
  BY <1>2, <1>3, <1>4, ControlSteps, CommitKeepsPending, PublishKeepsPending

(* A publication in progress belongs to the round that is active, and the  *)
(* round knows its state: finish-round cannot overtake it, nor can a       *)
(* revision or a second call that publishes for the same id                *)
(* (commit_pending, _record_status).                                       *)
THEOREM PublicationHoldsRound == Spec => []PendingHoldsRound
<1>1. Init => LockInv /\ LaunchInv /\ PendingInv
  <2>1. ASSUME Init PROVE LaunchInv /\ PendingInv
    <3>1. /\ \A c \in Calls : call[c].pc = "idle"
          /\ \A o \in OpIds : ~operations[o].done /\ launches[o] = 0
          /\ control = NewRound(1)
      BY <2>1 DEF Init, NoCall, NoOperation
    <3>2. LaunchInv
      BY <3>1 DEF LaunchInv, LaunchedOnce
    <3>3. PendingInv
      BY <3>1 DEF PendingInv, PendingHoldsRound, Pending, NewRound
    <3>4. QED  BY <3>2, <3>3
  <2>2. QED  BY <2>1, InitLock
<1>2. (LockInv /\ LaunchInv /\ PendingInv) /\ [Next]_vars
        => (LockInv /\ LaunchInv /\ PendingInv)'
  BY LockStep, LaunchSteps, NoLaunchKeepsInv, CommitKeepsLaunch, LaunchKeepsLaunch, PendingStep
  DEF LockInv
<1>3. LockInv /\ LaunchInv /\ PendingInv => PendingHoldsRound
  BY DEF PendingInv
<1>4. QED  BY <1>1, <1>2, <1>3, PTL DEF Spec

=============================================================================

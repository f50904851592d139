----------------------------- MODULE Operations -----------------------------
(***************************************************************************)
(* The protocol every mutation of a Session goes through (begin, receipt,  *)
(* stop_session): an operation id that is looked up first, a state version *)
(* that is compared next, a transaction that changes the state and stores  *)
(* the receipt, and what happens after the commit: the launch of a         *)
(* supervisor, the publication of memory, the flush of the audit journal.  *)
(*                                                                         *)
(* A call is one command line process.  It may die anywhere, its answer    *)
(* may be lost, and the same request may be sent again, also while it      *)
(* still runs.  What the operations mean for tasks and ledgers is the      *)
(* subject of module Session; here the state of the run is reduced to what *)
(* decides whether an operation is allowed and what it leaves to do.       *)
(***************************************************************************)
EXTENDS AuditJournal, FiniteSets

CONSTANTS
  Calls,       (* command line processes                                     *)
  Supervisor,  (* the detached process a committed execute launches          *)
  OpIds,       (* operation ids the Agent uses                               *)
  Plans,       (* contents of plan documents                                 *)
  NoPlan,      (* no such file, or SQL NULL                                  *)
  Wants,       (* what the Agent may ask for with an id, see Request         *)
  MaxRounds,   (* runs.max_rounds                                            *)
  MaxFaults    (* bound: how many faults, failures and timeouts may happen    *)

(* The input of a request, which its input_sha256 identifies: an action and *)
(* the plan it carries (submit-plan) or nothing.                            *)
Actions == {"submit-plan", "execute", "collect", "submit-evaluation", "memory-revise",
            "finish-continue", "finish-complete", "stop"}
Publishers == {"submit-evaluation", "memory-revise"}
Input   == [action : Actions, plan : Plans \cup {NoPlan}]

ASSUME OperationsAssumption ==
  /\ Process = Calls \cup {Supervisor} /\ Supervisor \notin Calls
  /\ Nobody \notin Process
  /\ NoPlan \notin Plans
  /\ Wants \in [OpIds -> SUBSET Input]
  /\ MaxRounds \in Nat \ {0} /\ MaxFaults \in Nat

VARIABLES
  version,     (* runs.state_version                                         *)
  control,     (* the columns of runs, rounds and tasks operations look at   *)
  operations,  (* table operations                                           *)
  planFile,    (* the file plan.json of each round                           *)
  launches,    (* how often the supervisor of an operation was launched      *)
  supervisor,  (* the process of the newest task                             *)
  call,        (* the local state of each call                               *)
  faults       (* how many of them have happened                             *)

stateVars == <<version, control, operations, planFile, launches>>
vars == <<auditVars, stateVars, supervisor, call, faults>>

Rounds == 1..MaxRounds
Request == UNION {{[id |-> o, input |-> i] : i \in Wants[o]} : o \in OpIds}

LiveTask      == {"STARTING", "RUNNING", "STOP_REQUESTED"}
TaskStates    == LiveTask \cup {"none", "EXITED", "COLLECTED"}
RunStates     == {"RUNNING", "STOPPING", "STOPPED", "COMPLETED", "FAILED"}
RoundStates   == {"WAITING_FOR_PLAN", "READY_TO_EXECUTE", "EXECUTING", "WAITING_FOR_EVALUATION",
                  "READY_TO_FINISH", "ROUND_COMPLETED", "STOPPED", "FAILED"}
MemoryPending == {"proposed", "accepted"}
MemoryStates  == MemoryPending \cup {"null", "none", "published", "rejected", "failed"}

Control ==
  [run    : RunStates,
   round  : Rounds,
   state  : RoundStates,
   plan   : Plans \cup {NoPlan},                    (* rounds.normalized_plan *)
   task   : TaskStates,                             (* of rounds.task_id      *)
   owner  : OpIds \cup {Nobody},             (* the operation that created it *)
   effect : BOOLEAN,                             (* external_effect_started  *)
   left   : BOOLEAN,             (* an earlier task was never collected      *)
   memory : MemoryStates]

NewRound(r) ==
  [run |-> "RUNNING", round |-> r, state |-> "WAITING_FOR_PLAN", plan |-> NoPlan,
   task |-> "none", owner |-> Nobody, effect |-> FALSE, left |-> FALSE, memory |-> "null"]

(* A row: its input, the version its receipt was first stored with, its    *)
(* round, and what the receipt and memory_writes say about memory.         *)
NoOperation == [done |-> FALSE]
Operation == [done : {TRUE}, input : Input, first : Nat, round : Rounds,
              memory : MemoryStates]

Pcs == {"idle", "flush first", "begin", "saved", "launch", "publish", "accepted",
        "flush", "answer"}
NoCall == [pc |-> "idle", req |-> Nobody, expected |-> 0, result |-> "none"]

TypeOK ==
  /\ AuditTypeOK
  /\ version \in Nat \ {0}
  /\ control \in Control
  /\ operations \in [OpIds -> Operation \cup {NoOperation}]
  /\ planFile \in [Rounds -> Plans \cup {NoPlan}]
  /\ launches \in [OpIds -> Nat]
  /\ supervisor \in {"none", "alive", "flushing", "dead"}
  /\ call \in [Calls -> [pc : Pcs, req : Request \cup {Nobody}, expected : Nat, result : {"none", "receipt"}]]
  /\ faults \in 0..MaxFaults

Init ==
  /\ AuditInit
  /\ version = 1
  /\ control = NewRound(1)
  /\ operations = [o \in OpIds |-> NoOperation]
  /\ planFile = [r \in Rounds |-> NoPlan]
  /\ launches = [o \in OpIds |-> 0]
  /\ supervisor = "none"
  /\ call = [c \in Calls |-> NoCall]
  /\ faults = 0

-----------------------------------------------------------------------------
(* Control state: which operation is allowed when, and what it changes     *)

RequireState(state) == control.run = "RUNNING" /\ control.state = state

(* A supervisor that is dead, or was never launched, leaves a task that    *)
(* recover_dead_task settles as UNKNOWN, in the transaction of a collect.  *)
Recoverable == control.task \in LiveTask /\ supervisor \in {"none", "dead"}

(* Fault: a plan may be replaced until the round is executed. *)
PlanAllowedLate == control.run = "RUNNING" /\ control.task = "none"

PlanAllowed == RequireState("WAITING_FOR_PLAN")

(* Fault: a publication in progress does not hold the round back. *)
FinishAllowedAnyway == RequireState("READY_TO_FINISH")

FinishAllowed == RequireState("READY_TO_FINISH") /\ control.memory \notin MemoryPending

Allowed(action) ==
  CASE action = "submit-plan" -> PlanAllowed
    [] action = "execute" -> /\ RequireState("READY_TO_EXECUTE")
                             /\ control.task \notin LiveTask /\ ~control.effect
    [] action = "collect" -> control.task = "EXITED" \/ Recoverable
    [] action = "submit-evaluation" -> RequireState("WAITING_FOR_EVALUATION")
    [] action = "memory-revise" -> /\ RequireState("READY_TO_FINISH")
                                   /\ control.memory \in {"failed", "rejected"}
    [] action = "finish-continue" -> FinishAllowed /\ control.round < MaxRounds
    [] action = "finish-complete" -> FinishAllowed
    [] action = "stop" -> control.run = "RUNNING"

(* collect is answered at once while the task lives, without a receipt. *)
NotYet(action) == action = "collect" /\ control.task \in LiveTask

(* Fault: a round whose task had no effect keeps the state of the task. *)
AfterCollectCopied ==
  IF control.run = "STOPPING" THEN "STOPPED"
  ELSE IF control.effect THEN "WAITING_FOR_EVALUATION" ELSE control.task

AfterCollect ==
  IF control.run = "STOPPING" THEN "STOPPED"
  ELSE IF control.effect THEN "WAITING_FOR_EVALUATION" ELSE "READY_TO_EXECUTE"

AfterStop ==
  IF control.left \/ control.task \notin {"none", "COLLECTED"}
  THEN [control EXCEPT !.run = "STOPPING",
                       !.task = IF @ \in LiveTask THEN "STOP_REQUESTED" ELSE @]
  ELSE [control EXCEPT !.run = "STOPPED", !.state = "STOPPED"]

(* The states an operation may leave: execute finds its seeds and a large  *)
(* enough budget or ends the run, an evaluation proposes memory or not.    *)
Results(o, i) ==
  CASE i.action = "submit-plan" ->
         {[control EXCEPT !.state = "READY_TO_EXECUTE", !.plan = i.plan]}
    [] i.action = "execute" ->
         {[control EXCEPT !.task = "STARTING", !.owner = o, !.effect = FALSE,
                          !.left = @ \/ control.task = "EXITED"],
          [control EXCEPT !.run = "FAILED", !.state = "FAILED"]}
    [] i.action = "collect" ->
         {[control EXCEPT !.task = "COLLECTED", !.state = AfterCollect,
                          !.run = IF @ = "STOPPING" THEN "STOPPED" ELSE @]}
    [] i.action = "submit-evaluation" ->
         {[control EXCEPT !.state = "READY_TO_FINISH", !.memory = m] : m \in {"none", "proposed"}}
    [] i.action = "memory-revise" -> {[control EXCEPT !.memory = "proposed"]}
    [] i.action = "finish-continue" -> {NewRound(control.round + 1)}
    [] i.action = "finish-complete" ->
         {[control EXCEPT !.state = "ROUND_COMPLETED", !.run = "COMPLETED"]}
    [] i.action = "stop" -> {AfterStop}

-----------------------------------------------------------------------------
(* Calls                                                                   *)

Id(c)    == call[c].req.id
Asked(c) == call[c].req.input
Known(c) == operations[Id(c)].done

(* Bound: MaxFaults. *)
Fault == faults < MaxFaults /\ faults' = faults + 1

Goto(c, pc) == call' = [call EXCEPT ![c].pc = pc]
Return(c) == call' = [call EXCEPT ![c] = NoCall]
(* begin or receipt has given the call its result; its version is used up. *)
GotoWithResult(c, pc) ==
  call' = [call EXCEPT ![c] = [@ EXCEPT !.pc = pc, !.expected = 0, !.result = "receipt"]]

(* The Agent names the version it was told last.  It is an old one when    *)
(* something else happens between this step and the begin of the call.     *)
Start(c, r) ==
  /\ call[c].pc = "idle"
  /\ call' = [call EXCEPT ![c] =
       [pc |-> IF r.input.action = "stop" THEN "flush first" ELSE "begin",
        req |-> r, expected |-> version, result |-> "none"]]
  /\ UNCHANGED <<auditVars, stateVars, supervisor, faults>>

(* Fault: a replayed execute launches its task again. *)
ReplayAll(action) ==
  CASE action = "stop" -> "answer"
    [] action \in Publishers -> "publish"
    [] action = "execute" -> "launch"
    [] OTHER -> "flush"

(* Nothing is done again but what a publication has left to do; a replayed *)
(* stop returns at once.                                                   *)
ReplayFrom(action) ==
  CASE action = "stop" -> "answer"
    [] action \in Publishers -> "publish"
    [] OTHER -> "flush"

(* Fault: the receipt is found by the id alone. *)
SameInputAlways(c) == TRUE

SameInput(c) == operations[Id(c)].input = Asked(c)

(* Fault: any version will do. *)
VersionIgnored(c) == TRUE

VersionMatches(c) == call[c].expected = version

(* begin: the id comes first, then the version, then the state. *)
Replay(c) ==
  /\ call[c].pc = "begin" /\ LockFree
  /\ Known(c) /\ SameInput(c)
  /\ GotoWithResult(c, ReplayFrom(Asked(c).action))
  /\ UNCHANGED <<auditVars, stateVars, supervisor, faults>>

Refuse(c) ==
  /\ call[c].pc = "begin" /\ LockFree
  /\ \/ Known(c) /\ ~SameInput(c)
     \/ ~Known(c) /\ ~VersionMatches(c)
     \/ ~Known(c) /\ ~Allowed(Asked(c).action) /\ ~NotYet(Asked(c).action)
  /\ Return(c)
  /\ UNCHANGED <<auditVars, stateVars, supervisor, faults>>

AnswerNotYet(c) ==
  /\ call[c].pc = "begin" /\ LockFree
  /\ ~Known(c) /\ VersionMatches(c) /\ NotYet(Asked(c).action)
  /\ Return(c)
  /\ UNCHANGED <<auditVars, stateVars, supervisor, faults>>

(* The transaction, up to its COMMIT: files are replaced, rows are not yet *)
(* to be seen.                                                             *)
Save(c) ==
  /\ call[c].pc = "begin" /\ LockFree
  /\ ~Known(c) /\ VersionMatches(c) /\ Allowed(Asked(c).action)
  /\ writer' = c
  /\ planFile' = IF Asked(c).action = "submit-plan"
                 THEN [planFile EXCEPT ![control.round] = Asked(c).plan] ELSE planFile
  /\ Goto(c, "saved")
  /\ UNCHANGED <<outbox, flushed, journal, flush, version, control, operations, launches,
                 supervisor, faults>>

(* What is left to do after the commit. *)
AfterCommit(c) ==
  CASE Asked(c).action = "execute" /\ control'.run = "RUNNING" -> "launch"
    [] Asked(c).action \in Publishers -> "publish"
    [] OTHER -> "flush"

(* Fault: the receipt is stored without its event. *)
QueueForgotten(v) == UNCHANGED outbox

(* receipt: the version, the operation and its events, in one transaction. *)
QueueReceipt(v) == Queue(v)

Commit(c) ==
  /\ call[c].pc = "saved"
  /\ control' \in Results(Id(c), Asked(c))
  /\ version' = version + 1
  /\ operations' = [operations EXCEPT ![Id(c)] =
       [done |-> TRUE, input |-> Asked(c), first |-> version + 1, round |-> control.round,
        memory |-> IF Asked(c).action \in Publishers THEN control'.memory ELSE "null"]]
  /\ QueueReceipt(version + 1)
  /\ writer' = Nobody
  /\ GotoWithResult(c, AfterCommit(c))
  /\ UNCHANGED <<flushed, journal, flush, planFile, launches, supervisor, faults>>

(* A document turns out invalid, or a file cannot be written: roll back.   *)
Abort(c) ==
  /\ Fault
  /\ call[c].pc = "saved"
  /\ writer' = Nobody
  /\ Return(c)
  /\ UNCHANGED <<outbox, flushed, journal, flush, stateVars, supervisor>>

(* The database stays locked for five seconds, or the frozen files do not  *)
(* verify.                                                                 *)
CallFails(c) ==
  /\ Fault
  /\ call[c].pc \in {"begin", "publish", "accepted"}
  /\ Return(c)
  /\ UNCHANGED <<auditVars, stateVars, supervisor>>

-----------------------------------------------------------------------------
(* execute, after its commit                                               *)

(* Popen.  A supervisor whose task was recovered and replaced meanwhile    *)
(* finds nothing to own and exits.  (One supervisor at a time: the next    *)
(* one is launched when the last flush of the previous one has ended.)     *)
Launch(c) ==
  /\ call[c].pc = "launch" /\ supervisor # "flushing"
  /\ launches' = [launches EXCEPT ![Id(c)] = @ + 1]
  /\ supervisor' = IF control.owner = Id(c) THEN "alive" ELSE supervisor
  /\ Goto(c, "flush")
  /\ UNCHANGED <<auditVars, version, control, operations, planFile, faults>>

(* A transaction outside the protocol: state, version and event. *)
Change(new) ==
  /\ LockFree
  /\ control' = new
  /\ version' = version + 1
  /\ Queue(version + 1)
  /\ UNCHANGED <<writer, flushed, journal, flush>>

(* Popen fails: mark_terminal, unless the task was recovered meanwhile.    *)
(* The flush of mark_terminal and that of execute follow one another.      *)
LaunchFails(c) ==
  /\ Fault
  /\ call[c].pc = "launch"
  /\ IF control.owner = Id(c) /\ control.task \in LiveTask
     THEN Change([control EXCEPT !.task = "EXITED"])
     ELSE UNCHANGED <<auditVars, control, version>>
  /\ Goto(c, "flush")
  /\ UNCHANGED <<operations, planFile, launches, supervisor>>

-----------------------------------------------------------------------------
(* submit-evaluation and memory-revise, after their commit: commit_pending *)

Publishing(o) == \E d \in Calls : call[d].pc = "accepted" /\ Id(d) = o

(* _record_status: the row, the round, the receipt and an event.           *)
Record(o, status) ==
  /\ Change(IF operations[o].round = control.round
            THEN [control EXCEPT !.memory = status] ELSE control)
  /\ operations' = [operations EXCEPT ![o].memory = status]
  /\ UNCHANGED <<planFile, launches, supervisor, faults>>

(* Another call holds the lock of this id, or nothing is pending. *)
PublishSkips(c) ==
  /\ call[c].pc = "publish"
  /\ Publishing(Id(c)) \/ operations[Id(c)].memory \notin MemoryPending
  /\ Goto(c, "flush")
  /\ UNCHANGED <<auditVars, stateVars, supervisor, faults>>

PublishDecides(c, status) ==
  /\ call[c].pc = "publish" /\ ~Publishing(Id(c))
  /\ operations[Id(c)].memory \in MemoryPending
  /\ status \in {"accepted", "rejected"}
  /\ Record(Id(c), status)
  /\ Goto(c, IF status = "accepted" THEN "accepted" ELSE "flush")

PublishEnds(c, status) ==
  /\ call[c].pc = "accepted"
  /\ status \in {"published", "failed"}
  /\ Record(Id(c), status)
  /\ Goto(c, "flush")

-----------------------------------------------------------------------------
(* The flush a call ends with, and a stop begins with                      *)

AfterFlush(c) == IF call[c].pc = "flush" THEN Return(c) ELSE Goto(c, "begin")

FlushOn(c) ==
  /\ call[c].pc \in {"flush first", "flush"}
  /\ FlushSelect(c) \/ FlushReplace(c)
  /\ UNCHANGED <<stateVars, supervisor, call, faults>>

FlushEnds(c) ==
  /\ call[c].pc \in {"flush first", "flush"}
  /\ \/ FlushAcknowledge(c) /\ UNCHANGED faults
     \/ FlushFails(c) /\ Fault
  /\ AfterFlush(c)
  /\ UNCHANGED <<stateVars, supervisor>>

(* BEGIN IMMEDIATE gives up after five seconds. *)
FlushGivesUp(c) ==
  /\ Fault
  /\ call[c].pc \in {"flush first", "flush"} /\ flush[c].at = "no" /\ ~LockFree
  /\ AfterFlush(c)
  /\ UNCHANGED <<auditVars, stateVars, supervisor>>

(* A replayed stop returns the receipt it has found. *)
Answer(c) ==
  /\ call[c].pc = "answer"
  /\ Return(c)
  /\ UNCHANGED <<auditVars, stateVars, supervisor, faults>>

CallDies(c) ==
  /\ Fault
  /\ call[c].pc # "idle"
  /\ call' = [call EXCEPT ![c] = NoCall]
  /\ Vanish(c)
  /\ UNCHANGED <<stateVars, supervisor>>

-----------------------------------------------------------------------------
(* The processes of the task, as far as they change the version            *)

SupervisorOwns ==
  /\ supervisor = "alive" /\ control.task = "STARTING"
  /\ Change([control EXCEPT !.task = "RUNNING"])
  /\ UNCHANGED <<operations, planFile, launches, supervisor, call, faults>>

(* mark_effect, by the runner, with the first request or evaluation. *)
EffectStarts ==
  /\ supervisor = "alive" /\ control.task = "RUNNING" /\ ~control.effect
  /\ Change([control EXCEPT !.effect = TRUE, !.state = "EXECUTING"])
  /\ UNCHANGED <<operations, planFile, launches, supervisor, call, faults>>

(* mark_terminal, and its flush. *)
SupervisorEnds ==
  /\ supervisor = "alive"
  /\ IF control.task \in LiveTask
     THEN /\ Change([control EXCEPT !.task = "EXITED"])
          /\ supervisor' = "flushing"
     ELSE /\ supervisor' = "dead"
          /\ UNCHANGED <<auditVars, control, version>>
  /\ UNCHANGED <<operations, planFile, launches, call, faults>>

SupervisorFlushes ==
  /\ supervisor = "flushing"
  /\ \/ (FlushSelect(Supervisor) \/ FlushReplace(Supervisor)) /\ UNCHANGED <<supervisor, faults>>
     \/ FlushAcknowledge(Supervisor) /\ supervisor' = "dead" /\ UNCHANGED faults
     \/ FlushFails(Supervisor) /\ supervisor' = "dead" /\ Fault
  /\ UNCHANGED <<stateVars, call>>

SupervisorDies ==
  /\ Fault
  /\ supervisor \in {"alive", "flushing"}
  /\ supervisor' = "dead"
  /\ Vanish(Supervisor)
  /\ UNCHANGED <<stateVars, call>>

-----------------------------------------------------------------------------
CallStep(c) ==
  \/ Replay(c) \/ Refuse(c) \/ AnswerNotYet(c) \/ Save(c) \/ Commit(c) \/ Abort(c)
  \/ CallFails(c)
  \/ Launch(c) \/ LaunchFails(c)
  \/ PublishSkips(c)
  \/ \E status \in {"accepted", "rejected"} : PublishDecides(c, status)
  \/ \E status \in {"published", "failed"} : PublishEnds(c, status)
  \/ FlushOn(c) \/ FlushEnds(c) \/ FlushGivesUp(c)
  \/ Answer(c)

SupervisorStep == SupervisorOwns \/ EffectStarts \/ SupervisorEnds \/ SupervisorFlushes

Next ==
  \/ \E c \in Calls : CallStep(c) \/ CallDies(c) \/ \E r \in Request : Start(c, r)
  \/ SupervisorStep \/ SupervisorDies

Spec == Init /\ [][Next]_vars

(* Every process is scheduled, and one that waits for SQLite's lock gets   *)
(* it sooner or later: a transaction is short, and its holder is scheduled *)
(* or dead.                                                                *)
FairProcesses ==
  /\ \A c \in Calls : SF_vars(CallStep(c))
  /\ SF_vars(SupervisorStep)

(* An Agent that goes on repeating some operation that was done. *)
RepeatDone ==
  \E c \in Calls, r \in Request :
    operations[r.id].done /\ operations[r.id].input = r.input /\ Start(c, r)

RepeatingSpec == Spec /\ FairProcesses /\ SF_vars(RepeatDone)

-----------------------------------------------------------------------------
(* I5 of docs/protocol.md: replaying an operation has no second external   *)
(* effect.  A supervisor is launched at most once for an id, and only      *)
(* after the execute that owns the id was committed.                       *)
LaunchedOnce ==
  \A o \in OpIds :
    /\ launches[o] <= 1
    /\ launches[o] = 1 => operations[o].done /\ operations[o].input.action = "execute"

(* The plan a round was accepted with is the plan on disk: neither a later *)
(* submission, nor one that dies between its files and its COMMIT, may     *)
(* replace plan.json, or every execute fails on its hash.                  *)
AcceptedPlanIntact == control.plan # NoPlan => planFile[control.round] = control.plan

(* The outbox is complete and in order: each version that was ever         *)
(* current, by whichever process, queued its events exactly once.          *)
EveryVersionIsAudited == outbox = [v \in 1..version |-> v]

(* finish-round waits for a publication in progress, so that whatever      *)
(* commit_pending still records is recorded for the round it belongs to.   *)
PendingHoldsRound ==
  \A o \in OpIds :
    operations[o].done => (operations[o].memory \in MemoryPending =>
      operations[o].round = control.round /\ operations[o].memory = control.memory)

(* The contract, with a row of the operations table as what was applied.   *)
Applied == [o \in OpIds |-> IF operations[o].done THEN operations[o].input ELSE Nobody]
Asking  == [c \in Calls |->
  IF call[c].pc = "idle"
  THEN [id |-> Nobody, input |-> Nobody, expected |-> 0, result |-> "none"]
  ELSE [id |-> Id(c), input |-> Asked(c), expected |-> call[c].expected,
        result |-> call[c].result]]

Contract == INSTANCE OperationsContract WITH
  Inputs <- Input, Controls <- Control, Nothing <- Nobody, InitialControl <- NewRound(1),
  applied <- Applied, asked <- Asking

(* Retries, races, crashes and lost answers included, the protocol keeps   *)
(* what the Agent is promised (begin, receipt, stop_session).              *)
ImplementsContract == Contract!Spec

(* No call waits for ever, whoever died with the write lock in its hands   *)
(* (_transaction, and the finally of every command).                       *)
CallsReturn == \A c \in Calls : call[c].pc # "idle" ~> call[c].pc = "idle"

(* Events left behind by a call that died between COMMIT and flush, or     *)
(* that could not write the journal, reach it with a later flush: also a   *)
(* replay ends with one.                                                   *)
AuditCatchesUp == flushed < Len(outbox) ~> flushed = Len(outbox)

(* Calls return, and what they have done becomes visible.                  *)
EveryoneGetsThere == CallsReturn /\ AuditCatchesUp

=============================================================================

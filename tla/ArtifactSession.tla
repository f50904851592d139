--------------------------- MODULE ArtifactSession ---------------------------
(***************************************************************************)
(* The state of one optics run (extensions/optics, artifact_session): the  *)
(* tables of session.sqlite, the files and processes they refer to, the    *)
(* ledger of external effects and the operations of the host Agent.        *)
(* Every operation is one transaction of store.operation: it compares the  *)
(* version it was given, so it is one atomic action, and the repetition of *)
(* an operation id only returns the stored receipt.                        *)
(***************************************************************************)
EXTENDS Integers, FiniteSets, SequencesExt

CONSTANTS
  Artifacts,      (* canonical prescriptions; 0 is the initial one           *)
  Key,            (* rank_key of each, 0 when the physics is not OK          *)
  FeasibleKey,    (* from this key on all hard constraints pass              *)
  Passes,         (* artifacts whose audit verdict is PASS                   *)
  MaxCandidates, MaxRequests, MaxOnline, MaxAudits, MaxProfiles,
  RoundLimit, MaxRounds,  (* the frozen budgets                              *)
  AuditProfiles,  (* profiles of one audit; 4 in the code                    *)
  MaxTasks        (* bound: launches                                         *)

AuditPartition == AuditProfiles * MaxAudits

ASSUME BudgetAssumption ==
  /\ {MaxCandidates, MaxRequests, MaxOnline, MaxAudits, MaxProfiles, RoundLimit, MaxRounds,
      AuditProfiles, MaxTasks} \subseteq Nat \ {0}
  /\ MaxProfiles >= AuditPartition + 1
  /\ 0 \in Artifacts /\ Key \in [Artifacts -> Nat] /\ Passes \subseteq Artifacts
  /\ FeasibleKey \in Nat

VARIABLES
  run,          (* the row of table run                                      *)
  rounds,       (* table rounds                                              *)
  tasks,        (* table tasks, with the processes of each launch            *)
  candidates,   (* table candidates, with their MODEL_REQUEST effect         *)
  assessments,  (* table assessments, with their profile effects and files   *)
  late, over    (* search_deadline and global_deadline have passed           *)

tables == <<run, rounds, tasks, candidates, assessments>>
clock == <<late, over>>

EffectStates == {"RESERVED", "STARTED", "COMPLETE", "FAILED", "UNKNOWN", "CANCELLED_NOT_STARTED"}
RoundStates == {"none", "WAITING_FOR_PLAN", "READY_TO_EXECUTE", "EXECUTING",
                "WAITING_FOR_EVALUATION", "READY_TO_FINISH", "ROUND_COMPLETED", "EVALUATE_SKIPPED"}
RunStates == {"SEARCHING", "SEARCH_SEALED", "FINALIZING", "COMPLETED", "STOPPING", "STOPPED",
              "FAILED"}
Closed == {"STOPPING", "STOPPED", "FAILED", "COMPLETED"}

(* Where a runner is, how an evaluation or a request ended, why an         *)
(* exception was raised or a search ended, and the reason of the run.      *)
Places == {"none", "begin", "baseline", "loop", "generate", "start", "call", "wait", "reply",
           "validate", "compare", "finish", "close", "audits", "select", "conclude", "assess",
           "evaluate", "await", "record", "undo", "shut", "raise", "done", "failed"}
CandidateStates == {"RESERVED", "COMPLETE", "INVALID", "UNKNOWN", "FAILED", "SKIPPED"}
Exits == {"none", "ok", "invalid", "timeout", "failed", "deadline", "refused"}
Replies == {"none", "complete", "generation_failed", "provider_failed", "unknown"}
Verdicts == Exits \cup Replies \cup CandidateStates
Causes == Exits \cup
  {"budget", "summary", "SEARCH_DEADLINE_OR_STOP", "ONLINE_OUTCOME_UNKNOWN", "PROVIDER_TERMINAL",
   "REQUEST_OUTCOME_UNKNOWN", "SEARCH_DEADLINE"}
Reasons == Causes \cup
  {"agent_complete", "search_limit", "GENERATION_BUDGET", "USER_STOP", "GLOBAL_DEADLINE",
   "WORKER_START_FAILED", "WORKER_INTERRUPTED", "UNKNOWN_SEARCH_EFFECT", "AUDIT_INTERRUPTED",
   "RECOVERY_EVIDENCE_FAILED"}

RunRow ==
  [state : RunStates, reason : Reasons, round : 1..MaxRounds, incumbent : Nat, baseline : Nat,
   sealed : BOOLEAN, queue : Seq(Nat), final : Nat, summary : {<<>>} \cup (Reasons \X Nat)]
RoundRow ==
  [state : RoundStates, budget : Nat, facts : BOOLEAN, insight : {"none", "pending", "published"}]
TaskRow ==
  [purpose : {"search", "audit"}, round : 1..MaxRounds, pid : BOOLEAN, seen : BOOLEAN,
   state : {"STARTING", "RUNNING", "COMPLETE", "FAILED", "CANCELLED", "INTERRUPTED"},
   launch : {"committed", "half", "done"}, runner : {"none", "spawned", "alive", "gone"},
   watchdog : {"none", "watching", "firing", "killed", "gone"},
   at : Places, c : Nat, a : Nat, parent : Nat, left : Nat, verdict : Verdicts, why : Causes]
CandidateRow ==
  [round : 1..MaxRounds, state : CandidateStates, effect : EffectStates,
   artifact : Artifacts \cup {-1}, reuse : Nat, owner : BOOLEAN, reply : Replies,
   provider : {"none", "spawned", "owned", "sent", "gone"}]
AssessmentRow ==
  [mode : {"online", "audit"}, of : Nat, artifact : Artifacts, order : Nat,
   state : {"RESERVED", "COMPLETE", "INVALID", "INCOMPLETE"}, effects : Seq(EffectStates),
   worker : {"none", "spawned", "owned", "computing", "written", "gone"},
   exit : Exits, terminal : BOOLEAN]

TableTypeOK ==
  /\ run \in RunRow /\ rounds \in [1..MaxRounds -> RoundRow]
  /\ tasks \in Seq(TaskRow) /\ candidates \in Seq(CandidateRow)
  /\ assessments \in Seq(AssessmentRow)
  /\ {late, over} \subseteq BOOLEAN /\ (over => late)

(* initialize.                                                             *)
TableInit ==
  /\ run = [state |-> "SEARCHING", reason |-> "none", round |-> 1, incumbent |-> 0,
            baseline |-> 0, sealed |-> FALSE, queue |-> <<>>, final |-> 0,
            summary |-> <<>>]
  /\ rounds = [r \in 1..MaxRounds |->
                 [state |-> IF r = 1 THEN "WAITING_FOR_PLAN" ELSE "none", budget |-> 0,
                  facts |-> FALSE, insight |-> "none"]]
  /\ tasks = <<>> /\ candidates = <<>> /\ assessments = <<>>
  /\ late = FALSE /\ over = FALSE

-----------------------------------------------------------------------------
(* ledger.counts: an effect that was cancelled before it started is free.  *)
Requests == Cardinality({c \in DOMAIN candidates : candidates[c].effect # "CANCELLED_NOT_STARTED"})
Profiles(mode) ==
  Cardinality({p \in (DOMAIN assessments) \X (1..AuditProfiles) :
                 /\ assessments[p[1]].mode = mode /\ p[2] \in DOMAIN assessments[p[1]].effects
                 /\ assessments[p[1]].effects[p[2]] # "CANCELLED_NOT_STARTED"})
Audits == {a \in DOMAIN assessments : assessments[a].mode = "audit"}
OnlineLimit == IF MaxOnline < MaxProfiles - AuditPartition THEN MaxOnline
               ELSE MaxProfiles - AuditPartition
Exhausted == Len(candidates) >= MaxCandidates \/ Requests >= MaxRequests

(* ledger.allowed.  Every UNKNOWN this code writes says that its process   *)
(* is confirmed dead, so the last check of the code never refuses.         *)
AllowedAlways(purpose) == TRUE (* Fault: no look at the state of the run. *)
Allowed(purpose) ==
  /\ run.state \notin Closed /\ ~over
  /\ purpose = "search" => run.state = "SEARCHING" /\ ~late
  /\ purpose = "audit" => run.state = "FINALIZING"

(* ranking: a key decides, the parent is kept on a tie.                    *)
KeyOf(a, as) == IF a = 0 THEN 0 ELSE Key[as[a].artifact]
Eligible(a, as) == KeyOf(a, as) >= FeasibleKey
AcceptsFeasible(old, new, as) == Eligible(new, as) (* Fault: feasible is enough. *)
Accepts(old, new, as) == KeyOf(new, as) > KeyOf(old, as)

(* The assessments that were recorded are numbered from 1: the last number.*)
Recorded(as) == Max({0} \cup {as[a].order : a \in DOMAIN as})
CompleteOnline(as) == {a \in DOMAIN as : as[a].mode = "online" /\ as[a].state = "COMPLETE"}

(* runtime.seal: the incumbent, then every complete online assessment in   *)
(* order, each eligible artifact once, cut to the audits of the budget.    *)
Enqueue(queue, a, as) ==
  IF Eligible(a, as) /\ \A i \in DOMAIN queue : as[queue[i]].artifact # as[a].artifact
  THEN Append(queue, a) ELSE queue
EnqueueNext(queue, n, as) ==
  LET next == {a \in CompleteOnline(as) : as[a].order = n}
  IN IF next = {} THEN queue ELSE Enqueue(queue, CHOOSE a \in next : TRUE, as)
Upto(n) == [i \in 1..n |-> i]
AuditQueue(incumbent, as) ==
  LET Add(queue, n) == EnqueueNext(queue, n, as)
      first == IF incumbent = 0 THEN <<>> ELSE Enqueue(<<>>, incumbent, as)
      all == FoldLeft(Add, first, Upto(Recorded(as)))
  IN SubSeq(all, 1, IF Len(all) < MaxAudits THEN Len(all) ELSE MaxAudits)

Seal(r, as, why) ==
  IF r.sealed THEN r
  ELSE [r EXCEPT !.state = "SEARCH_SEALED", !.reason = why, !.sealed = TRUE,
                 !.queue = AuditQueue(r.incumbent, as)]

-----------------------------------------------------------------------------
(* The operations of the Agent.                                            *)
Current == rounds[run.round]
SetRound(s) == rounds' = [rounds EXCEPT ![run.round].state = s]

PlanAffordable(n) ==
  /\ Len(candidates) + n <= MaxCandidates /\ Requests + n <= MaxRequests
  /\ Profiles("online") + n + (IF run.baseline = 0 THEN 1 ELSE 0) <= OnlineLimit

SubmitPlan ==
  /\ run.state = "SEARCHING" /\ Current.state = "WAITING_FOR_PLAN"
  /\ \E n \in 1..RoundLimit :
       /\ PlanAffordable(n)
       /\ rounds' = [rounds EXCEPT ![run.round].state = "READY_TO_EXECUTE",
                                   ![run.round].budget = n]
  /\ UNCHANGED <<run, tasks, candidates, assessments, clock>>

SubmitEvaluation ==
  /\ run.state = "SEARCHING" /\ Current.state = "WAITING_FOR_EVALUATION"
  /\ \E insight \in {"none", "pending"} :
       rounds' = [rounds EXCEPT ![run.round].state = "READY_TO_FINISH",
                                ![run.round].insight = insight]
  /\ UNCHANGED <<run, tasks, candidates, assessments, clock>>

MemoryWrite ==
  /\ run.state = "SEARCHING" /\ Current.state = "READY_TO_FINISH" /\ Current.insight # "none"
  /\ rounds' = [rounds EXCEPT ![run.round].insight = "published"]
  /\ UNCHANGED <<run, tasks, candidates, assessments, clock>>

LastRound == run.round >= MaxRounds

FinishRound ==
  /\ run.state = "SEARCHING" /\ Current.state = "READY_TO_FINISH"
  /\ Current.insight = "pending" => late
  /\ \E decision \in {"continue", "complete"} :
       IF decision = "complete" \/ Exhausted \/ LastRound \/ late
       THEN /\ run' = Seal(run, assessments,
                           IF decision = "complete" THEN "agent_complete" ELSE "search_limit")
            /\ SetRound("ROUND_COMPLETED")
       ELSE /\ run' = [run EXCEPT !.round = @ + 1]
            /\ rounds' = [rounds EXCEPT ![run.round].state = "ROUND_COMPLETED",
                                        ![run.round + 1].state = "WAITING_FOR_PLAN"]
  /\ UNCHANGED <<tasks, candidates, assessments, clock>>

(* launch up to its commit: the row of the task exists, no process does.   *)
Active == {t \in DOMAIN tasks : tasks[t].state \in {"STARTING", "RUNNING"}}
NewTask(purpose) ==
  [purpose |-> purpose, round |-> run.round, state |-> "STARTING", pid |-> FALSE,
   launch |-> "committed", runner |-> "none", watchdog |-> "none", seen |-> FALSE,
   at |-> "none", c |-> 0, a |-> 0, parent |-> 0, left |-> 0, verdict |-> "none",
   why |-> "none"]

LaunchUnchecked(purpose) == TRUE (* Fault: a task may be running. *)
LaunchAllowed(purpose) == Active = {}

Launch(purpose) ==
  /\ Len(tasks) < MaxTasks
  /\ IF purpose = "search"
     THEN /\ run.state = "SEARCHING" /\ Current.state = "READY_TO_EXECUTE"
          /\ SetRound("EXECUTING") /\ UNCHANGED run
     ELSE /\ run.state = "SEARCH_SEALED"
          /\ run' = [run EXCEPT !.state = "FINALIZING"] /\ UNCHANGED rounds
  /\ LaunchAllowed(purpose)
  /\ tasks' = Append(tasks, NewTask(purpose))
  /\ UNCHANGED <<candidates, assessments, clock>>

Agent == \/ SubmitPlan \/ SubmitEvaluation \/ MemoryWrite \/ FinishRound
         \/ Launch("search") \/ Launch("audit")

=============================================================================

-------------------------- MODULE ArtifactSupervisor --------------------------
(***************************************************************************)
(* What ends and repairs the work of a run (artifact_session): stop, the   *)
(* watchdog of each launch, recover, and the crashes they are there for.   *)
(* It closes the model of the optics session.                              *)
(***************************************************************************)
EXTENDS ArtifactRunner

CONSTANTS
  MaxFaults,     (* bound: crashes                                           *)
  Kinds          (* bound: which crashes, and whether time ends or stop is   *)
                 (* called                                                   *)

ASSUME FaultAssumption == MaxFaults \in Nat

VARIABLES
  stopper,  (* where the caller of stop is                                   *)
  faults    (* crashes so far                                                *)

vars == <<tables, clock, stopper, faults>>

TypeOK == TableTypeOK /\ stopper \in {"idle", "marked", "killed"} /\ faults \in 0..MaxFaults

Init == TableInit /\ stopper = "idle" /\ faults = 0

-----------------------------------------------------------------------------
(* recovery.reconcile_completed: an assessment whose evidence is complete  *)
(* on disk is recorded with all that follows from it, once.  s holds the   *)
(* tables so far; ok becomes FALSE where the code raises.                  *)
Tables == [run |-> run, assessments |-> assessments, candidates |-> candidates, ok |-> TRUE]

Promote(s, a) ==
  IF s.assessments[a].state = "COMPLETE" THEN s
  ELSE [s EXCEPT !.assessments[a].state = "COMPLETE",
                 !.assessments[a].order = NextOrder(s.assessments)]

(* The candidate of a recovered or reused assessment a.                    *)
Adopt(s, c, a) ==
  IF s.run.sealed THEN [s EXCEPT !.ok = FALSE]
  ELSE [s EXCEPT !.run.incumbent = IF Accepts(@, a, s.assessments) THEN a ELSE @,
                 !.candidates[c].state = "COMPLETE"]

OnlyUnfinished(as, a) == as[a].terminal /\ as[a].state # "COMPLETE" (* Fault *)
OnDisk(as, a) == as[a].terminal

ReconcileAssessment(s, a) ==
  IF ~s.ok \/ ~OnDisk(s.assessments, a) THEN s
  ELSE IF s.assessments[a].state \notin {"COMPLETE", "RESERVED", "INCOMPLETE"}
  THEN [s EXCEPT !.ok = FALSE]
  ELSE LET p == Promote(s, a)
           c == s.assessments[a].of
       IN CASE s.assessments[a].mode = "audit" -> p
            [] s.assessments[a].mode = "online" /\ c = 0 ->
                 IF p.run.baseline # 0 THEN p
                 ELSE [p EXCEPT !.run = TakeBaseline(p.run, a, p.assessments)]
            [] OTHER -> IF p.candidates[c].state = "COMPLETE" THEN p ELSE Adopt(p, c, a)

ReconcileReuse(s, c) ==
  IF ~s.ok \/ s.candidates[c].state = "COMPLETE" \/ s.candidates[c].reuse = 0 THEN s
  ELSE Adopt(s, c, s.candidates[c].reuse)

Reconcile ==
  FoldLeft(ReconcileReuse,
           FoldLeft(ReconcileAssessment, Tables, Upto(Len(assessments))),
           Upto(Len(candidates)))

(* Effects without an end, in all tables: unknown, or never started.       *)
SettleAll(as) == [a \in DOMAIN as |-> [as[a] EXCEPT !.effects = Settle(@)]]
SettleRequests(cs) == [c \in DOMAIN cs |-> [cs[c] EXCEPT !.effect = Reconciled[@]]]
Incomplete(as) ==
  [a \in DOMAIN as |-> [as[a] EXCEPT !.state = IF @ = "RESERVED" THEN "INCOMPLETE" ELSE @]]

(* recovery.interrupted_round: a planned round without facts gets them.    *)
Interrupt(rs, r) ==
  IF rs[r].facts \/ rs[r].budget = 0 THEN rs
  ELSE [rs EXCEPT ![r].facts = TRUE, ![r].state = "EVALUATE_SKIPPED"]

EndActive(state) ==
  [t \in DOMAIN tasks |-> IF t \in Active THEN [tasks[t] EXCEPT !.state = state] ELSE tasks[t]]

-----------------------------------------------------------------------------
(* terminate_owned: the group of a live runner is killed with the child it *)
(* waits for; where the runner is dead nothing is done.                    *)
KillRunner(ts, t) == IF ts[t].runner = "alive" THEN [ts EXCEPT ![t] = Gone(@)] ELSE ts
Waiting(t, p) == tasks[t].runner = "alive" /\ tasks[t].at = p
KillWorkers(S) ==
  [a \in DOMAIN assessments |->
     IF \E t \in S : Waiting(t, "await") /\ tasks[t].a = a
     THEN [assessments[a] EXCEPT !.worker = "gone"] ELSE assessments[a]]
KillProviders(S) ==
  [c \in DOMAIN candidates |->
     IF \E t \in S : Waiting(t, "wait") /\ tasks[t].c = c
     THEN [candidates[c] EXCEPT !.provider = "gone"] ELSE candidates[c]]
KillGroups(S) ==
  /\ tasks' = [t \in DOMAIN tasks |-> IF t \in S THEN KillRunner(tasks, t)[t] ELSE tasks[t]]
  /\ assessments' = KillWorkers(S) /\ candidates' = KillProviders(S)

(* stop: mark the run, kill what the table says is running, close.  A task *)
(* whose runner has not registered makes the call fail; it can be repeated.*)
Stop ==
  /\ "stop" \in Kinds /\ stopper = "idle" /\ run.state \notin {"COMPLETED", "STOPPED"}
  /\ stopper' = "marked"
  /\ run' = [run EXCEPT !.state = "STOPPING", !.reason = "USER_STOP"]
  /\ UNCHANGED <<rounds, tasks, candidates, assessments, clock, faults>>

StopKill ==
  /\ stopper = "marked"
  /\ IF \E t \in Active : ~tasks[t].pid
     THEN stopper' = "idle" /\ UNCHANGED <<tasks, candidates, assessments>>
     ELSE stopper' = "killed" /\ KillGroups(Active)
  /\ UNCHANGED <<run, rounds, clock, faults>>

StopClose ==
  /\ stopper = "killed" /\ stopper' = "idle"
  /\ \E s \in {Reconcile} :
       IF run.state = "STOPPING" /\ s.ok
       THEN /\ run' = [s.run EXCEPT !.state = "STOPPED"]
            /\ assessments' = SettleAll(s.assessments)
            /\ candidates' = SettleRequests(s.candidates)
            /\ rounds' = Interrupt(rounds, run.round)
            /\ tasks' = EndActive("CANCELLED")
       ELSE UNCHANGED tables
  /\ UNCHANGED <<clock, faults>>

-----------------------------------------------------------------------------
(* The watchdog of a launch: it waits for the end of its task or for the   *)
(* deadline, kills what it saw running, and closes by what it finds then.  *)
WatchdogTo(t, w) == tasks' = [tasks EXCEPT ![t].watchdog = w]

WatchdogLeaves(t) ==
  /\ tasks[t].watchdog = "watching" /\ t \notin Active
  /\ WatchdogTo(t, "gone")
  /\ UNCHANGED <<run, rounds, candidates, assessments, clock, stopper, faults>>

WatchdogFires(t) ==
  /\ tasks[t].watchdog = "watching" /\ t \in Active /\ Deadline(tasks[t].purpose)
  /\ tasks' = [tasks EXCEPT ![t].watchdog = "firing", ![t].seen = tasks[t].pid]
  /\ UNCHANGED <<run, rounds, candidates, assessments, clock, stopper, faults>>

WatchdogKills(t) ==
  /\ tasks[t].watchdog = "firing"
  /\ LET S == IF tasks[t].seen THEN {t} ELSE {} IN
     /\ assessments' = KillWorkers(S) /\ candidates' = KillProviders(S)
     /\ tasks' = [tasks EXCEPT ![t] =
                    [(IF S = {} THEN @ ELSE KillRunner(tasks, t)[t]) EXCEPT !.watchdog = "killed",
                                                                         !.seen = FALSE]]
  /\ UNCHANGED <<run, rounds, clock, stopper, faults>>

WatchdogCloses(t) ==
  /\ tasks[t].watchdog = "killed"
  /\ \E s \in {Reconcile} :
       IF run.state \in {"STOPPED", "FAILED", "COMPLETED"} \/ ~s.ok
       THEN WatchdogTo(t, "gone") /\ UNCHANGED <<run, rounds, candidates, assessments>>
       ELSE LET as == Incomplete(SettleAll(s.assessments))
                r == tasks[t].round
                searching == tasks[t].purpose = "search" /\ run.state = "SEARCHING"
            IN /\ assessments' = as /\ candidates' = SettleRequests(s.candidates)
               /\ tasks' = [tasks EXCEPT ![t].watchdog = "gone", ![t].state = "INTERRUPTED"]
               /\ rounds' = IF searching
                            THEN [Interrupt(rounds, r) EXCEPT ![r].state = "EVALUATE_SKIPPED"]
                            ELSE rounds
               /\ run' = IF searching THEN Seal(s.run, as, "SEARCH_DEADLINE")
                         ELSE [s.run EXCEPT !.state = "STOPPED", !.reason = "GLOBAL_DEADLINE"]
  /\ UNCHANGED <<clock, stopper, faults>>

Watchdog(t) == WatchdogLeaves(t) \/ WatchdogFires(t) \/ WatchdogKills(t) \/ WatchdogCloses(t)

-----------------------------------------------------------------------------
(* recover, one transaction.  It refuses while a process of an active task *)
(* or an owned child lives, and while it cannot know; a conflict fails the *)
(* run with what was recovered up to it.                                   *)
LiveChildren ==
  \/ \E a \in DOMAIN assessments : assessments[a].worker \in {"owned", "computing", "written"}
  \/ \E c \in DOMAIN candidates : candidates[c].provider \in {"owned", "sent"}

RecoverableOpen == (* Fault: a closed run has nothing to recover. *)
  run.state \notin Closed /\ (\A t \in Active : tasks[t].pid /\ tasks[t].runner # "alive")
Recoverable ==
  /\ \A t \in Active : tasks[t].pid /\ tasks[t].runner # "alive"
  /\ ~LiveChildren
  /\ \A c \in DOMAIN candidates : candidates[c].effect = "STARTED" => candidates[c].owner

UnknownSearchEffect(as, cs) ==
  \/ \E c \in DOMAIN cs : cs[c].effect = "STARTED"
  \/ \E a \in DOMAIN as : as[a].mode = "online" /\ as[a].effects[1] = "STARTED"

Recover ==
  /\ Recoverable
  /\ tasks' = EndActive("INTERRUPTED")
  /\ \E s \in {Reconcile} :
       IF ~s.ok
       THEN /\ run' = [s.run EXCEPT !.state = "FAILED", !.reason = "RECOVERY_EVIDENCE_FAILED"]
            /\ assessments' = s.assessments /\ candidates' = s.candidates
            /\ UNCHANGED rounds
       ELSE LET as == Incomplete(SettleAll(s.assessments))
                why == IF UnknownSearchEffect(s.assessments, s.candidates)
                       THEN "UNKNOWN_SEARCH_EFFECT" ELSE "WORKER_INTERRUPTED"
                sealing == run.state = "SEARCHING" /\ Active # {} /\ ~over
            IN /\ assessments' = as /\ candidates' = SettleRequests(s.candidates)
               /\ rounds' = IF sealing THEN Interrupt(rounds, run.round) ELSE rounds
               /\ run' = CASE over -> [s.run EXCEPT !.state = "STOPPED",
                                                    !.reason = "GLOBAL_DEADLINE"]
                           [] sealing -> Seal(s.run, as, why)
                           [] ~over /\ run.state = "FINALIZING" /\ Active # {} ->
                                [s.run EXCEPT !.state = "SEARCH_SEALED",
                                              !.reason = "AUDIT_INTERRUPTED"]
                           [] OTHER -> s.run
  /\ UNCHANGED <<clock, stopper, faults>>

-----------------------------------------------------------------------------
(* A runner dies and leaves its child; a child dies; the launching host    *)
(* process dies between two of its steps; the machine is restarted.        *)
Fault(kind) == kind \in Kinds /\ faults < MaxFaults /\ faults' = faults + 1

RunnerDies(t) ==
  /\ Fault("runner") /\ tasks[t].runner \in {"spawned", "alive"}
  /\ tasks' = [tasks EXCEPT ![t] = Gone(@)]
  /\ UNCHANGED <<run, rounds, candidates, assessments, clock, stopper>>

DiesBeforeCommit(t) ==
  /\ Fault("commit") /\ At(t, "conclude") /\ Writable
  /\ run' = [run EXCEPT !.summary = Summary]
  /\ tasks' = [tasks EXCEPT ![t] = Gone(@)]
  /\ UNCHANGED <<rounds, candidates, assessments, clock, stopper>>

WorkerDies(a) ==
  /\ Fault("worker") /\ assessments[a].worker \notin {"none", "gone"}
  /\ WorkerExits(a, "failed")
  /\ UNCHANGED <<run, rounds, tasks, candidates, clock, stopper>>

LauncherDies(t) ==
  /\ Fault("launcher") /\ tasks[t].launch \in {"committed", "half"}
  /\ tasks' = [tasks EXCEPT ![t].launch = "done"]
  /\ UNCHANGED <<run, rounds, candidates, assessments, clock, stopper>>

LaunchFails(t) ==
  /\ Fault(IF tasks[t].launch = "committed" THEN "spawn" ELSE "watchdog")
  /\ SpawnFails(t) /\ UNCHANGED stopper

Restart ==
  /\ Fault("machine")
  /\ tasks' = [t \in DOMAIN tasks |->
       [Gone(tasks[t]) EXCEPT !.watchdog = "gone", !.launch = "done", !.seen = FALSE]]
  /\ assessments' = [a \in DOMAIN assessments |->
       [assessments[a] EXCEPT !.worker = IF @ = "none" THEN @ ELSE "gone"]]
  /\ candidates' = [c \in DOMAIN candidates |->
       [candidates[c] EXCEPT !.provider = IF @ = "none" THEN @ ELSE "gone"]]
  /\ stopper' = "idle"
  /\ UNCHANGED <<run, rounds, clock>>

SearchTimeEnds ==
  "time" \in Kinds /\ ~late /\ late' = TRUE /\ UNCHANGED <<tables, over, stopper, faults>>
TimeEnds == late /\ ~over /\ over' = TRUE /\ UNCHANGED <<tables, late, stopper, faults>>

Still == UNCHANGED <<stopper, faults>>
Processes ==
  \/ \E t \in DOMAIN tasks : (Launcher(t) \/ Runner(t)) /\ Still
  \/ \E t \in DOMAIN tasks : Watchdog(t)
  \/ \E a \in DOMAIN assessments : Worker(a) /\ Still
  \/ \E c \in DOMAIN candidates : Provider(c) /\ Still

Crash == \/ \E t \in DOMAIN tasks : RunnerDies(t) \/ DiesBeforeCommit(t)
         \/ \E t \in DOMAIN tasks : LauncherDies(t) \/ LaunchFails(t)
         \/ \E a \in DOMAIN assessments : WorkerDies(a)
         \/ Restart

Next == \/ Agent /\ Still
        \/ Processes \/ Stop \/ StopKill \/ StopClose \/ Recover \/ Crash
        \/ SearchTimeEnds \/ TimeEnds

Spec == Init /\ [][Next]_vars

(* Processes run, children are waited for with a timeout, time passes; who *)
(* has called stop repeats the call until the run has stopped, and recover *)
(* is called while the table shows a task as active.                       *)
Fairness ==
  /\ WF_vars(Processes) /\ WF_vars(SearchTimeEnds \/ TimeEnds)
  /\ WF_vars(StopKill \/ StopClose) /\ WF_vars(run.state = "STOPPING" /\ Stop)
  /\ WF_vars(Active # {} /\ Recover)
FairSpec == Spec /\ Fairness

-----------------------------------------------------------------------------
(* Properties.                                                             *)

(* What is sealed for audit was the best of the search: no assessment that *)
(* is complete by then is better than the incumbent, wherever a runner or  *)
(* its machine died between the assessment and its acceptance.             *)
SealedIsBest ==
  [][~run.sealed /\ run'.sealed =>
       \A a \in CompleteOnline(assessments') :
         KeyOf(a, assessments') <= KeyOf(run'.incumbent, assessments')]_vars

(* No effect is ever paid for twice: a later assessment of an artifact in  *)
(* the same mode only follows one that found the design invalid.           *)
NoReplay ==
  \A a, b \in DOMAIN assessments :
    a < b /\ assessments[a].mode = assessments[b].mode
          /\ assessments[a].artifact = assessments[b].artifact
      => assessments[a].mode = "online" /\ assessments[a].state = "INVALID"

(* There is never more than one runner at work.                            *)
OneRunner == Cardinality({t \in DOMAIN tasks : tasks[t].runner = "alive"}) <= 1

(* A run completes with a passed audit when there is one, and the best of  *)
(* them, also where an earlier finalization was interrupted.               *)
FinalIsBest ==
  [][run.state # "COMPLETED" /\ run'.state = "COMPLETED" =>
       \A b \in Passed : /\ run'.final \in Passed
                         /\ KeyOf(b, assessments) <= KeyOf(run'.final, assessments)]_vars

(* The incumbent is never replaced by a worse one.                         *)
IncumbentImproves ==
  [][KeyOf(run'.incumbent, assessments') >= KeyOf(run.incumbent, assessments)]_vars

(* The best of a search is what is sealed, audited and returned, never a   *)
(* worse one.                                                              *)
BestIsKept == SealedIsBest /\ FinalIsBest /\ IncumbentImproves

(* Nothing is started for the search once it is sealed, nothing at all in  *)
(* a run that is closed, also by what outlived its runner.                 *)
Started == {<<"request", c>> : c \in {d \in DOMAIN candidates : candidates[d].effect = "STARTED"}}
  \cup {<<assessments[a].mode, a>> :
          a \in {b \in DOMAIN assessments : "STARTED" \in Range(assessments[b].effects)}}
ClosedStartsNothing ==
  [][\A e \in Started' \ Started :
       run.state \notin Closed /\ (run.sealed => e[1] = "audit")]_vars

(* The task of a runner that has registered ends, also when the runner or  *)
(* a worker dies: at the latest at its deadline.  The next one is only     *)
(* launched when none is active.                                           *)
Registered == {t \in Active : tasks[t].pid}
TasksEnd == Registered # {} ~> Active = {}

(* A stop that is repeated until it succeeds does stop the run.            *)
StopCompletes == run.state = "STOPPING" ~> run.state \in {"STOPPED", "COMPLETED"}

(* A round that executes when the time of the search ends is sealed then,  *)
(* without the Agent.                                                      *)
ExecutingIsSealed ==
  (late /\ Current.state = "EXECUTING") ~> run.state # "SEARCHING"

(* Finalization can be continued after a crash: the summary that a dead    *)
(* runner has written is no obstacle.                                      *)
FinalizationContinues == \A t \in DOMAIN tasks : tasks[t].why # "summary"

(* Only the global deadline ends a run for the global deadline.            *)
DeadlineIsGlobal == run.reason = "GLOBAL_DEADLINE" => over

(* The end of the search time is no failure of the run.                    *)
DeadlineIsNoFailure == run.state = "FAILED" => run.reason # "deadline"

(* A run that has stopped has no process left.                             *)
StoppedIsDead ==
  run.state = "STOPPED" =>
    /\ \A a \in DOMAIN assessments : assessments[a].worker \in {"none", "gone"}
    /\ \A c \in DOMAIN candidates : candidates[c].provider \in {"none", "gone"}

(* A run that has failed does no further work.                             *)
FailureIsFinal ==
  [][run.state = "FAILED" => run'.state \in {"FAILED", "STOPPING", "STOPPED"}]_vars

(* A run that has completed or stopped stays so.                           *)
EndIsFinal ==
  [][run.state \in {"COMPLETED", "STOPPED"} => run'.state = run.state]_vars

=============================================================================

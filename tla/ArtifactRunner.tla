---------------------------- MODULE ArtifactRunner ----------------------------
(***************************************************************************)
(* The processes of one launch (artifact_session): the launcher, the       *)
(* runner with its search or finalization, and the children it waits for,  *)
(* the provider of a model request and the worker of an assessment.  Each  *)
(* action is one transaction or one step that others can see; what a       *)
(* runner keeps in memory is in the row of its task and lost with it.      *)
(***************************************************************************)
EXTENDS ArtifactSession

At(t, p) == tasks[t].runner = "alive" /\ tasks[t].at = p
Gone(task) ==
  [task EXCEPT !.runner = "gone", !.at = "none", !.c = 0, !.a = 0, !.parent = 0, !.left = 0,
               !.verdict = "none", !.why = "none"]
Goto(t, p) == tasks' = [tasks EXCEPT ![t].at = p]
Raise(t, why) == tasks' = [tasks EXCEPT ![t].at = "raise", ![t].why = why]
Deadline(purpose) == IF purpose = "search" THEN late ELSE over
Plan(t) == rounds[tasks[t].round]

-----------------------------------------------------------------------------
(* The rest of launch: the runner is spawned, then its watchdog.  When one *)
(* cannot be started the run fails.                                        *)
SpawnRunner(t) ==
  /\ tasks[t].launch = "committed"
  /\ tasks' = [tasks EXCEPT ![t].launch = "half", ![t].runner = "spawned"]
  /\ UNCHANGED <<run, rounds, candidates, assessments, clock>>

SpawnWatchdog(t) ==
  /\ tasks[t].launch = "half"
  /\ tasks' = [tasks EXCEPT ![t].launch = "done", ![t].watchdog = "watching"]
  /\ UNCHANGED <<run, rounds, candidates, assessments, clock>>

SpawnFails(t) ==
  /\ tasks[t].launch \in {"committed", "half"}
  /\ tasks' = [tasks EXCEPT ![t].launch = "done", ![t].state = "FAILED"]
  /\ run' = [run EXCEPT !.state = "FAILED", !.reason = "WORKER_START_FAILED"]
  /\ UNCHANGED <<rounds, candidates, assessments, clock>>

(* main: a task that is not STARTING, or not in time, ends here.           *)
Register(t) ==
  /\ tasks[t].runner = "spawned"
  /\ tasks' = [tasks EXCEPT ![t] =
       IF @.state # "STARTING" THEN Gone(@)
       ELSE IF run.state \in {"STOPPING", "STOPPED", "FAILED"} \/ Deadline(@.purpose)
       THEN Gone([@ EXCEPT !.state = "CANCELLED"])
       ELSE [@ EXCEPT !.state = "RUNNING", !.pid = TRUE, !.runner = "alive",
                      !.at = IF tasks[t].purpose = "search" THEN "begin" ELSE "audits"]]
  /\ UNCHANGED <<run, rounds, candidates, assessments, clock>>

-----------------------------------------------------------------------------
(* runner.assess: reserve, evaluate in a worker, record.  Every way out    *)
(* but the record reconciles the effects and ends the assessment.          *)
NewAssessment(t) ==
  LET audit == tasks[t].purpose = "audit"
      c == tasks[t].c
  IN [mode |-> IF audit THEN "audit" ELSE "online", of |-> c,
      artifact |-> IF audit THEN assessments[c].artifact
                   ELSE IF c = 0 THEN 0 ELSE candidates[c].artifact,
      state |-> "RESERVED", order |-> 0,
      effects |-> [i \in 1..(IF audit THEN AuditProfiles ELSE 1) |-> "RESERVED"],
      worker |-> "none", exit |-> "none", terminal |-> FALSE]

Affordable(purpose) ==
  IF purpose = "search" THEN Profiles("online") < OnlineLimit
  ELSE /\ Cardinality(Audits) < MaxAudits
       /\ Profiles("audit") + AuditProfiles <= AuditPartition

Refusal(purpose) == IF run.state \notin Closed /\ ~Allowed(purpose) /\ Deadline(purpose)
                    THEN "deadline" ELSE "refused"

Reserve(t) ==
  /\ At(t, "assess")
  /\ IF ~Allowed(tasks[t].purpose) THEN Raise(t, Refusal(tasks[t].purpose)) /\ UNCHANGED assessments
     ELSE IF ~Affordable(tasks[t].purpose) THEN Raise(t, "budget") /\ UNCHANGED assessments
     ELSE /\ assessments' = Append(assessments, NewAssessment(t))
          /\ tasks' = [tasks EXCEPT ![t].at = "evaluate", ![t].a = Len(assessments) + 1]
  /\ UNCHANGED <<run, rounds, candidates, clock>>

(* offline.evaluate: no time is left, or the worker is started.            *)
Evaluate(t) ==
  /\ At(t, "evaluate")
  /\ IF Deadline(tasks[t].purpose)
     THEN /\ tasks' = [tasks EXCEPT ![t].at = "undo", ![t].verdict = "deadline"]
          /\ UNCHANGED assessments
     ELSE /\ assessments' = [assessments EXCEPT ![tasks[t].a].worker = "spawned"]
          /\ Goto(t, "await")
  /\ UNCHANGED <<run, rounds, candidates, clock>>

Awaited(t) == assessments[tasks[t].a]
Collect(t) ==
  /\ At(t, "await") /\ Awaited(t).worker = "gone"
  /\ tasks' = [tasks EXCEPT ![t].at = IF Awaited(t).exit = "ok" THEN "record" ELSE "undo",
                            ![t].verdict = Awaited(t).exit]
  /\ UNCHANGED <<run, rounds, candidates, assessments, clock>>

(* subprocess.run kills the worker and waits for it.                       *)
Expire(t) ==
  /\ At(t, "await") /\ Awaited(t).worker # "gone"
  /\ assessments' = [assessments EXCEPT ![tasks[t].a].worker = "gone"]
  /\ tasks' = [tasks EXCEPT ![t].at = "undo", ![t].verdict = "timeout"]
  /\ UNCHANGED <<run, rounds, candidates, clock>>

NextOrder(as) == Recorded(as) + 1
Record(t) ==
  /\ At(t, "record")
  /\ assessments' = [assessments EXCEPT ![tasks[t].a].state = "COMPLETE",
                                        ![tasks[t].a].order = NextOrder(assessments)]
  /\ Goto(t, IF tasks[t].purpose = "audit" THEN "audits"
             ELSE IF tasks[t].c = 0 THEN "baseline" ELSE "compare")
  /\ UNCHANGED <<run, rounds, candidates, clock>>

Reconciled == [RESERVED |-> "CANCELLED_NOT_STARTED", STARTED |-> "UNKNOWN",
               COMPLETE |-> "COMPLETE", FAILED |-> "FAILED", UNKNOWN |-> "UNKNOWN",
               CANCELLED_NOT_STARTED |-> "CANCELLED_NOT_STARTED"]
Settle(effects) == [i \in DOMAIN effects |-> Reconciled[effects[i]]]

Undo(t) ==
  /\ At(t, "undo")
  /\ assessments' = [assessments EXCEPT ![tasks[t].a].effects = Settle(@)]
  /\ Goto(t, "shut")
  /\ UNCHANGED <<run, rounds, candidates, clock>>

(* A worker that found the design invalid ends the candidate, a timeout    *)
(* the search or one audit, anything else the run.                         *)
Shut(t) ==
  LET v == tasks[t].verdict
      audit == tasks[t].purpose = "audit"
      candidate == ~audit /\ tasks[t].c # 0
  IN /\ At(t, "shut")
     /\ assessments' = [assessments EXCEPT ![tasks[t].a].state =
                           IF v = "invalid" THEN "INVALID" ELSE "INCOMPLETE"]
     /\ CASE audit /\ v = "timeout" -> Goto(t, "audits")
          [] candidate /\ v = "invalid" ->
               tasks' = [tasks EXCEPT ![t].at = "finish", ![t].verdict = "INVALID"]
          [] candidate /\ v = "timeout" ->
               tasks' = [tasks EXCEPT ![t].at = "finish", ![t].verdict = "UNKNOWN",
                                      ![t].why = "ONLINE_OUTCOME_UNKNOWN"]
          [] OTHER -> Raise(t, IF v = "invalid" THEN "failed" ELSE v)
     /\ UNCHANGED <<run, rounds, candidates, clock>>

-----------------------------------------------------------------------------
(* The worker: it says who it is, then starts and finishes its effects one *)
(* by one, and writes terminal.json last.                                  *)
WorkerIs(a, w) == assessments[a].worker = w
WorkerTo(a, w) == assessments' = [assessments EXCEPT ![a].worker = w]
WorkerExits(a, how) ==
  assessments' = [assessments EXCEPT ![a].worker = "gone", ![a].exit = how]
NextProfile(a) ==
  Cardinality({i \in DOMAIN assessments[a].effects : assessments[a].effects[i] = "COMPLETE"}) + 1

WorkerOwns(a) == WorkerIs(a, "spawned") /\ WorkerTo(a, "owned")

Startable(effect) == effect = "RESERVED"

StartProfile(a) ==
  LET i == NextProfile(a)
      purpose == IF assessments[a].mode = "audit" THEN "audit" ELSE "search"
  IN /\ WorkerIs(a, "owned") /\ i <= Len(assessments[a].effects)
     /\ IF Startable(assessments[a].effects[i]) /\ Allowed(purpose)
        THEN assessments' = [assessments EXCEPT ![a].worker = "computing",
                                                ![a].effects[i] = "STARTED"]
        ELSE WorkerExits(a, IF ~Allowed(purpose) THEN Refusal(purpose) ELSE "failed")

(* The result of the physics: a profile, a design that is invalid, or the  *)
(* timer of the profile ends the process.                                  *)
FinishProfile(a) ==
  LET i == NextProfile(a)
  IN /\ WorkerIs(a, "computing")
     /\ \/ /\ assessments[a].effects[i] = "STARTED"
           /\ \/ assessments' = [assessments EXCEPT ![a].worker = "owned",
                                                    ![a].effects[i] = "COMPLETE"]
              \/ assessments' = [assessments EXCEPT ![a].worker = "gone", ![a].exit = "invalid",
                                                    ![a].effects[i] = "COMPLETE"]
        \/ assessments[a].effects[i] # "STARTED" /\ WorkerExits(a, "failed")
        \/ WorkerExits(a, "timeout")

WriteTerminal(a) ==
  /\ WorkerIs(a, "owned") /\ NextProfile(a) > Len(assessments[a].effects)
  /\ assessments' = [assessments EXCEPT ![a].worker = "written", ![a].terminal = TRUE]

WorkerEnds(a) == WorkerIs(a, "written") /\ WorkerExits(a, "ok")

Worker(a) ==
  /\ WorkerOwns(a) \/ StartProfile(a) \/ FinishProfile(a) \/ WriteTerminal(a) \/ WorkerEnds(a)
  /\ UNCHANGED <<run, rounds, tasks, candidates, clock>>

-----------------------------------------------------------------------------
(* runner.search: the baseline once, then one candidate after the other.   *)
Begin(t) ==
  /\ At(t, "begin")
  /\ tasks' = [tasks EXCEPT ![t].at = IF run.baseline = 0 THEN "assess" ELSE "loop",
                            ![t].left = Plan(t).budget]
  /\ UNCHANGED <<run, rounds, candidates, assessments, clock>>

(* An assessment without a key is a baseline but no incumbent.             *)
TakeBaseline(r, a, as) ==
  [r EXCEPT !.baseline = a, !.incumbent = IF KeyOf(a, as) # 0 THEN a ELSE @]

AcceptBaseline(t) ==
  /\ At(t, "baseline")
  /\ run' = TakeBaseline(run, tasks[t].a, assessments)
  /\ Goto(t, "loop")
  /\ UNCHANGED <<rounds, candidates, assessments, clock>>

Parent(r) == IF r.incumbent # 0 THEN r.incumbent ELSE r.baseline

Loop(t) ==
  /\ At(t, "loop")
  /\ CASE tasks[t].left = 0 -> Goto(t, "close")
       [] tasks[t].left > 0 /\ (run.state # "SEARCHING" \/ late) ->
            tasks' = [tasks EXCEPT ![t].at = "close", ![t].why = "SEARCH_DEADLINE_OR_STOP"]
       [] OTHER -> tasks' = [tasks EXCEPT ![t].at = "generate", ![t].left = @ - 1,
                                          ![t].parent = Parent(run)]
  /\ UNCHANGED <<run, rounds, candidates, assessments, clock>>

NewCandidate(round) ==
  [round |-> round, state |-> "RESERVED", effect |-> "RESERVED", artifact |-> -1, reuse |-> 0,
   provider |-> "none", owner |-> FALSE, reply |-> "none"]

Generate(t) ==
  /\ At(t, "generate")
  /\ IF ~Allowed("search") THEN Raise(t, Refusal("search")) /\ UNCHANGED candidates
     ELSE IF Exhausted THEN Raise(t, "budget") /\ UNCHANGED candidates
     ELSE /\ candidates' = Append(candidates, NewCandidate(tasks[t].round))
          /\ tasks' = [tasks EXCEPT ![t].at = "start", ![t].c = Len(candidates) + 1]
  /\ UNCHANGED <<run, rounds, assessments, clock>>

StartRequest(t) ==
  /\ At(t, "start")
  /\ IF Startable(candidates[tasks[t].c].effect) /\ Allowed("search")
     THEN candidates' = [candidates EXCEPT ![tasks[t].c].effect = "STARTED"] /\ Goto(t, "call")
     ELSE Raise(t, Refusal("search")) /\ UNCHANGED candidates
  /\ UNCHANGED <<run, rounds, assessments, clock>>

Request(t) == candidates[tasks[t].c]
CallProvider(t) ==
  /\ At(t, "call")
  /\ IF late THEN tasks' = [tasks EXCEPT ![t].at = "reply", ![t].verdict = "unknown"]
                  /\ UNCHANGED candidates
     ELSE candidates' = [candidates EXCEPT ![tasks[t].c].provider = "spawned"] /\ Goto(t, "wait")
  /\ UNCHANGED <<run, rounds, assessments, clock>>

(* The provider has ended, or its time has and it is killed: then the      *)
(* outcome is unknown whatever it has written.                             *)
Hear(t) ==
  /\ At(t, "wait")
  /\ \/ /\ Request(t).provider = "gone" /\ UNCHANGED candidates
        /\ tasks' = [tasks EXCEPT ![t].at = "reply", ![t].verdict =
                        IF Request(t).reply = "none" THEN "unknown" ELSE Request(t).reply]
     \/ /\ Request(t).provider # "gone"
        /\ candidates' = [candidates EXCEPT ![tasks[t].c].provider = "gone"]
        /\ tasks' = [tasks EXCEPT ![t].at = "reply", ![t].verdict = "unknown"]
  /\ UNCHANGED <<run, rounds, assessments, clock>>

Terminal == [complete |-> "COMPLETE", generation_failed |-> "COMPLETE",
             provider_failed |-> "FAILED", unknown |-> "UNKNOWN"]

(* finish_effect and what search makes of the status.                      *)
Reply(t) ==
  LET v == tasks[t].verdict
      Finish(state, why) ==
        tasks' = [tasks EXCEPT ![t].at = "finish", ![t].verdict = state, ![t].why = why]
  IN /\ At(t, "reply")
     /\ IF Request(t).effect \in {"RESERVED", "STARTED"}
        THEN /\ candidates' = [candidates EXCEPT ![tasks[t].c].effect = Terminal[v]]
             /\ CASE v = "unknown" -> Finish("FAILED", "REQUEST_OUTCOME_UNKNOWN")
                  [] v = "provider_failed" -> Finish("FAILED", "PROVIDER_TERMINAL")
                  [] v \in {"complete", "generation_failed"} /\ late ->
                       Finish("SKIPPED", "SEARCH_DEADLINE")
                  [] v = "generation_failed" /\ ~late -> Finish("INVALID", "none")
                  [] v = "complete" /\ ~late -> Goto(t, "validate")
        ELSE Raise(t, "failed") /\ UNCHANGED candidates
     /\ UNCHANGED <<run, rounds, assessments, clock>>

(* The static check of the reply in a worker without effects, then the     *)
(* lookup of a complete assessment of the same identity; the receipt of a  *)
(* reuse is on disk before anything is accepted.                           *)
Reusable(artifact, as) == {a \in CompleteOnline(as) : as[a].artifact = artifact}

Validate(t) ==
  LET c == tasks[t].c
      reusable == Reusable(candidates[c].artifact, assessments)
      Earlier(a, b) == assessments[a].order <= assessments[b].order
      first == CHOOSE a \in reusable : \A b \in reusable : Earlier(a, b)
  IN /\ At(t, "validate")
     /\ \/ /\ tasks' = [tasks EXCEPT ![t].at = "finish", ![t].verdict = "INVALID"]
           /\ UNCHANGED candidates
        \/ /\ tasks' = [tasks EXCEPT ![t].at = "finish", ![t].verdict = "UNKNOWN",
                                      ![t].why = "ONLINE_OUTCOME_UNKNOWN"]
           /\ UNCHANGED candidates
        \/ Raise(t, "failed") /\ UNCHANGED candidates
        \/ reusable = {} /\ Goto(t, "assess") /\ UNCHANGED candidates
        \/ /\ reusable # {}
           /\ candidates' = [candidates EXCEPT ![c].reuse = first]
           /\ tasks' = [tasks EXCEPT ![t].at = "compare", ![t].a = first]
     /\ UNCHANGED <<run, rounds, assessments, clock>>

(* The incumbent and the candidate are two transactions.                   *)
Compare(t) ==
  /\ At(t, "compare")
  /\ run' = IF Accepts(tasks[t].parent, tasks[t].a, assessments)
            THEN [run EXCEPT !.incumbent = tasks[t].a] ELSE run
  /\ tasks' = [tasks EXCEPT ![t].at = "finish", ![t].verdict = "COMPLETE"]
  /\ UNCHANGED <<rounds, candidates, assessments, clock>>

FinishCandidate(t) ==
  /\ At(t, "finish")
  /\ candidates' = [candidates EXCEPT ![tasks[t].c].state = tasks[t].verdict]
  /\ tasks' = [tasks EXCEPT ![t].at = IF tasks[t].why = "none" THEN "loop" ELSE "close",
                            ![t].c = 0, ![t].a = 0, ![t].verdict = "none"]
  /\ UNCHANGED <<run, rounds, assessments, clock>>

CloseRound(t) ==
  LET stop == tasks[t].why # "none" \/ Exhausted
      why == IF tasks[t].why # "none" THEN tasks[t].why ELSE "GENERATION_BUDGET"
  IN /\ At(t, "close")
     /\ run' = IF run.state = "SEARCHING" /\ stop THEN Seal(run, assessments, why) ELSE run
     /\ rounds' = [rounds EXCEPT ![tasks[t].round].facts = TRUE, ![tasks[t].round].state =
                     IF run.state = "SEARCHING" /\ stop THEN "EVALUATE_SKIPPED"
                     ELSE "WAITING_FOR_EVALUATION"]
     /\ Goto(t, "done")
     /\ UNCHANGED <<candidates, assessments, clock>>

(* The provider: it says who it is, sends, and writes what came of it.     *)
Provider(c) ==
  LET Is(p) == candidates[c].provider = p
      Ends(reply, artifact) ==
        candidates' = [candidates EXCEPT ![c].provider = "gone", ![c].reply = reply,
                                         ![c].artifact = artifact]
  IN /\ \/ /\ Is("spawned")
           /\ candidates' = [candidates EXCEPT ![c].provider = "owned", ![c].owner = TRUE]
        \/ Is("owned") /\ ~late /\ candidates' = [candidates EXCEPT ![c].provider = "sent"]
        \/ Is("owned") /\ late /\ Ends("unknown", -1)
        \/ Is("sent") /\ \E a \in Artifacts : Ends("complete", a)
        \/ Is("sent") /\ \E r \in {"generation_failed", "provider_failed", "unknown"} : Ends(r, -1)
     /\ UNCHANGED <<run, rounds, tasks, assessments, clock>>

-----------------------------------------------------------------------------
(* runner.finalize: the frozen queue in order, an attempted one never      *)
(* again, and the best artifact whose audit passed.                        *)
AttemptedComplete(a) == (* Fault: an incomplete audit is repeated. *)
  \E b \in Audits : assessments[b].of = a /\ assessments[b].state = "COMPLETE"
Attempted(a) == \E b \in Audits : assessments[b].of = a

NextAudit(t) ==
  LET open == {i \in DOMAIN run.queue : ~Attempted(run.queue[i])}
      first == CHOOSE i \in open : \A j \in open : i <= j
  IN /\ At(t, "audits")
     /\ IF open = {} \/ run.state # "FINALIZING" \/ over
        THEN Goto(t, "select")
        ELSE tasks' = [tasks EXCEPT ![t].at = "assess", ![t].c = run.queue[first]]
     /\ UNCHANGED <<run, rounds, candidates, assessments, clock>>

Select(t) ==
  /\ At(t, "select")
  /\ Goto(t, IF run.state \in {"STOPPING", "STOPPED"} THEN "done" ELSE "conclude")
  /\ UNCHANGED <<run, rounds, candidates, assessments, clock>>

Passed == {b \in Audits : assessments[b].state = "COMPLETE" /\ assessments[b].artifact \in Passes}
EarlierSource(b, d) == assessments[assessments[b].of].order < assessments[assessments[d].of].order
LastPassed == LET last == {b \in Passed : \A d \in Passed : d <= b}
              IN IF last = {} THEN 0 ELSE CHOOSE b \in last : TRUE (* Fault: the last one. *)
BestPassed ==
  LET Better(b, d) == \/ Key[assessments[b].artifact] > Key[assessments[d].artifact]
                      \/ /\ Key[assessments[b].artifact] = Key[assessments[d].artifact]
                         /\ EarlierSource(b, d)
      best == {b \in Passed : \A d \in Passed \ {b} : Better(b, d)}
  IN IF best = {} THEN 0 ELSE CHOOSE b \in best : TRUE

(* The summary is written inside the transaction, under a fixed name: one  *)
(* that a dead runner has left there must be equal.                        *)
Selected == IF BestPassed # 0 THEN BestPassed ELSE Parent(run)
Summary == <<run.reason, Selected>>
Writable == run.summary \in {<<>>, Summary}

Conclude(t) ==
  /\ At(t, "conclude")
  /\ IF Writable
     THEN /\ run' = [run EXCEPT !.state = "COMPLETED", !.final = Selected, !.summary = Summary]
          /\ Goto(t, "done")
     ELSE Raise(t, "summary") /\ UNCHANGED run
  /\ UNCHANGED <<rounds, candidates, assessments, clock>>

(* main: an exception seals the search or fails the run; the last          *)
(* transaction ends the task.                                              *)
Except(t) ==
  /\ At(t, "raise")
  /\ run' = CASE run.state \in {"STOPPING", "STOPPED"} -> run
              [] run.state \notin {"STOPPING", "STOPPED"} /\ tasks[t].why = "timeout"
                 /\ tasks[t].purpose = "search" -> Seal(run, assessments, "ONLINE_OUTCOME_UNKNOWN")
              [] OTHER -> [run EXCEPT !.state = "FAILED", !.reason = tasks[t].why]
  /\ Goto(t, "failed")
  /\ UNCHANGED <<rounds, candidates, assessments, clock>>

End(t) ==
  /\ At(t, "done") \/ At(t, "failed")
  /\ tasks' = [tasks EXCEPT ![t] = Gone([@ EXCEPT !.state =
                 IF tasks[t].at = "done" THEN "COMPLETE" ELSE "FAILED"])]
  /\ UNCHANGED <<run, rounds, candidates, assessments, clock>>

Launcher(t) == SpawnRunner(t) \/ SpawnWatchdog(t)
Runner(t) ==
  \/ Register(t) \/ Reserve(t) \/ Evaluate(t) \/ Collect(t) \/ Expire(t) \/ Record(t) \/ Undo(t)
  \/ Shut(t) \/ Begin(t) \/ AcceptBaseline(t) \/ Loop(t) \/ Generate(t) \/ StartRequest(t)
  \/ CallProvider(t) \/ Hear(t) \/ Reply(t) \/ Validate(t) \/ Compare(t) \/ FinishCandidate(t)
  \/ CloseRound(t) \/ NextAudit(t) \/ Select(t) \/ Conclude(t) \/ Except(t) \/ End(t)

=============================================================================

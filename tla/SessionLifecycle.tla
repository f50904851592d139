-------------------------- MODULE SessionLifecycle --------------------------
(***************************************************************************)
(* What a Session promises its Agent (docs/protocol.md, section 3): rounds *)
(* are planned, executed, evaluated and finished one after the other, the  *)
(* resources of a round are spent by one execution only, and a run that    *)
(* has ended stays ended; only the round of a failed run may be written    *)
(* once more.  Tasks, processes and ledgers are not seen here.             *)
(***************************************************************************)
EXTENDS Naturals

CONSTANT MaxRounds

VARIABLES
  run,    (* the state of the run                                          *)
  round,  (* the number of the active round                                *)
  phase,  (* the state of the active round                                 *)
  spent   (* the rounds that have had an external effect                   *)

vars == <<run, round, phase, spent>>

Init == run = "RUNNING" /\ round = 1 /\ phase = "WAITING_FOR_PLAN" /\ spent = {}

(* Moves of the active round while the run is running. *)
Move(from, to) ==
  /\ run = "RUNNING" /\ phase = from /\ phase' = to
  /\ UNCHANGED <<run, round, spent>>

Plan     == Move("WAITING_FOR_PLAN", "READY_TO_EXECUTE")
Conclude == Move("EXECUTING", "WAITING_FOR_EVALUATION")
Evaluate == Move("WAITING_FOR_EVALUATION", "READY_TO_FINISH")

(* The first external effect, once per round. *)
Spend ==
  /\ run = "RUNNING" /\ phase = "READY_TO_EXECUTE" /\ round \notin spent
  /\ phase' = "EXECUTING"
  /\ spent' = spent \cup {round}
  /\ UNCHANGED <<run, round>>

Continue ==
  /\ run = "RUNNING" /\ phase = "READY_TO_FINISH" /\ round < MaxRounds
  /\ round' = round + 1
  /\ phase' = "WAITING_FOR_PLAN"
  /\ UNCHANGED <<run, spent>>

(* The ways a run ends. *)
End(from, to, last) ==
  /\ run = from /\ run' = to /\ phase' = last
  /\ UNCHANGED <<round, spent>>

Complete == phase = "READY_TO_FINISH" /\ End("RUNNING", "COMPLETED", "ROUND_COMPLETED")
Fail     == phase = "READY_TO_EXECUTE" /\ End("RUNNING", "FAILED", "FAILED")
StopNow  == phase # "EXECUTING" /\ End("RUNNING", "STOPPED", "STOPPED")
Drain    == End("RUNNING", "STOPPING", phase)
Drained  == End("STOPPING", "STOPPED", "STOPPED")

(* The one move of a run that has failed: collect, which does not look at  *)
(* the state of the run, settles a task that had no effects and writes the *)
(* state of its round back.                                                *)
CollectLate ==
  /\ run = "FAILED" /\ phase = "FAILED" /\ round \notin spent
  /\ phase' = "READY_TO_EXECUTE"
  /\ UNCHANGED <<run, round, spent>>

Next == \/ Plan \/ Spend \/ Conclude \/ Evaluate \/ Continue
        \/ Complete \/ Fail \/ StopNow \/ Drain \/ Drained \/ CollectLate

Spec == Init /\ [][Next]_vars

=============================================================================

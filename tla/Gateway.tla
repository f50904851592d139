------------------------------- MODULE Gateway -------------------------------
(***************************************************************************)
(* The local gateway of one EoH run (eoh_frozen/llm_bridge.py) and the     *)
(* request ledger behind it (SessionRequestBudget).  Every local call is   *)
(* handled by a thread of its own; a lock lets one of them at a time reach *)
(* the provider.  The fields of the bridge are shared by the threads, the  *)
(* monitor of the runner writes two of them without the lock.              *)
(***************************************************************************)
EXTENDS Integers, Sequences, FiniteSets

CONSTANTS
  Calls,          (* identities of local calls, numbered in the order made   *)
  RequestLimit,   (* requests the run may still make                        *)
  RepairLimit,    (* repairs the run may still request                      *)
  SolverLimit     (* evaluations the run may still start                    *)

ASSUME GatewayAssumption ==
  /\ Calls \subseteq Nat \ {0} /\ IsFiniteSet(Calls)
  /\ {RequestLimit, RepairLimit, SolverLimit} \subseteq Nat

VARIABLES
  step,        (* step[c]: where the thread that handles call c is           *)
  purpose,     (* purpose[c]                                                 *)
  slot,        (* slot[c]: the request reserved for c, 0 when none           *)
  outcome,     (* outcome[c]: how its request ended                          *)
  told,        (* told[c]: the request_index of the response                 *)
  lock,        (* bridge._forward_lock: 0 or the call that holds it          *)
  terminal,    (* bridge.terminal                                            *)
  lastError,   (* bridge.last_error                                          *)
  lastIndex,   (* bridge.last_request_index                                  *)
  requests,    (* the table requests, in the order of its sequence           *)
  posted,      (* the requests that went out to the provider                 *)
  exchange,    (* the request latest_exchange.json describes                 *)
  solverCalls, (* rows of the table solver_calls                             *)
  stopped,     (* the Session or its task is not RUNNING any more            *)
  late         (* the wall time of the run is over                           *)

gatewayVars == <<step, purpose, slot, outcome, told, lock, terminal, lastError, lastIndex,
                 requests, posted, exchange, solverCalls, stopped, late>>

Purposes == {"probe", "generation", "repair"}
Failures == {"retryable", "refused", "late", "broken"}
Outcomes == Failures \cup {"unusable", "unsaved", "good"}

(* What a request ends as in the ledger and in last_error, and whether no  *)
(* other request may follow it.                                            *)
RecordedAs(o) == CASE o \in {"late", "broken"} -> "unknown"
                   [] o \in {"retryable", "refused"} -> "failed"
                   [] OTHER -> "complete"
ErrorOf == [retryable |-> "http_503", refused |-> "provider_auth_invalid",
            late |-> "request_deadline", broken |-> "provider_connectivity_or_protocol_error",
            unusable |-> "generation_truncated", unsaved |-> "evidence_storage_error",
            good |-> "none"]
(* Fault: whatever the transport calls retryable is retried. *)
EndsUnlessTimeout(o) == o \in {"refused", "broken", "unsaved"}
Ends(o) == o \in {"refused", "late", "broken", "unsaved"}

Steps == {"unused", "waiting", "admitted", "reserved", "sent", "recorded", "replying", "done"}

RequestStates == {"reserved", "sent", "complete", "failed", "unknown"}
RequestRow == [purpose : Purposes, state : RequestStates]

GatewayTypeOK ==
  /\ step \in [Calls -> Steps]
  /\ purpose \in [Calls -> Purposes \cup {"none"}]
  /\ slot \in [Calls -> 0..Len(requests)] /\ told \in [Calls -> 0..Len(requests)]
  /\ outcome \in [Calls -> Outcomes \cup {"none", "denied"}]
  /\ lock \in Calls \cup {0}
  /\ terminal \in BOOLEAN /\ late \in BOOLEAN /\ stopped \in BOOLEAN
  /\ requests \in Seq(RequestRow)
  /\ posted \subseteq DOMAIN requests
  /\ lastIndex \in 0..Len(requests) /\ exchange \in 0..Len(requests)
  /\ solverCalls \in 0..SolverLimit

GatewayInit ==
  /\ step = [c \in Calls |-> "unused"] /\ purpose = [c \in Calls |-> "none"]
  /\ slot = [c \in Calls |-> 0] /\ told = [c \in Calls |-> 0]
  /\ outcome = [c \in Calls |-> "none"]
  /\ lock = 0 /\ terminal = FALSE /\ lastError = "none" /\ lastIndex = 0
  /\ requests = <<>> /\ posted = {} /\ exchange = 0
  /\ solverCalls \in 0..SolverLimit   (* those of earlier rounds and the baseline *)
  /\ stopped = FALSE /\ late = FALSE

-----------------------------------------------------------------------------
Goto(c, s) == step' = [step EXCEPT ![c] = s]
Ended(c, o) == outcome' = [outcome EXCEPT ![c] = o]

(* Fault: calls are forwarded side by side. *)
MayForwardTogether(c) == step[c] = "waiting"
MayForward(c) == step[c] = "waiting" /\ lock = 0

(* Under the lock: the provenance of the last call is cleared first.       *)
Enter(c) == MayForward(c) /\ lastIndex' = 0

(* After a result that ends the run nothing is forwarded any more.         *)
RefuseTerminal(c) ==
  /\ Enter(c) /\ terminal
  /\ Goto(c, "replying") /\ Ended(c, "denied")
  /\ UNCHANGED <<purpose, slot, told, lock, terminal, lastError, requests, posted, exchange,
                 solverCalls, stopped, late>>

RefuseLate(c) ==
  /\ Enter(c) /\ ~terminal /\ late
  /\ lastError' = "wall_time_exhausted" /\ terminal' = TRUE
  /\ Goto(c, "replying") /\ Ended(c, "denied")
  /\ UNCHANGED <<purpose, slot, told, lock, requests, posted, exchange, solverCalls, stopped,
                 late>>

Admit(c) ==
  /\ Enter(c) /\ ~terminal /\ ~late
  /\ lock' = c /\ Goto(c, "admitted")
  /\ UNCHANGED <<purpose, slot, outcome, told, terminal, lastError, requests, posted, exchange,
                 solverCalls, stopped, late>>

(* SessionRequestBudget.reserve: a reservation is a charge, and the order  *)
(* of the reasons for a denial.                                            *)
Repairs == Cardinality({i \in DOMAIN requests : requests[i].purpose = "repair"})
Exceeded(p) == \/ Len(requests) >= RequestLimit
               \/ p = "repair" /\ Repairs >= RepairLimit
Denial == CASE stopped -> "session_stopped"
            [] solverCalls >= SolverLimit -> "solver_budget_exhausted"
            [] OTHER -> "request_budget_exhausted"

(* Fault: a denied call does not release the lock. *)
DenyHolding(c) ==
  /\ step[c] = "admitted"
  /\ stopped \/ solverCalls >= SolverLimit \/ Exceeded(purpose[c])
  /\ lastError' = Denial /\ terminal' = TRUE
  /\ Goto(c, "replying") /\ Ended(c, "denied")
  /\ UNCHANGED <<purpose, slot, told, lock, lastIndex, requests, posted, exchange, solverCalls,
                 stopped, late>>

Deny(c) ==
  /\ step[c] = "admitted"
  /\ stopped \/ solverCalls >= SolverLimit \/ Exceeded(purpose[c])
  /\ lastError' = Denial /\ terminal' = TRUE
  /\ lock' = 0 /\ Goto(c, "replying") /\ Ended(c, "denied")
  /\ UNCHANGED <<purpose, slot, told, lastIndex, requests, posted, exchange, solverCalls, stopped,
                 late>>

Reserve(c) ==
  /\ step[c] = "admitted"
  /\ ~stopped /\ solverCalls < SolverLimit /\ ~Exceeded(purpose[c])
  /\ requests' = Append(requests, [purpose |-> purpose[c], state |-> "reserved"])
  /\ slot' = [slot EXCEPT ![c] = Len(requests')]
  /\ lastIndex' = Len(requests')
  /\ Goto(c, "reserved")
  /\ UNCHANGED <<purpose, outcome, told, lock, terminal, lastError, posted, exchange, solverCalls,
                 stopped, late>>

(* The input is on disk and the row is marked before the request goes out. *)
Send(c) ==
  /\ step[c] = "reserved"
  /\ requests' = [requests EXCEPT ![slot[c]].state = "sent"]
  /\ posted' = posted \cup {slot[c]}
  /\ Goto(c, "sent")
  /\ UNCHANGED <<purpose, slot, outcome, told, lock, terminal, lastError, lastIndex, exchange,
                 solverCalls, stopped, late>>

(* The exchange of a complete response is saved before it is recorded.     *)
Finish(c, o) ==
  /\ requests' = [requests EXCEPT ![slot[c]].state = RecordedAs(o)]
  /\ IF o \in {"unusable", "good"} THEN exchange' = slot[c] ELSE UNCHANGED exchange
  /\ IF o \in Failures THEN UNCHANGED lastIndex ELSE lastIndex' = slot[c]
  /\ Ended(c, o) /\ Goto(c, "recorded")
  /\ UNCHANGED <<purpose, slot, told, lock, terminal, lastError, posted, solverCalls, stopped, late>>

(* The input cannot be written: recorded like a lost connection, unsent.   *)
CannotSend(c) == step[c] = "reserved" /\ Finish(c, "broken")

(* http_post_with_deadline returns or kills its process at the deadline.   *)
Answer(c) == step[c] = "sent" /\ \E o \in Outcomes : Finish(c, o)

(* Fault: a success leaves the error of an earlier attempt in place. *)
SettleKeeping(c) ==
  /\ step[c] = "recorded"
  /\ lastError' = IF outcome[c] = "good" THEN lastError ELSE ErrorOf[outcome[c]]
  /\ terminal' = (terminal \/ Ends(outcome[c]))
  /\ lock' = 0 /\ Goto(c, "replying")
  /\ UNCHANGED <<purpose, slot, outcome, told, lastIndex, requests, posted, exchange, solverCalls,
                 stopped, late>>

(* The verdict of the request, then the lock is released.                  *)
Settle(c) ==
  /\ step[c] = "recorded"
  /\ lastError' = ErrorOf[outcome[c]]
  /\ terminal' = (terminal \/ Ends(outcome[c]))
  /\ lock' = 0 /\ Goto(c, "replying")
  /\ UNCHANGED <<purpose, slot, outcome, told, lastIndex, requests, posted, exchange, solverCalls,
                 stopped, late>>

(* The response is built without the lock, from the field of the bridge.   *)
Reply(c) ==
  /\ step[c] = "replying"
  /\ told' = [told EXCEPT ![c] = lastIndex]
  /\ Goto(c, "done")
  /\ UNCHANGED <<purpose, slot, outcome, lock, terminal, lastError, lastIndex, requests, posted,
                 exchange, solverCalls, stopped, late>>

Handle(c) ==
  \/ RefuseTerminal(c) \/ RefuseLate(c) \/ Admit(c) \/ Deny(c) \/ Reserve(c) \/ Send(c)
  \/ CannotSend(c) \/ Answer(c) \/ Settle(c) \/ Reply(c)

(* A local client connects.                                                *)
Arrive(c, p) ==
  /\ step[c] = "unused"
  /\ Goto(c, "waiting") /\ purpose' = [purpose EXCEPT ![c] = p]
  /\ UNCHANGED <<slot, outcome, told, lock, terminal, lastError, lastIndex, requests, posted,
                 exchange, solverCalls, stopped, late>>

=============================================================================

---------------------------- MODULE EngineProofs ----------------------------
(***************************************************************************)
(* Theorems about one EoH run (module EngineRun), for every number of      *)
(* calls, attempts, candidates, seeds and for every limit: the types, one  *)
(* request at a time and none after an unknown result, the evidence the    *)
(* engine selects on, and what a run is stopped or blamed for.             *)
(***************************************************************************)
EXTENDS EngineRun, FiniteSetTheorems, TLAPS

-----------------------------------------------------------------------------
(* The inductive invariant                                                 *)

(* The lock belongs to the call that is between admission and verdict.     *)
Critical == {"admitted", "reserved", "sent", "recorded"}
LockHeld == \A c \in Calls : step[c] \in Critical <=> lock = c

(* That call has the last request of the ledger, and a call has an outcome *)
(* once its request is recorded.                                           *)
LastSlot ==
  \A c \in Calls :
    /\ step[c] \in {"reserved", "sent", "recorded"} => slot[c] = Len(requests) /\ slot[c] # 0
    /\ step[c] \in {"unused", "waiting", "admitted", "reserved", "sent"} => outcome[c] = "none"
    /\ step[c] = "recorded" => outcome[c] \in Outcomes

CallsAreFor == \A c \in Calls : step[c] # "unused" => purpose[c] \in Purposes

(* A request that is not ended is the last one, of the call with the lock. *)
OpenIsLast ==
  \A i \in DOMAIN requests : requests[i].state \in {"reserved", "sent"} =>
    i = Len(requests) /\ lock \in Calls /\ step[lock] \in {"reserved", "sent"}

(* An unknown result ends the run, at the latest with its verdict.         *)
UnknownEnds ==
  (\E i \in DOMAIN requests : requests[i].state = "unknown") =>
    \/ lock = 0 /\ terminal
    \/ lock \in Calls /\ step[lock] = "recorded" /\ Ends(outcome[lock])

(* A call the worker left behind is answered, or is a repair it abandoned. *)
OthersAreBehind ==
  \A c \in Calls \ {call} :
    /\ step[c] \in {"unused", "sent", "recorded", "replying", "done"}
    /\ call \in Calls /\ (step[call] # "waiting" \/ purpose[call] = "repair") =>
         step[c] \in {"unused", "replying", "done"}

(* What the worker knows of its last call, wherever it is.                 *)
Left == {"sent", "recorded", "replying", "done"}
WorkerHasHeard ==
  /\ worker = "start" => call = 0 /\ \A c \in Calls : step[c] = "unused"
  /\ worker = "listen" => call \in Calls /\ step[call] # "unused"
  /\ worker \in {"next", "completed", "failed", "denied", "vanished"} =>
       /\ call \in Calls /\ step[call] \in Left
       /\ step[call] # "done" => purpose[call] = "repair"
  /\ worker \in {"evaluate", "repair", "mend"} =>
       call \in Calls /\ step[call] = "done" /\ outcome[call] = "good"

(* latest_exchange.json and the fields of the bridge describe the last     *)
(* call while its success is recorded, told and used.                      *)
GoodIsLatest ==
  call \in Calls /\ outcome[call] = "good" =>
    /\ step[call] \in {"recorded", "replying", "done"} => exchange = slot[call]
    /\ step[call] \in {"recorded", "replying"} => lastIndex = slot[call]
    /\ step[call] = "done" => told[call] = slot[call]

(* The errors a later success of the engine clears.                        *)
ProviderErrors == {"http_503", "provider_auth_invalid", "request_deadline",
                   "provider_connectivity_or_protocol_error", "generation_truncated"}
ErrorNames == ProviderErrors \cup {"evidence_storage_error", "none", "wall_time_exhausted",
                "session_stopped", "solver_budget_exhausted", "request_budget_exhausted"}
ErrorKnown == lastError \in ErrorNames

(* After a success, and for as long as a repair is on its way, no error of *)
(* the provider is left.                                                   *)
Clean ==
  call \in Calls =>
    /\ step[call] \in {"replying", "done"} /\ outcome[call] = "good" =>
         lastError \notin ProviderErrors
    /\ purpose[call] = "repair" /\ step[call] \in Critical \cup {"waiting"} =>
         lastError \notin ProviderErrors

(* While an error of the provider stands and a request is on its way, the  *)
(* worker waits for exactly that request.                                  *)
ErrorWaits ==
  lock # 0 /\ lastError \in ProviderErrors => ~terminal /\ worker = "listen" /\ lock = call

MonitorOrder ==
  /\ runner = "killing" \/ worker = "killed" => terminal
  /\ runner \in {"reading", "reported"} => ~Alive
  /\ result # "none" => runner = "reported"
  /\ late \/ reason # "request_budget_exhausted"

(* An error of the provider that stands is that of a request after which   *)
(* none succeeded, but perhaps the one whose verdict is still to come.     *)
LastIsBlamed ==
  lastError \in ProviderErrors =>
    \E c \in Calls :
      /\ outcome[c] \notin {"none", "denied", "good"} /\ step[c] \in {"replying", "done"}
      /\ \A d \in Calls : slot[d] > slot[c] /\ outcome[d] = "good" => step[d] = "recorded"

(* The candidate that is generated or evaluated has not been mended.       *)
CandidateIsNew ==
  /\ worker \in {"evaluate", "repair", "mend"} \/ (worker = "listen" /\ purpose[call] # "probe")
       => candidate \in 1..Candidates
  /\ worker \in {"evaluate", "repair"} \/ (worker = "listen" /\ purpose[call] = "generation")
       => mended[candidate] = "none"
  /\ \A k \in 1..Candidates : k > candidate => mended[k] = "none"

GatewayOrder ==
  LockHeld /\ LastSlot /\ CallsAreFor /\ OpenIsLast /\ UnknownEnds /\ UnknownIsLast
WorkerOrder == OthersAreBehind /\ WorkerHasHeard /\ CandidateIsNew
Provenance == GoodIsLatest /\ EvidenceNamesItsRequest /\ FitnessIsEvidenced
Blame == ErrorKnown /\ Clean /\ ErrorWaits /\ LastIsBlamed
EngineInv == /\ TypeOK /\ GatewayOrder /\ WorkerOrder /\ Provenance /\ MonitorOrder /\ Blame
             /\ BlameIsCurrent

-----------------------------------------------------------------------------
(* Which step changes what                                                 *)

callVars == <<step, purpose, slot, outcome, told, lock, lastIndex, requests, posted, exchange>>
ledgerVars == <<slot, outcome, told, lock, lastIndex, requests, posted, exchange>>

(* A step is one of the gateway, of the worker, of the monitor or of the   *)
(* outside.                                                                *)
LEMMA StepKinds ==
  ASSUME Next
  PROVE  \/ \E c \in Calls : Serve(c)
         \/ Work
         \/ Monitor
         \/ UNCHANGED <<callVars, terminal, lastError, solverCalls, workerVars, runnerVars>>
<1>1. CASE StopAsked
  BY <1>1 DEF StopAsked, callVars, workerVars, runnerVars
<1>2. CASE TimeIsUp
  BY <1>2 DEF TimeIsUp, callVars, workerVars, runnerVars
<1>3. QED  BY <1>1, <1>2 DEF Next

(* What the world outside leaves: the deadline passes once.                *)
LEMMA LateStays == ASSUME [Next]_vars PROVE late => late'
<1>1. ASSUME NEW c \in Calls, Serve(c) PROVE late' = late
  BY <1>1 DEF Serve, Handle, RefuseTerminal, RefuseLate, Admit, Deny, Reserve, Send, CannotSend,
              Answer, Finish, Settle, Reply
<1>2. CASE Work
  BY <1>2 DEF Work, Probe, NextCandidate, Complete, Succeed, Retry, GiveUp, RepairRefused,
              Abandon, NotEvaluated, EvaluateSeed, Evaluate, RepairSkipped, RepairTooLate,
              AskRepair, RepairUseless, Reevaluate, StartCall, Arrive, Charged, gatewayVars
<1>3. CASE Monitor
  BY <1>3 DEF Monitor, LookForStop, LookForEnd, Kill, WorkerGone, Report, Verdict, gatewayVars
<1>4. CASE StopAsked \/ TimeIsUp \/ UNCHANGED vars
  BY <1>4 DEF StopAsked, TimeIsUp, vars, gatewayVars
<1>5. QED  BY <1>1, <1>2, <1>3, <1>4 DEF Next

(* The next call of the worker arrives.                                    *)
Calling ==
  /\ call + 1 \in Calls /\ step[call + 1] = "unused"
  /\ call' = call + 1 /\ worker' = "listen"
  /\ step' = [step EXCEPT ![call + 1] = "waiting"]
  /\ UNCHANGED <<slot, outcome, told, lock, lastIndex, requests, posted, exchange>>

LEMMA WorkerMoves ==
  ASSUME Work
  PROVE  /\ UNCHANGED <<ledgerVars, terminal, lastError, stopped, late, runnerVars>>
         /\ \/ UNCHANGED <<step, purpose, call>>
            \/ Calling /\ \E p : purpose' = [purpose EXCEPT ![call + 1] = p]
<1>1. ASSUME NEW p, StartCall(p)
      PROVE  /\ UNCHANGED <<ledgerVars, terminal, lastError, stopped, late>>
             /\ Calling /\ purpose' = [purpose EXCEPT ![call + 1] = p]
  BY <1>1 DEF StartCall, Arrive, Goto, Calling, ledgerVars
<1>2. CASE Probe \/ NextCandidate \/ Retry \/ AskRepair
  BY <1>1, <1>2 DEF Probe, NextCandidate, Retry, AskRepair
<1>3. CASE Complete \/ Succeed \/ GiveUp \/ RepairRefused \/ Abandon \/ NotEvaluated
           \/ RepairSkipped \/ RepairTooLate \/ RepairUseless
  BY <1>3 DEF Complete, Succeed, GiveUp, RepairRefused, Abandon, NotEvaluated, RepairSkipped,
              RepairTooLate, RepairUseless, RepairFails, gatewayVars, ledgerVars, runnerVars
<1>4. CASE EvaluateSeed \/ Evaluate \/ Reevaluate
  BY <1>4 DEF EvaluateSeed, Evaluate, Reevaluate, Charged, ledgerVars, runnerVars
<1>5. QED  BY <1>2, <1>3, <1>4 DEF Work

LEMMA MonitorMoves ==
  ASSUME Monitor
  PROVE  /\ UNCHANGED <<callVars, solverCalls, stopped, late>>
         /\ UNCHANGED <<call, attempt, seeded, candidate, mended, fitness, evidence>>
         /\ \/ UNCHANGED <<terminal, lastError>>
            \/ terminal' = TRUE /\ lastError' = "session_stopped"
            \/ /\ terminal' = TRUE
               /\ lastError' = IF terminal THEN lastError ELSE "wall_time_exhausted"
         /\ worker' = worker \/ (Alive /\ worker' = "killed" /\ runner = "killing")
<1>1. CASE LookForStop
  BY <1>1 DEF LookForStop, Verdict, callVars, gatewayVars, workerVars
<1>2. CASE LookForEnd
  BY <1>2 DEF LookForEnd, Verdict, callVars, gatewayVars, workerVars
<1>3. CASE Kill
  BY <1>3 DEF Kill, callVars, gatewayVars
<1>4. CASE WorkerGone \/ Report
  BY <1>4 DEF WorkerGone, Report, callVars, gatewayVars, workerVars
<1>5. QED  BY <1>1, <1>2, <1>3, <1>4 DEF Monitor

-----------------------------------------------------------------------------
(* The ledger of requests                                                  *)

LEMMA RowAdded ==
  ASSUME NEW q \in Seq(RequestRow), NEW row \in RequestRow
  PROVE  /\ Append(q, row) \in Seq(RequestRow)
         /\ Len(Append(q, row)) = Len(q) + 1
         /\ \A i \in 1..Len(q) : Append(q, row)[i] = q[i]
         /\ Append(q, row)[Len(q) + 1] = row
OBVIOUS

LEMMA RowMarked ==
  ASSUME NEW q \in Seq(RequestRow), NEW k \in 1..Len(q), NEW s \in RequestStates
  PROVE  LET r == [q EXCEPT ![k].state = s] IN
         /\ r \in Seq(RequestRow) /\ Len(r) = Len(q)
         /\ \A i \in 1..Len(q) : r[i].state = IF i = k THEN s ELSE q[i].state
<1> DEFINE r == [q EXCEPT ![k].state = s]
<1>1. q[k] \in RequestRow /\ [q[k] EXCEPT !.state = s] \in RequestRow
  <2>1. q[k] \in RequestRow
    OBVIOUS
  <2>2. QED  BY <2>1 DEF RequestRow
<1>2. r \in Seq(RequestRow) /\ Len(r) = Len(q)
  BY <1>1
<1>3. ASSUME NEW i \in 1..Len(q) PROVE r[i].state = IF i = k THEN s ELSE q[i].state
  BY <1>1, <1>3 DEF RequestRow
<1>4. QED  BY <1>2, <1>3

LEMMA Records ==
  ASSUME NEW o \in Outcomes
  PROVE  /\ RecordedAs(o) \in RequestStates \ {"reserved", "sent"}
         /\ RecordedAs(o) = "unknown" => Ends(o)
         /\ ErrorOf[o] \in ErrorNames
         /\ ErrorOf[o] \in ProviderErrors <=> o \notin {"unsaved", "good"}
         /\ ErrorOf[o] = "none" <=> o = "good"
BY DEF RecordedAs, RequestStates, Ends, Outcomes, Failures, ErrorOf, ErrorNames, ProviderErrors

-----------------------------------------------------------------------------
(* The gateway                                                             *)

LEMMA GatewayStart == GatewayInit => GatewayTypeOK /\ GatewayOrder
<1> SUFFICES ASSUME GatewayInit PROVE GatewayTypeOK /\ GatewayOrder
  OBVIOUS
<1>1. /\ step \in [Calls -> Steps] /\ purpose \in [Calls -> Purposes \cup {"none"}]
      /\ outcome \in [Calls -> Outcomes \cup {"none", "denied"}]
  BY DEF GatewayInit, Steps
<1>2. /\ requests = <<>> /\ requests \in Seq(RequestRow) /\ Len(requests) = 0
  BY DEF GatewayInit
<1>3. GatewayTypeOK
  <2>1. /\ slot \in [Calls -> 0..Len(requests)] /\ told \in [Calls -> 0..Len(requests)]
        /\ lastIndex \in 0..Len(requests) /\ exchange \in 0..Len(requests)
    BY <1>2 DEF GatewayInit
  <2>2. /\ lock \in Calls \cup {0} /\ posted \subseteq DOMAIN requests
        /\ terminal \in BOOLEAN /\ late \in BOOLEAN /\ stopped \in BOOLEAN
        /\ solverCalls \in 0..SolverLimit
    BY DEF GatewayInit
  <2>3. QED  BY <1>1, <1>2, <2>1, <2>2 DEF GatewayTypeOK
<1>4. LockHeld /\ LastSlot /\ CallsAreFor
  BY GatewayAssumption DEF GatewayInit, LockHeld, LastSlot, CallsAreFor, Critical
<1>5. OpenIsLast /\ UnknownEnds /\ UnknownIsLast
  BY <1>2 DEF OpenIsLast, UnknownEnds, UnknownIsLast
<1>6. QED  BY <1>3, <1>4, <1>5 DEF GatewayOrder

(* The request of a call before its result.                                *)
LEMMA RequestInHand ==
  ASSUME GatewayTypeOK, LastSlot, NEW c \in Calls, step[c] \in {"reserved", "sent", "recorded"}
  PROVE  slot[c] = Len(requests) /\ slot[c] \in 1..Len(requests)
BY DEF GatewayTypeOK, LastSlot

(* What Finish does to the ledger. *)
LEMMA Finished ==
  ASSUME GatewayTypeOK, LastSlot, NEW c \in Calls, step[c] \in {"reserved", "sent"},
         NEW o \in Outcomes, Finish(c, o)
  PROVE  /\ requests' \in Seq(RequestRow) /\ Len(requests') = Len(requests)
         /\ \A i \in 1..Len(requests) :
              requests'[i].state = IF i = Len(requests) THEN RecordedAs(o) ELSE requests[i].state
<1>1. slot[c] = Len(requests) /\ slot[c] \in 1..Len(requests)
  BY RequestInHand
<1>2. requests \in Seq(RequestRow) /\ RecordedAs(o) \in RequestStates
  BY Records DEF GatewayTypeOK
<1>3. requests' = [requests EXCEPT ![slot[c]].state = RecordedAs(o)]
  BY DEF Finish
<1>4. QED  BY <1>1, <1>2, <1>3, RowMarked

LEMMA Marked ==
  ASSUME GatewayTypeOK, LastSlot, NEW c \in Calls, Send(c)
  PROVE  /\ requests' \in Seq(RequestRow) /\ Len(requests') = Len(requests)
         /\ \A i \in 1..Len(requests) :
              requests'[i].state = IF i = Len(requests) THEN "sent" ELSE requests[i].state
<1>1. slot[c] = Len(requests) /\ slot[c] \in 1..Len(requests)
  BY RequestInHand DEF Send
<1>2. requests \in Seq(RequestRow) /\ "sent" \in RequestStates
  BY DEF GatewayTypeOK, RequestStates
<1>3. requests' = [requests EXCEPT ![slot[c]].state = "sent"]
  BY DEF Send
<1>4. QED  BY <1>1, <1>2, <1>3, RowMarked

LEMMA Reserved ==
  ASSUME GatewayTypeOK, NEW c \in Calls, purpose[c] \in Purposes, Reserve(c)
  PROVE  /\ requests' \in Seq(RequestRow) /\ Len(requests') = Len(requests) + 1
         /\ \A i \in 1..Len(requests) : requests'[i] = requests[i]
         /\ requests'[Len(requests) + 1].state = "reserved"
<1>1. [purpose |-> purpose[c], state |-> "reserved"] \in RequestRow
  BY DEF RequestRow, RequestStates
<1>2. /\ requests \in Seq(RequestRow)
      /\ requests' = Append(requests, [purpose |-> purpose[c], state |-> "reserved"])
  BY DEF GatewayTypeOK, Reserve
<1>3. QED  BY <1>1, <1>2, RowAdded

CallTypes ==
  /\ step \in [Calls -> Steps] /\ purpose \in [Calls -> Purposes \cup {"none"}]
  /\ outcome \in [Calls -> Outcomes \cup {"none", "denied"}]
  /\ lock \in Calls \cup {0}
IndexTypes ==
  /\ slot \in [Calls -> 0..Len(requests)] /\ told \in [Calls -> 0..Len(requests)]
  /\ lastIndex \in 0..Len(requests) /\ exchange \in 0..Len(requests)
  /\ posted \subseteq 1..Len(requests) /\ requests \in Seq(RequestRow)
FlagTypes ==
  /\ terminal \in BOOLEAN /\ late \in BOOLEAN /\ stopped \in BOOLEAN
  /\ solverCalls \in 0..SolverLimit

LEMMA GatewayTypes == GatewayTypeOK <=> CallTypes /\ IndexTypes /\ FlagTypes
<1>1. requests \in Seq(RequestRow) => DOMAIN requests = 1..Len(requests)
  OBVIOUS
<1>2. QED  BY <1>1 DEF GatewayTypeOK, CallTypes, IndexTypes, FlagTypes

(* How a handler moves its call and the lock.                              *)
LEMMA HandlerMoves ==
  ASSUME NEW c \in Calls, Handle(c)
  PROVE  /\ UNCHANGED purpose
         /\ \/ /\ step[c] = "waiting" /\ lock = 0 /\ lock' = 0
               /\ step' = [step EXCEPT ![c] = "replying"]
               /\ outcome' = [outcome EXCEPT ![c] = "denied"]
            \/ /\ step[c] = "waiting" /\ lock = 0 /\ lock' = c /\ ~terminal
               /\ step' = [step EXCEPT ![c] = "admitted"] /\ outcome' = outcome
            \/ /\ step[c] = "admitted" /\ lock' = 0
               /\ step' = [step EXCEPT ![c] = "replying"]
               /\ outcome' = [outcome EXCEPT ![c] = "denied"]
            \/ /\ step[c] = "admitted" /\ lock' = lock
               /\ step' = [step EXCEPT ![c] = "reserved"] /\ outcome' = outcome
            \/ /\ step[c] = "reserved" /\ lock' = lock
               /\ step' = [step EXCEPT ![c] = "sent"] /\ outcome' = outcome
            \/ /\ step[c] \in {"reserved", "sent"} /\ lock' = lock
               /\ step' = [step EXCEPT ![c] = "recorded"]
               /\ \E o \in Outcomes : outcome' = [outcome EXCEPT ![c] = o]
            \/ /\ step[c] = "recorded" /\ lock' = 0 /\ step' = [step EXCEPT ![c] = "replying"]
               /\ outcome' = outcome
            \/ /\ step[c] = "replying" /\ lock' = lock /\ step' = [step EXCEPT ![c] = "done"]
               /\ outcome' = outcome
<1>1. CASE RefuseTerminal(c) \/ RefuseLate(c) \/ Admit(c)
  BY <1>1 DEF RefuseTerminal, RefuseLate, Admit, Enter, MayForward, Goto, Ended
<1>2. CASE Deny(c) \/ Reserve(c) \/ Send(c)
  BY <1>2 DEF Deny, Reserve, Send, Goto, Ended
<1>3. ASSUME NEW o \in Outcomes, Finish(c, o), step[c] \in {"reserved", "sent"}
      PROVE  /\ UNCHANGED purpose /\ lock' = lock /\ step' = [step EXCEPT ![c] = "recorded"]
             /\ outcome' = [outcome EXCEPT ![c] = o]
  BY <1>3 DEF Finish, Goto, Ended
<1>4. CASE CannotSend(c) \/ Answer(c)
  BY <1>3, <1>4 DEF CannotSend, Answer, Outcomes, Failures
<1>5. CASE Settle(c) \/ Reply(c)
  BY <1>5 DEF Settle, Reply, Goto
<1>6. QED  BY <1>1, <1>2, <1>4, <1>5 DEF Handle

LEMMA HandlerKeepsCalls ==
  ASSUME CallTypes, LockHeld, CallsAreFor, NEW c \in Calls, Handle(c)
  PROVE  CallTypes' /\ LockHeld' /\ CallsAreFor'
<1>1. CallTypes'
  BY HandlerMoves DEF CallTypes, Steps
<1>2. LockHeld'
  BY HandlerMoves, GatewayAssumption DEF CallTypes, LockHeld, Critical
<1>3. CallsAreFor'
  BY HandlerMoves DEF CallTypes, CallsAreFor
<1>4. QED  BY <1>1, <1>2, <1>3

(* What a handler does to the ledger and to the shared fields.             *)
LEMMA HandlerKeepsIndexes ==
  ASSUME GatewayTypeOK, LastSlot, CallsAreFor, NEW c \in Calls, Handle(c)
  PROVE  IndexTypes' /\ Len(requests) <= Len(requests')
<1> USE GatewayTypes
<1>1. CASE RefuseTerminal(c) \/ RefuseLate(c) \/ Admit(c) \/ Deny(c) \/ Settle(c) \/ Reply(c)
  <2>1. /\ UNCHANGED <<slot, requests, posted, exchange>>
        /\ lastIndex' \in {0, lastIndex}
        /\ told' = told \/ told' = [told EXCEPT ![c] = lastIndex]
    BY <1>1 DEF RefuseTerminal, RefuseLate, Admit, Enter, Deny, Settle, Reply
  <2>2. QED  BY <2>1 DEF IndexTypes
<1>2. CASE Reserve(c)
  <2>1. /\ requests' \in Seq(RequestRow) /\ Len(requests') = Len(requests) + 1
    BY <1>2, Reserved DEF CallsAreFor, Reserve
  <2>2. /\ slot' = [slot EXCEPT ![c] = Len(requests')] /\ lastIndex' = Len(requests')
        /\ UNCHANGED <<told, posted, exchange>>
    BY <1>2 DEF Reserve
  <2>3. Len(requests) \in Nat
    BY DEF IndexTypes
  <2>4. 0..Len(requests) \subseteq 0..Len(requests') /\ Len(requests') \in 0..Len(requests')
    BY <2>1, <2>3
  <2>5. QED  BY <2>1, <2>2, <2>3, <2>4 DEF IndexTypes
<1>3. CASE Send(c)
  <2>1. requests' \in Seq(RequestRow) /\ Len(requests') = Len(requests)
    BY <1>3, Marked
  <2>2. slot[c] \in 1..Len(requests)
    BY <1>3, RequestInHand DEF Send
  <2>3. posted' = posted \cup {slot[c]} /\ UNCHANGED <<slot, told, lastIndex, exchange>>
    BY <1>3 DEF Send
  <2>4. QED  BY <2>1, <2>2, <2>3 DEF IndexTypes
<1>4. ASSUME NEW o \in Outcomes, Finish(c, o), step[c] \in {"reserved", "sent"}
      PROVE  IndexTypes' /\ Len(requests) <= Len(requests')
  <2>1. requests' \in Seq(RequestRow) /\ Len(requests') = Len(requests)
    BY <1>4, Finished
  <2>2. slot[c] \in 0..Len(requests)
    BY DEF IndexTypes
  <2>3. /\ exchange' \in {slot[c], exchange} /\ lastIndex' \in {slot[c], lastIndex}
        /\ UNCHANGED <<slot, told, posted>>
    BY <1>4 DEF Finish
  <2>4. QED  BY <2>1, <2>2, <2>3 DEF IndexTypes
<1>5. CASE CannotSend(c) \/ Answer(c)
  BY <1>4, <1>5 DEF CannotSend, Answer, Outcomes, Failures
<1>6. QED  BY <1>1, <1>2, <1>3, <1>5 DEF Handle

LEMMA HandlerKeepsFlags ==
  ASSUME FlagTypes, NEW c \in Calls, Handle(c)
  PROVE  FlagTypes' /\ UNCHANGED solverCalls /\ (terminal => terminal')
<1>1. UNCHANGED <<late, stopped, solverCalls>>
  BY DEF Handle, RefuseTerminal, RefuseLate, Admit, Deny, Reserve, Send, CannotSend, Answer,
         Finish, Settle, Reply
<1>2. terminal' \in {terminal, TRUE, terminal \/ Ends(outcome[c])}
  BY DEF Handle, RefuseTerminal, RefuseLate, Admit, Deny, Reserve, Send, CannotSend, Answer,
         Finish, Settle, Reply
<1>3. QED  BY <1>1, <1>2 DEF FlagTypes

(* The slots: only a reservation gives one.                                *)
LEMMA SlotsMove ==
  ASSUME GatewayTypeOK, LastSlot, CallsAreFor, NEW c \in Calls, Handle(c)
  PROVE  \/ /\ Reserve(c) /\ Len(requests') = Len(requests) + 1
            /\ slot' = [slot EXCEPT ![c] = Len(requests) + 1]
         \/ slot' = slot /\ Len(requests') = Len(requests)
<1>1. CASE RefuseTerminal(c) \/ RefuseLate(c) \/ Admit(c) \/ Deny(c) \/ Settle(c) \/ Reply(c)
  BY <1>1 DEF RefuseTerminal, RefuseLate, Admit, Deny, Settle, Reply
<1>2. CASE Reserve(c)
  <2>1. Len(requests') = Len(requests) + 1
    BY <1>2, Reserved DEF CallsAreFor, Reserve
  <2>2. QED  BY <1>2, <2>1 DEF Reserve
<1>3. CASE Send(c)
  BY <1>3, Marked DEF Send
<1>4. ASSUME NEW o \in Outcomes, Finish(c, o), step[c] \in {"reserved", "sent"}
      PROVE  slot' = slot /\ Len(requests') = Len(requests)
  BY <1>4, Finished DEF Finish
<1>5. CASE CannotSend(c) \/ Answer(c)
  BY <1>4, <1>5 DEF CannotSend, Answer, Outcomes, Failures
<1>6. QED  BY <1>1, <1>2, <1>3, <1>5 DEF Handle

LEMMA HandlerKeepsSlots ==
  ASSUME GatewayTypeOK, LockHeld, LastSlot, CallsAreFor, NEW c \in Calls, Handle(c)
  PROVE  LastSlot'
<1>1. CallTypes /\ IndexTypes /\ CallTypes' /\ LockHeld' /\ Len(requests) \in Nat
  BY GatewayTypes, HandlerKeepsCalls DEF IndexTypes
<1>2. ASSUME NEW d \in Calls, step'[d] \in {"reserved", "sent", "recorded"}
      PROVE  slot'[d] = Len(requests') /\ slot'[d] # 0
  <2>1. CASE Reserve(c) /\ Len(requests') = Len(requests) + 1
             /\ slot' = [slot EXCEPT ![c] = Len(requests) + 1]
    <3>1. step[c] = "admitted" /\ step' = [step EXCEPT ![c] = "reserved"]
      BY <2>1 DEF Reserve, Goto
    <3>2. d = c
      BY <1>1, <1>2, <3>1 DEF CallTypes, LockHeld, Critical
    <3>3. QED  BY <1>1, <2>1, <3>2 DEF IndexTypes
  <2>2. CASE slot' = slot /\ Len(requests') = Len(requests)
    <3>1. step[d] \in {"reserved", "sent", "recorded"} \/ Reserve(c)
      BY <1>1, <1>2 DEF CallTypes, Handle, RefuseTerminal, RefuseLate, Admit, Deny, Send,
                        CannotSend, Answer, Finish, Settle, Reply, Goto
    <3>2. Reserve(c) => FALSE
      <4>1. ASSUME Reserve(c) PROVE FALSE
        BY <1>1, <2>2, <4>1, Reserved DEF CallsAreFor, Reserve
      <4>2. QED  BY <4>1
    <3>3. QED  BY <2>2, <3>1, <3>2 DEF LastSlot
  <2>3. QED  BY <2>1, <2>2, SlotsMove
<1>3. ASSUME NEW d \in Calls
      PROVE  /\ step'[d] \in {"unused", "waiting", "admitted", "reserved", "sent"} =>
                  outcome'[d] = "none"
             /\ step'[d] = "recorded" => outcome'[d] \in Outcomes
  BY <1>1, HandlerMoves DEF CallTypes, LastSlot
<1>4. QED  BY <1>2, <1>3 DEF LastSlot

LEMMA HandlerKeepsRows ==
  ASSUME GatewayTypeOK, GatewayOrder, NEW c \in Calls, Handle(c)
  PROVE  OpenIsLast' /\ UnknownEnds' /\ UnknownIsLast'
<1> USE DEF GatewayOrder
<1>1. /\ CallTypes /\ IndexTypes /\ CallTypes' /\ IndexTypes' /\ FlagTypes /\ LockHeld'
      /\ Len(requests) \in Nat /\ requests \in Seq(RequestRow) /\ 0 \notin Calls
  <2>1. CallTypes /\ IndexTypes /\ FlagTypes
    BY GatewayTypes
  <2>2. /\ LockHeld /\ LastSlot /\ CallsAreFor
    OBVIOUS
  <2>3. CallTypes' /\ LockHeld'
    BY <2>1, <2>2, HandlerKeepsCalls
  <2>4. IndexTypes'
    BY <2>2, HandlerKeepsIndexes
  <2>5. Len(requests) \in Nat /\ requests \in Seq(RequestRow)
    BY <2>1 DEF IndexTypes
  <2>6. 0 \notin Calls
    BY GatewayAssumption
  <2>7. QED  BY <2>1, <2>3, <2>4, <2>5, <2>6
<1>2. DOMAIN requests = 1..Len(requests) /\ DOMAIN requests' = 1..Len(requests')
  BY <1>1 DEF IndexTypes
<1>3. CASE RefuseTerminal(c) \/ RefuseLate(c) \/ Admit(c)
  <2>1. /\ step[c] = "waiting" /\ lock = 0 /\ requests' = requests /\ lock' \in {0, c}
        /\ step' = [step EXCEPT ![c] = IF lock' = 0 THEN "replying" ELSE "admitted"]
        /\ lock' = c => ~terminal /\ lock = 0
        /\ lock' = 0 => terminal'
    BY <1>1, <1>3 DEF RefuseTerminal, RefuseLate, Admit, Enter, MayForward, Goto
  <2>2. \A i \in DOMAIN requests : requests[i].state \notin {"reserved", "sent"}
    BY <1>1, <2>1 DEF OpenIsLast
  <2>3. (\E i \in DOMAIN requests : requests[i].state = "unknown") => terminal
    BY <1>1, <2>1 DEF UnknownEnds
  <2>4. QED  BY <2>1, <2>2, <2>3 DEF OpenIsLast, UnknownEnds, UnknownIsLast
<1>4. CASE Deny(c)
  <2>1. step[c] = "admitted" /\ lock' = 0 /\ terminal' = TRUE /\ requests' = requests
    BY <1>4 DEF Deny
  <2>2. lock = c
    BY <2>1 DEF LockHeld, Critical
  <2>3. QED  BY <2>1, <2>2 DEF OpenIsLast, UnknownEnds, UnknownIsLast
<1>5. CASE Reserve(c)
  <2>1. /\ step[c] = "admitted" /\ lock' = lock
        /\ step' = [step EXCEPT ![c] = "reserved"]
    BY <1>5 DEF Reserve, Goto
  <2>2. lock = c /\ step'[c] = "reserved"
    BY <1>1, <2>1 DEF LockHeld, Critical, CallTypes
  <2>3. /\ Len(requests') = Len(requests) + 1
        /\ \A i \in 1..Len(requests) : requests'[i] = requests[i]
        /\ requests'[Len(requests) + 1].state = "reserved"
    BY <1>5, <2>1, Reserved DEF CallsAreFor
  <2>4. \A i \in 1..Len(requests) : requests[i].state \notin {"reserved", "sent", "unknown"}
    BY <1>1, <1>2, <2>1, <2>2 DEF OpenIsLast, UnknownEnds, UnknownIsLast
  <2>5. \A i \in 1..Len(requests') : i = Len(requests') \/ i \in 1..Len(requests)
    BY <1>1, <2>3
  <2>6. QED  BY <1>2, <2>1, <2>2, <2>3, <2>4, <2>5 DEF OpenIsLast, UnknownEnds, UnknownIsLast
<1>6. CASE Send(c)
  <2>1. /\ step[c] = "reserved" /\ lock' = lock /\ step' = [step EXCEPT ![c] = "sent"]
    BY <1>6 DEF Send, Goto
  <2>2. lock = c /\ step'[c] = "sent"
    BY <1>1, <2>1 DEF LockHeld, Critical, CallTypes
  <2>3. /\ Len(requests') = Len(requests)
        /\ \A i \in 1..Len(requests) :
              requests'[i].state = IF i = Len(requests) THEN "sent" ELSE requests[i].state
    BY <1>6, Marked
  <2>4. \A i \in 1..Len(requests) : requests[i].state # "unknown"
    BY <1>1, <1>2, <2>1, <2>2 DEF UnknownEnds
  <2>5. QED  BY <1>2, <2>1, <2>2, <2>3, <2>4 DEF OpenIsLast, UnknownEnds, UnknownIsLast
<1>7. ASSUME NEW o \in Outcomes, Finish(c, o), step[c] \in {"reserved", "sent"}
      PROVE  OpenIsLast' /\ UnknownEnds' /\ UnknownIsLast'
  <2>1. /\ lock' = lock /\ step' = [step EXCEPT ![c] = "recorded"]
        /\ outcome' = [outcome EXCEPT ![c] = o]
    BY <1>7 DEF Finish, Goto, Ended
  <2>2. lock = c /\ step'[c] = "recorded" /\ outcome'[c] = o
    BY <1>1, <1>7, <2>1 DEF LockHeld, Critical, CallTypes
  <2>3. /\ Len(requests') = Len(requests)
        /\ \A i \in 1..Len(requests) :
              requests'[i].state = IF i = Len(requests) THEN RecordedAs(o) ELSE requests[i].state
    BY <1>7, Finished
  <2>4. \A i \in 1..Len(requests) : requests[i].state # "unknown"
    BY <1>1, <1>2, <1>7, <2>2 DEF UnknownEnds
  <2>5. \A i \in 1..Len(requests) : requests'[i].state \notin {"reserved", "sent"}
    BY <1>2, <2>3, Records DEF OpenIsLast
  <2>6. (\E i \in 1..Len(requests) : requests'[i].state = "unknown") => Ends(o)
    BY <2>3, <2>4, Records
  <2>7. QED  BY <1>2, <2>1, <2>2, <2>3, <2>5, <2>6 DEF OpenIsLast, UnknownEnds, UnknownIsLast
<1>8. CASE CannotSend(c) \/ Answer(c)
  BY <1>7, <1>8 DEF CannotSend, Answer, Outcomes, Failures
<1>9. CASE Settle(c)
  <2>1. /\ step[c] = "recorded" /\ lock' = 0 /\ requests' = requests
        /\ terminal' = (terminal \/ Ends(outcome[c]))
    BY <1>9 DEF Settle
  <2>2. lock = c
    BY <2>1 DEF LockHeld, Critical
  <2>3. QED  BY <1>1, <2>1, <2>2 DEF OpenIsLast, UnknownEnds, UnknownIsLast
<1>10. CASE Reply(c)
  <2>1. /\ step[c] = "replying" /\ step' = [step EXCEPT ![c] = "done"]
        /\ UNCHANGED <<lock, requests, terminal, outcome>>
    BY <1>10 DEF Reply, Goto
  <2>2. lock # c
    BY <2>1 DEF LockHeld, Critical
  <2>3. QED  BY <1>1, <2>1, <2>2 DEF OpenIsLast, UnknownEnds, UnknownIsLast, CallTypes
<1>11. QED  BY <1>3, <1>4, <1>5, <1>6, <1>8, <1>9, <1>10 DEF Handle

LEMMA HandlerKeepsGateway ==
  ASSUME GatewayTypeOK, GatewayOrder, NEW c \in Calls, Handle(c)
  PROVE  GatewayTypeOK' /\ GatewayOrder'
<1>1. CallTypes' /\ IndexTypes' /\ FlagTypes' /\ LockHeld' /\ CallsAreFor'
  BY GatewayTypes, HandlerKeepsCalls, HandlerKeepsIndexes, HandlerKeepsFlags DEF GatewayOrder
<1>2. LastSlot' /\ OpenIsLast' /\ UnknownEnds' /\ UnknownIsLast'
  BY HandlerKeepsSlots, HandlerKeepsRows DEF GatewayOrder
<1>3. GatewayTypeOK'
  <2>1. DOMAIN requests' = 1..Len(requests')
    BY <1>1 DEF IndexTypes
  <2>2. QED  BY <1>1, <2>1 DEF GatewayTypeOK, CallTypes, IndexTypes, FlagTypes
<1>4. QED  BY <1>1, <1>2, <1>3 DEF GatewayOrder

-----------------------------------------------------------------------------
(* The calls of the worker                                                 *)

(* The four calls and what the worker has behind it when it makes them.    *)
CallMade(p) ==
  \/ worker = "start" /\ p = "probe" /\ UNCHANGED <<candidate, mended>>
  \/ /\ worker = "next" /\ p = "generation" /\ candidate < Candidates
     /\ candidate' = candidate + 1 /\ UNCHANGED mended
  \/ /\ worker = "listen" /\ step[call] = "done" /\ outcome[call] # "good"
     /\ p = purpose[call] /\ p # "repair" /\ UNCHANGED <<candidate, mended>>
  \/ /\ worker = "repair" /\ p = "repair" /\ UNCHANGED candidate
     /\ mended' = [mended EXCEPT ![candidate] = "asked"]

LEMMA WorkerCalls ==
  ASSUME WorkerHasHeard, CallsAreFor, Work
  PROVE  \/ UNCHANGED <<step, purpose, call>>
         \/ Calling /\ \E p \in Purposes :
                         CallMade(p) /\ purpose' = [purpose EXCEPT ![call + 1] = p]
<1>1. ASSUME NEW p, StartCall(p)
      PROVE  Calling /\ purpose' = [purpose EXCEPT ![call + 1] = p]
  BY <1>1 DEF StartCall, Arrive, Goto, Calling
<1>2. CASE Probe
  <2>1. StartCall("probe") /\ CallMade("probe") /\ "probe" \in Purposes
    BY <1>2 DEF Probe, CallMade, Purposes
  <2>2. QED  BY <1>1, <2>1
<1>3. CASE NextCandidate
  <2>1. StartCall("generation") /\ CallMade("generation") /\ "generation" \in Purposes
    BY <1>3 DEF NextCandidate, CallMade, Purposes
  <2>2. QED  BY <1>1, <2>1
<1>4. CASE Retry
  <2>1. StartCall(purpose[call]) /\ CallMade(purpose[call])
    BY <1>4 DEF Retry, Failed, Heard, CallMade
  <2>2. purpose[call] \in Purposes
    BY <1>4 DEF Retry, Failed, Heard, WorkerHasHeard, CallsAreFor
  <2>3. QED  BY <1>1, <2>1, <2>2
<1>5. CASE AskRepair
  <2>1. StartCall("repair") /\ CallMade("repair") /\ "repair" \in Purposes
    BY <1>5 DEF AskRepair, CallMade, Purposes
  <2>2. QED  BY <1>1, <2>1
<1>6. CASE Complete \/ Succeed \/ GiveUp \/ RepairRefused \/ Abandon \/ NotEvaluated
           \/ RepairSkipped \/ RepairTooLate \/ RepairUseless
  BY <1>6 DEF Complete, Succeed, GiveUp, RepairRefused, Abandon, NotEvaluated, RepairSkipped,
              RepairTooLate, RepairUseless, RepairFails, gatewayVars
<1>7. CASE EvaluateSeed \/ Evaluate \/ Reevaluate
  BY <1>7 DEF EvaluateSeed, Evaluate, Reevaluate, Charged
<1>8. QED  BY <1>2, <1>3, <1>4, <1>5, <1>6, <1>7 DEF Work

(* A new call changes nothing of the others.                               *)
LEMMA CallingKeepsGateway ==
  ASSUME GatewayTypeOK, GatewayOrder, Calling, terminal' = terminal,
         NEW p \in Purposes, purpose' = [purpose EXCEPT ![call + 1] = p]
  PROVE  CallTypes' /\ IndexTypes' /\ GatewayOrder'
<1> DEFINE n == call + 1
<1>1. CallTypes /\ IndexTypes /\ n \in Calls
  BY GatewayTypes DEF Calling
<1>2. /\ step' = [step EXCEPT ![n] = "waiting"] /\ step[n] = "unused"
      /\ UNCHANGED <<slot, outcome, told, lock, lastIndex, requests, posted, exchange>>
  BY DEF Calling
<1>3. CallTypes' /\ IndexTypes' /\ CallsAreFor'
  BY <1>1, <1>2 DEF CallTypes, IndexTypes, GatewayOrder, CallsAreFor, Steps
<1>4. LockHeld' /\ LastSlot'
  BY <1>1, <1>2 DEF CallTypes, GatewayOrder, LockHeld, LastSlot, Critical
<1>5. lock # n
  BY <1>1, <1>2 DEF GatewayOrder, LockHeld, Critical
<1>6. OpenIsLast' /\ UnknownEnds' /\ UnknownIsLast'
  BY <1>1, <1>2, <1>5 DEF CallTypes, GatewayOrder, OpenIsLast, UnknownEnds, UnknownIsLast
<1>7. QED  BY <1>3, <1>4, <1>6 DEF GatewayOrder

LEMMA FrameKeepsGateway ==
  ASSUME GatewayTypeOK, GatewayOrder, UNCHANGED callVars, terminal => terminal'
  PROVE  CallTypes' /\ IndexTypes' /\ GatewayOrder'
<1>1. UNCHANGED <<step, purpose, slot, outcome, told, lock, lastIndex, requests, posted, exchange>>
  BY DEF callVars
<1>2. CallTypes' /\ IndexTypes'
  BY <1>1, GatewayTypes DEF CallTypes, IndexTypes
<1>3. LockHeld' /\ LastSlot' /\ CallsAreFor' /\ OpenIsLast' /\ UnknownIsLast'
  BY <1>1 DEF GatewayOrder, LockHeld, LastSlot, CallsAreFor, OpenIsLast, UnknownIsLast
<1>4. UnknownEnds'
  BY <1>1 DEF GatewayOrder, UnknownEnds
<1>5. QED  BY <1>2, <1>3, <1>4 DEF GatewayOrder

(* The flags and the count of evaluations. *)
LEMMA FlagsKept ==
  ASSUME FlagTypes, [Next]_vars
  PROVE  FlagTypes' /\ (terminal => terminal')
<1>1. ASSUME NEW c \in Calls, Serve(c) PROVE FlagTypes' /\ (terminal => terminal')
  BY <1>1, HandlerKeepsFlags DEF Serve
<1>2. CASE Work
  <2>1. UNCHANGED <<terminal, stopped, late>>
    BY <1>2, WorkerMoves
  <2>2. \/ solverCalls' = solverCalls
        \/ solverCalls' = solverCalls + 1 /\ solverCalls < SolverLimit
    <3>1. CASE EvaluateSeed \/ Evaluate \/ Reevaluate
      BY <3>1, GatewayAssumption
         DEF EvaluateSeed, Evaluate, Reevaluate, Charged, SolverDenied, FlagTypes
    <3>2. ASSUME NEW p, StartCall(p) PROVE solverCalls' = solverCalls
      BY <3>2 DEF StartCall, Arrive
    <3>3. CASE Probe \/ NextCandidate \/ Retry \/ AskRepair
      BY <3>2, <3>3 DEF Probe, NextCandidate, Retry, AskRepair
    <3>4. QED
      BY <1>2, <3>1, <3>3
         DEF Work, Complete, Succeed, GiveUp, RepairRefused, Abandon, NotEvaluated,
             RepairSkipped, RepairTooLate, RepairUseless, gatewayVars
  <2>3. QED  BY <2>1, <2>2, GatewayAssumption DEF FlagTypes
<1>3. CASE Monitor
  BY <1>3, MonitorMoves DEF FlagTypes
<1>4. CASE StopAsked \/ TimeIsUp \/ UNCHANGED vars
  BY <1>4 DEF StopAsked, TimeIsUp, vars, gatewayVars, FlagTypes
<1>5. QED  BY <1>1, <1>2, <1>3, <1>4 DEF Next

LEMMA GatewayKept ==
  ASSUME GatewayTypeOK, GatewayOrder, WorkerHasHeard, [Next]_vars
  PROVE  GatewayTypeOK' /\ GatewayOrder'
<1>1. FlagTypes' /\ (terminal => terminal') /\ CallsAreFor
  BY FlagsKept, GatewayTypes DEF GatewayOrder
<1>2. CallTypes' /\ IndexTypes' /\ FlagTypes' => GatewayTypeOK'
  <2>1. IndexTypes' => DOMAIN requests' = 1..Len(requests')
    BY DEF IndexTypes
  <2>2. QED  BY <2>1 DEF GatewayTypeOK, CallTypes, IndexTypes, FlagTypes
<1>3. ASSUME UNCHANGED callVars PROVE GatewayTypeOK' /\ GatewayOrder'
  BY <1>1, <1>2, <1>3, FrameKeepsGateway
<1>4. ASSUME NEW c \in Calls, Serve(c) PROVE GatewayTypeOK' /\ GatewayOrder'
  BY <1>4, HandlerKeepsGateway DEF Serve
<1>5. CASE Work
  <2>1. UNCHANGED <<ledgerVars, terminal>>
    BY <1>5, WorkerMoves
  <2>2. CASE UNCHANGED <<step, purpose, call>>
    <3>1. UNCHANGED callVars
      BY <2>1, <2>2 DEF ledgerVars, callVars
    <3>2. QED  BY <1>3, <3>1
  <2>3. ASSUME Calling, NEW p \in Purposes, purpose' = [purpose EXCEPT ![call + 1] = p]
        PROVE  GatewayTypeOK' /\ GatewayOrder'
    BY <1>1, <1>2, <2>1, <2>3, CallingKeepsGateway
  <2>4. QED  BY <1>1, <1>5, <2>2, <2>3, WorkerCalls
<1>6. CASE Monitor
  BY <1>3, <1>6, MonitorMoves
<1>7. CASE UNCHANGED <<callVars, terminal, lastError, solverCalls, workerVars, runnerVars>>
           \/ UNCHANGED vars
  BY <1>3, <1>7 DEF vars, gatewayVars, callVars
<1>8. QED  BY <1>4, <1>5, <1>6, <1>7, StepKinds

-----------------------------------------------------------------------------
(* The worker                                                              *)

WorkerTypes ==
  /\ worker \in {"start", "listen", "evaluate", "repair", "mend", "next"} \cup Exits
  /\ call \in Calls \cup {0} /\ attempt \in 0..Attempts
  /\ seeded \in 0..Seeds /\ candidate \in 0..Candidates
  /\ mended \in [1..Candidates -> {"none", "asked", "failed", "succeeded"}]
  /\ fitness \in [1..Candidates -> {"none", "original", "repair_1"}]
EvidenceTypes ==
  evidence \subseteq [candidate : 1..Candidates, revision : {"original", "repair_1"},
                      valid : BOOLEAN, source : 0..Len(requests), from : 0..Len(requests)]
RunnerTypes == runner \in {"stop", "end", "killing", "reading", "reported"}

LEMMA TypeGroups ==
  TypeOK <=> GatewayTypeOK /\ WorkerTypes /\ EvidenceTypes /\ RunnerTypes
BY DEF TypeOK, WorkerTypes, EvidenceTypes, RunnerTypes

LEMMA AfterCalls == \A p \in Purposes : AfterCall[p] \in {"next", "evaluate", "mend"}
BY DEF Purposes, AfterCall

LEMMA WorkerKeepsTypes ==
  ASSUME WorkerTypes, WorkerHasHeard, CallsAreFor, Work
  PROVE  WorkerTypes'
<1> USE EngineAssumption DEF WorkerTypes, Exits
<1>1. ASSUME NEW p, StartCall(p) PROVE call' \in Calls \cup {0} /\ worker' = "listen"
  BY <1>1 DEF StartCall
<1>2. CASE Probe
  BY <1>1, <1>2 DEF Probe
<1>3. CASE NextCandidate
  BY <1>1, <1>3 DEF NextCandidate
<1>4. CASE Retry
  BY <1>1, <1>4 DEF Retry
<1>5. CASE AskRepair
  BY <1>1, <1>5 DEF AskRepair
<1>6. CASE Complete \/ GiveUp \/ RepairSkipped
  BY <1>6 DEF Complete, GiveUp, RepairSkipped
<1>7. CASE Succeed
  <2>1. purpose[call] \in Purposes
    BY <1>7 DEF Succeed, Heard, WorkerHasHeard, CallsAreFor
  <2>2. QED  BY <1>7, <2>1, AfterCalls DEF Succeed
<1>8. CASE RepairRefused \/ Abandon \/ RepairTooLate \/ RepairUseless
  BY <1>8 DEF RepairRefused, Abandon, RepairTooLate, RepairUseless, RepairFails
<1>9. CASE NotEvaluated
  BY <1>9 DEF NotEvaluated, Seeding
<1>10. CASE EvaluateSeed
  BY <1>10 DEF EvaluateSeed, Seeding
<1>11. CASE Evaluate
  BY <1>11 DEF Evaluate
<1>12. CASE Reevaluate
  BY <1>12 DEF Reevaluate, Mend
<1>13. QED
  BY <1>2, <1>3, <1>4, <1>5, <1>6, <1>7, <1>8, <1>9, <1>10, <1>11, <1>12 DEF Work

(* Where the worker goes.                                                  *)
LEMMA WorkerKeepsHearing ==
  ASSUME CallTypes, WorkerTypes, WorkerHasHeard, CallsAreFor, Work
  PROVE  WorkerHasHeard'
<1> USE DEF WorkerHasHeard, Left
<1>1. CASE Calling
  BY <1>1 DEF Calling, CallTypes
<1>2. CASE UNCHANGED <<step, purpose, call>>
  <2> USE <1>2
  <2>1. UNCHANGED outcome
    BY WorkerMoves DEF ledgerVars
  <2>2. CASE Complete \/ RepairSkipped
    BY <2>1, <2>2 DEF Complete, RepairSkipped
  <2>3. CASE Succeed
    <3>1. purpose[call] \in Purposes
      BY <2>3 DEF Succeed, Heard, CallsAreFor
    <3>2. QED  BY <2>1, <2>3, <3>1, AfterCalls DEF Succeed, Heard
  <2>4. CASE GiveUp
    BY <2>1, <2>4 DEF GiveUp, Failed, Heard
  <2>5. CASE RepairRefused \/ Abandon \/ RepairTooLate \/ RepairUseless
    BY <2>1, <2>5 DEF RepairRefused, Abandon, RepairTooLate, RepairUseless, RepairFails, Failed,
                      Heard
  <2>6. CASE NotEvaluated
    BY <2>1, <2>6 DEF NotEvaluated, Seeding
  <2>7. CASE EvaluateSeed \/ Evaluate \/ Reevaluate
    BY <2>1, <2>7 DEF EvaluateSeed, Evaluate, Reevaluate
  <2>8. CASE Probe \/ NextCandidate \/ Retry \/ AskRepair
    <3>1. ASSUME NEW p, StartCall(p) PROVE Calling
      BY <3>1 DEF StartCall, Arrive, Goto, Calling
    <3>2. QED  BY <1>1, <2>8, <3>1 DEF Probe, NextCandidate, Retry, AskRepair
  <2>9. QED  BY <2>2, <2>3, <2>4, <2>5, <2>6, <2>7, <2>8 DEF Work
<1>3. QED  BY <1>1, <1>2, WorkerCalls

LEMMA HandlerKeepsHearing ==
  ASSUME CallTypes, WorkerHasHeard, NEW c \in Calls, Handle(c),
         UNCHANGED <<worker, call>>
  PROVE  WorkerHasHeard'
<1>1. UNCHANGED purpose
  BY HandlerMoves
<1>2. step[c] # "unused" /\ step[c] # "done"
  BY HandlerMoves
<1>3. \A d \in Calls : /\ step[d] = "unused" <=> step'[d] = "unused"
                       /\ step[d] \in Left => step'[d] \in Left
                       /\ step[d] = "done" => step'[d] = "done" /\ outcome'[d] = outcome[d]
  BY HandlerMoves DEF CallTypes, Left
<1>4. QED  BY <1>1, <1>2, <1>3 DEF WorkerHasHeard

(* Only the last call can be about to enter, and a repair is asked for     *)
(* when nothing else is on its way.                                        *)
LEMMA CallingKeepsBehind ==
  ASSUME CallTypes, WorkerTypes, WorkerHasHeard, OthersAreBehind, Calling, NEW p \in Purposes,
         CallMade(p), purpose' = [purpose EXCEPT ![call + 1] = p]
  PROVE  OthersAreBehind'
<1> DEFINE n == call + 1
<1>1. /\ n \in Calls /\ call' = n /\ step[n] = "unused" /\ n # call
      /\ step' = [step EXCEPT ![n] = "waiting"]
      /\ call \in Calls \/ \A c \in Calls : step[c] = "unused"
  BY GatewayAssumption DEF Calling, WorkerTypes, CallMade, WorkerHasHeard
<1>2. step'[n] = "waiting" /\ purpose'[n] = p
  BY <1>1 DEF CallTypes
<1>3. ASSUME NEW c \in Calls, c # n
      PROVE  /\ step'[c] \in {"unused", "sent", "recorded", "replying", "done"}
             /\ p = "repair" => step'[c] \in {"unused", "replying", "done"}
  <2>1. step'[c] = step[c]
    BY <1>1, <1>3 DEF CallTypes
  <2>2. CASE c # call
    <3>1. step[c] \in {"unused", "sent", "recorded", "replying", "done"}
      BY <1>3, <2>2 DEF OthersAreBehind
    <3>2. p = "repair" => step[c] \in {"unused", "replying", "done"}
      BY <1>3, <2>2 DEF OthersAreBehind, CallMade, WorkerHasHeard
    <3>3. QED  BY <2>1, <3>1, <3>2
  <2>3. CASE c = call
    BY <1>3, <2>1, <2>3 DEF CallMade, WorkerHasHeard, Left
  <2>4. QED  BY <2>2, <2>3
<1>4. QED  BY <1>1, <1>2, <1>3 DEF OthersAreBehind

LEMMA HandlerKeepsBehind ==
  ASSUME CallTypes, LockHeld, OthersAreBehind, NEW c \in Calls, Handle(c), UNCHANGED call
  PROVE  OthersAreBehind'
<1>1. UNCHANGED purpose
  BY HandlerMoves
<1>2. \A d \in Calls : d # c => step'[d] = step[d]
  BY HandlerMoves DEF CallTypes
<1>3. CASE c = call
  <2>1. ASSUME step'[c] # "waiting" \/ purpose[c] = "repair", NEW d \in Calls, d # c
        PROVE  step[d] \in {"unused", "replying", "done"}
    <3>1. CASE step[c] # "waiting" \/ purpose[c] = "repair"
      BY <1>3, <2>1, <3>1 DEF OthersAreBehind
    <3>2. CASE step[c] = "waiting"
      <4>1. lock = 0
        BY <3>2, HandlerMoves
      <4>2. step[d] \notin Critical
        BY <2>1, <4>1, GatewayAssumption DEF LockHeld
      <4>3. QED  BY <1>3, <2>1, <4>2 DEF OthersAreBehind, Critical
    <3>3. QED  BY <3>1, <3>2
  <2>2. QED  BY <1>1, <1>2, <1>3, <2>1 DEF OthersAreBehind
<1>4. CASE c # call
  <2>1. /\ step[c] \in {"sent", "recorded", "replying"}
        /\ step[c] \in {"sent", "recorded"} => step'[c] \in {"recorded", "replying"}
        /\ step[c] = "replying" => step'[c] = "done"
    BY <1>4, HandlerMoves DEF OthersAreBehind, CallTypes
  <2>2. call \in Calls => step'[call] = step[call]
    BY <1>2, <1>4
  <2>3. QED  BY <1>1, <1>2, <1>4, <2>1, <2>2 DEF OthersAreBehind
<1>5. QED  BY <1>3, <1>4

LEMMA WorkerKeepsCandidate ==
  ASSUME CallTypes, WorkerTypes, WorkerHasHeard, CandidateIsNew, CallsAreFor, Work
  PROVE  CandidateIsNew'
<1>1. ASSUME Calling, NEW p \in Purposes, CallMade(p),
             purpose' = [purpose EXCEPT ![call + 1] = p]
      PROVE  CandidateIsNew'
  <2>1. worker' = "listen" /\ purpose'[call'] = p
    BY <1>1 DEF Calling, CallTypes
  <2>2. CASE worker = "start" \/ worker = "repair"
    BY <1>1, <2>1, <2>2, EngineAssumption DEF CallMade, WorkerTypes, CandidateIsNew
  <2>3. CASE worker = "next"
    BY <1>1, <2>1, <2>3, EngineAssumption DEF CallMade, WorkerTypes, CandidateIsNew
  <2>4. CASE worker = "listen"
    BY <1>1, <2>1, <2>4 DEF CallMade, WorkerTypes, CandidateIsNew
  <2>5. QED  BY <1>1, <2>2, <2>3, <2>4 DEF CallMade
<1>2. CASE UNCHANGED <<step, purpose, call>>
  <2>1. CASE Complete \/ GiveUp \/ RepairSkipped \/ NotEvaluated \/ EvaluateSeed
    BY <1>2, <2>1 DEF Complete, GiveUp, RepairSkipped, NotEvaluated, EvaluateSeed, Seeding,
                      CandidateIsNew
  <2>2. CASE Succeed
    <3>1. purpose[call] \in Purposes
      BY <2>2 DEF Succeed, Heard, WorkerHasHeard, CallsAreFor
    <3>2. QED  BY <1>2, <2>2, <3>1 DEF Succeed, Heard, AfterCall, Purposes, CandidateIsNew
  <2>3. CASE RepairRefused \/ Abandon \/ RepairTooLate \/ RepairUseless
    <3>1. /\ mended' = [mended EXCEPT ![candidate] = "failed"] /\ worker' = "next"
          /\ UNCHANGED candidate
      BY <2>3 DEF RepairRefused, Abandon, RepairTooLate, RepairUseless, RepairFails
    <3>2. QED  BY <3>1 DEF WorkerTypes, CandidateIsNew
  <2>4. CASE Evaluate
    <3>1. worker = "evaluate" /\ worker' \in {"repair", "next"} /\ UNCHANGED <<candidate, mended>>
      BY <2>4 DEF Evaluate
    <3>2. QED  BY <3>1 DEF CandidateIsNew
  <2>5. CASE Reevaluate
    <3>1. /\ worker' = "next" /\ UNCHANGED candidate
          /\ \E m \in {"succeeded", "failed"} : mended' = [mended EXCEPT ![candidate] = m]
      BY <2>5 DEF Reevaluate, Mend
    <3>2. QED  BY <3>1 DEF WorkerTypes, CandidateIsNew
  <2>6. CASE Probe \/ NextCandidate \/ Retry \/ AskRepair
    <3>1. ASSUME NEW p, StartCall(p) PROVE call' = call + 1 /\ call + 1 \in Calls
      BY <3>1 DEF StartCall
    <3>2. call' # call
      BY <2>6, <3>1, GatewayAssumption DEF Probe, NextCandidate, Retry, AskRepair, WorkerTypes
    <3>3. QED  BY <1>2, <3>2
  <2>7. QED  BY <2>1, <2>2, <2>3, <2>4, <2>5, <2>6 DEF Work
<1>3. QED  BY <1>1, <1>2, WorkerCalls

LEMMA MonitorTypes ==
  ASSUME Monitor, RunnerTypes PROVE RunnerTypes'
BY DEF Monitor, LookForStop, LookForEnd, Kill, WorkerGone, Report, RunnerTypes

(* The order of the worker under every step.                               *)
LEMMA WorkerKept ==
  ASSUME GatewayTypeOK, GatewayOrder, WorkerTypes, RunnerTypes, WorkerOrder, [Next]_vars
  PROVE  WorkerTypes' /\ RunnerTypes' /\ WorkerOrder'
<1>1. /\ CallTypes /\ LockHeld /\ CallsAreFor
      /\ OthersAreBehind /\ WorkerHasHeard /\ CandidateIsNew
  BY GatewayTypes DEF GatewayOrder, WorkerOrder
<1>2. ASSUME NEW c \in Calls, Serve(c) PROVE WorkerTypes' /\ RunnerTypes' /\ WorkerOrder'
  <2>1. /\ Handle(c) /\ UNCHANGED purpose
        /\ UNCHANGED <<worker, call, attempt, seeded, candidate, mended, fitness, runner>>
    BY <1>2, HandlerMoves DEF Serve, workerVars, runnerVars
  <2>2. WorkerTypes' /\ RunnerTypes' /\ CandidateIsNew'
    BY <1>1, <2>1 DEF WorkerTypes, RunnerTypes, CandidateIsNew
  <2>3. WorkerHasHeard' /\ OthersAreBehind'
    BY <1>1, <2>1, HandlerKeepsHearing, HandlerKeepsBehind
  <2>4. QED  BY <2>2, <2>3 DEF WorkerOrder
<1>3. CASE Work
  <2>1. WorkerTypes' /\ WorkerHasHeard' /\ CandidateIsNew'
    BY <1>1, <1>3, WorkerKeepsTypes, WorkerKeepsHearing, WorkerKeepsCandidate
  <2>2. UNCHANGED <<runner, reason, result>>
    BY <1>3, WorkerMoves DEF runnerVars
  <2>3. CASE UNCHANGED <<step, purpose, call>>
    <3>1. OthersAreBehind'
      BY <1>1, <2>3 DEF OthersAreBehind
    <3>2. QED  BY <2>1, <2>2, <3>1 DEF WorkerOrder, RunnerTypes
  <2>4. ASSUME Calling, NEW p \in Purposes, CallMade(p),
               purpose' = [purpose EXCEPT ![call + 1] = p]
        PROVE  OthersAreBehind'
    BY <1>1, <2>4, CallingKeepsBehind
  <2>5. QED  BY <1>1, <1>3, <2>1, <2>2, <2>3, <2>4, WorkerCalls DEF WorkerOrder, RunnerTypes
<1>4. CASE Monitor
  <2>1. /\ UNCHANGED <<step, purpose, outcome, call, attempt, seeded, candidate, mended, fitness>>
        /\ worker' = worker \/ worker' = "killed"
    BY <1>4, MonitorMoves DEF callVars
  <2>2. WorkerTypes' /\ OthersAreBehind'
    BY <1>1, <2>1 DEF WorkerTypes, OthersAreBehind, Exits
  <2>3. WorkerHasHeard' /\ CandidateIsNew'
    BY <1>1, <2>1 DEF WorkerHasHeard, CandidateIsNew
  <2>4. QED  BY <1>4, <2>2, <2>3, MonitorTypes DEF WorkerOrder
<1>5. CASE UNCHANGED <<callVars, terminal, lastError, solverCalls, workerVars, runnerVars>>
           \/ UNCHANGED vars
  <2>1. UNCHANGED <<step, purpose, outcome, workerVars, runner>>
    BY <1>5 DEF vars, gatewayVars, callVars, runnerVars
  <2>2. WorkerTypes' /\ RunnerTypes'
    BY <2>1 DEF workerVars, WorkerTypes, RunnerTypes
  <2>3. OthersAreBehind' /\ WorkerHasHeard' /\ CandidateIsNew'
    BY <1>1, <2>1 DEF workerVars, OthersAreBehind, WorkerHasHeard, CandidateIsNew
  <2>4. QED  BY <2>2, <2>3 DEF WorkerOrder
<1>6. QED  BY <1>2, <1>3, <1>4, <1>5, StepKinds

-----------------------------------------------------------------------------
(* Where the evidence comes from                                           *)

LEMMA HandlerKeepsLatest ==
  ASSUME GatewayTypeOK, GatewayOrder, OthersAreBehind, GoodIsLatest, NEW c \in Calls, Handle(c),
         UNCHANGED call
  PROVE  GoodIsLatest'
<1>1. SUFFICES ASSUME call \in Calls, outcome'[call] = "good" PROVE
        /\ step'[call] \in {"recorded", "replying", "done"} => exchange' = slot'[call]
        /\ step'[call] \in {"recorded", "replying"} => lastIndex' = slot'[call]
        /\ step'[call] = "done" => told'[call] = slot'[call]
  BY DEF GoodIsLatest
<1>2. CallTypes /\ IndexTypes
  BY GatewayTypes
<1>3. CASE c = call
  <2>1. CASE RefuseTerminal(c) \/ RefuseLate(c) \/ Admit(c) \/ Deny(c) \/ Reserve(c) \/ Send(c)
    <3>1. step[c] \in {"waiting", "admitted", "reserved"}
      BY <2>1 DEF RefuseTerminal, RefuseLate, Admit, Enter, MayForward, Deny, Reserve, Send
    <3>2. outcome[c] = "none"
      BY <3>1 DEF GatewayOrder, LastSlot
    <3>3. outcome' = outcome \/ outcome' = [outcome EXCEPT ![c] = "denied"]
      BY <2>1 DEF RefuseTerminal, RefuseLate, Admit, Deny, Reserve, Send, Ended
    <3>4. QED  BY <1>1, <1>2, <1>3, <3>2, <3>3 DEF CallTypes
  <2>2. ASSUME NEW o \in Outcomes, Finish(c, o)
        PROVE  /\ step'[c] = "recorded" /\ slot' = slot
               /\ outcome'[c] = o
               /\ o = "good" => exchange' = slot[c] /\ lastIndex' = slot[c]
    BY <1>2, <2>2 DEF Finish, Goto, Ended, CallTypes, Failures
  <2>3. CASE CannotSend(c) \/ Answer(c)
    BY <1>1, <1>3, <2>2, <2>3 DEF CannotSend, Answer, Outcomes, Failures
  <2>4. CASE Settle(c)
    BY <1>1, <1>2, <1>3, <2>4 DEF Settle, Goto, GoodIsLatest, CallTypes
  <2>5. CASE Reply(c)
    BY <1>1, <1>2, <1>3, <2>5 DEF Reply, Goto, GoodIsLatest, CallTypes, IndexTypes
  <2>6. QED  BY <2>1, <2>3, <2>4, <2>5 DEF Handle
<1>4. CASE c # call
  <2>1. /\ step[c] \in {"sent", "recorded", "replying"}
        /\ step[call] # "waiting" => step[c] = "replying"
    BY <1>1, <1>4, HandlerMoves DEF OthersAreBehind
  <2>2. step'[call] = step[call] /\ outcome'[call] = outcome[call]
    BY <1>1, <1>2, <1>4, HandlerMoves DEF CallTypes
  <2>3. step[call] # "waiting"
    BY <1>1, <2>2 DEF GatewayOrder, LastSlot
  <2>4. Reply(c)
    BY <2>1, <2>3 DEF Handle, RefuseTerminal, RefuseLate, Admit, Enter, MayForward, Deny, Reserve,
                      Send, CannotSend, Answer, Settle
  <2>5. UNCHANGED <<exchange, lastIndex, slot>> /\ told'[call] = told[call]
    BY <1>2, <1>4, <2>4 DEF Reply, IndexTypes
  <2>6. QED  BY <1>1, <2>2, <2>5 DEF GoodIsLatest
<1>5. QED  BY <1>3, <1>4

(* The call that was just made has no outcome yet. *)
LEMMA CallingKeepsLatest ==
  ASSUME GatewayTypeOK, GatewayOrder, Calling PROVE GoodIsLatest'
<1>1. outcome'[call'] = "none"
  BY DEF Calling, GatewayOrder, LastSlot
<1>2. QED  BY <1>1 DEF GoodIsLatest

(* Evidence is written for the last call, when its success was heard.      *)
LEMMA WorkerRecords ==
  ASSUME WorkerTypes, WorkerHasHeard, GoodIsLatest, CandidateIsNew, Work
  PROVE  \/ /\ UNCHANGED <<evidence, fitness>>
            /\ \/ UNCHANGED mended
               \/ \E m \in {"asked", "failed"} : mended' = [mended EXCEPT ![candidate] = m]
         \/ /\ worker = "evaluate" /\ call \in Calls /\ candidate \in 1..Candidates
            /\ exchange = slot[call] /\ mended[candidate] = "none" /\ UNCHANGED mended
            /\ \E r \in Results :
                 /\ evidence' = evidence \cup Row("original", slot[call], r)
                 /\ fitness' = [fitness EXCEPT ![candidate] =
                                  IF r = "valid" THEN "original" ELSE "none"]
         \/ /\ worker = "mend" /\ call \in Calls /\ candidate \in 1..Candidates
            /\ \E r \in Results :
                 /\ evidence' = evidence \cup Row("repair_1", slot[call], r)
                 /\ Mend(candidate, r)
<1>1. CASE Evaluate
  <2>1. /\ worker = "evaluate" /\ UNCHANGED mended
        /\ \E r \in Results :
              /\ evidence' = evidence \cup Row("original", exchange, r)
              /\ fitness' = [fitness EXCEPT ![candidate] =
                                IF r = "valid" THEN "original" ELSE "none"]
    BY <1>1 DEF Evaluate
  <2>2. call \in Calls /\ exchange = slot[call] /\ candidate \in 1..Candidates
        /\ mended[candidate] = "none"
    BY <2>1 DEF WorkerHasHeard, GoodIsLatest, CandidateIsNew
  <2>3. QED  BY <2>1, <2>2
<1>2. CASE Reevaluate
  <2>1. /\ worker = "mend"
        /\ \E r \in Results : /\ evidence' = evidence \cup Row("repair_1", told[call], r)
                              /\ Mend(candidate, r)
    BY <1>2 DEF Reevaluate
  <2>2. call \in Calls /\ told[call] = slot[call] /\ candidate \in 1..Candidates
    BY <2>1 DEF WorkerHasHeard, GoodIsLatest, CandidateIsNew
  <2>3. QED  BY <2>1, <2>2
<1>3. CASE ~ Evaluate /\ ~ Reevaluate
  BY <1>3 DEF Work, Probe, NextCandidate, Complete, Succeed, Retry, GiveUp, RepairRefused, Abandon,
              NotEvaluated, EvaluateSeed, RepairSkipped, RepairTooLate, AskRepair, RepairUseless,
              RepairFails
<1>4. QED  BY <1>1, <1>2, <1>3

LEMMA OneRow ==
  ASSUME NEW v \in {"original", "repair_1"}, NEW n, NEW r \in Results,
         NEW row \in Row(v, n, r)
  PROVE  row.candidate = candidate /\ row.revision = v /\ row.source = n /\ row.from = slot[call]
BY DEF Row

LEMMA RowIsTyped ==
  ASSUME NEW v \in {"original", "repair_1"}, NEW n \in 0..Len(requests), NEW r \in Results,
         candidate \in 1..Candidates, slot[call] \in 0..Len(requests)
  PROVE  Row(v, n, r) \subseteq
           [candidate : 1..Candidates, revision : {"original", "repair_1"}, valid : BOOLEAN,
            source : 0..Len(requests), from : 0..Len(requests)]
<1> DEFINE row == [candidate |-> candidate, revision |-> v, valid |-> r \in {"valid", "cut"},
                   source |-> n, from |-> slot[call]]
<1>1. (r \in {"valid", "cut"}) \in BOOLEAN
  OBVIOUS
<1>2. row \in [candidate : 1..Candidates, revision : {"original", "repair_1"}, valid : BOOLEAN,
               source : 0..Len(requests), from : 0..Len(requests)]
  BY <1>1
<1>3. Row(v, n, r) \subseteq {row}
  BY DEF Row
<1>4. QED  BY <1>2, <1>3

LEMMA ValidRow ==
  ASSUME NEW v
  PROVE  \E row \in Row(v, slot[call], "valid") :
           row.candidate = candidate /\ row.revision = v /\ row.valid
BY DEF Row

LEMMA WorkerKeepsEvidence ==
  ASSUME GatewayTypeOK, WorkerTypes, EvidenceTypes, WorkerHasHeard, CandidateIsNew, Provenance, Work
  PROVE  EvidenceTypes' /\ EvidenceNamesItsRequest' /\ FitnessIsEvidenced'
<1> USE DEF Provenance
<1>1. UNCHANGED <<slot, requests>>
  BY WorkerMoves DEF ledgerVars
<1>2. ASSUME UNCHANGED <<evidence, fitness>>,
             UNCHANGED mended
               \/ \E m \in {"asked", "failed"} : mended' = [mended EXCEPT ![candidate] = m]
      PROVE  EvidenceTypes' /\ EvidenceNamesItsRequest' /\ FitnessIsEvidenced'
  <2>1. EvidenceTypes' /\ EvidenceNamesItsRequest'
    BY <1>1, <1>2 DEF EvidenceTypes, EvidenceNamesItsRequest
  <2>2. \A k \in 1..Candidates : mended'[k] = "succeeded" => mended[k] = "succeeded"
    BY <1>2 DEF WorkerTypes
  <2>3. FitnessIsEvidenced'
    BY <1>2, <2>2 DEF FitnessIsEvidenced
  <2>4. QED  BY <2>1, <2>3
<1>3. ASSUME NEW v \in {"original", "repair_1"}, NEW r \in Results, call \in Calls,
             candidate \in 1..Candidates,
             evidence' = evidence \cup Row(v, slot[call], r),
             fitness' = [fitness EXCEPT ![candidate] = IF r = "valid" THEN v ELSE "none"],
             \A k \in 1..Candidates : mended'[k] = "succeeded" =>
               IF k = candidate THEN v = "repair_1" /\ r = "valid" ELSE mended[k] = "succeeded"
      PROVE  EvidenceTypes' /\ EvidenceNamesItsRequest' /\ FitnessIsEvidenced'
  <2>1. slot[call] \in 0..Len(requests)
    BY <1>3, GatewayTypes DEF IndexTypes
  <2>2. EvidenceTypes'
    <3>1. Row(v, slot[call], r) \subseteq
            [candidate : 1..Candidates, revision : {"original", "repair_1"}, valid : BOOLEAN,
             source : 0..Len(requests), from : 0..Len(requests)]
      BY <1>3, <2>1, RowIsTyped
    <3>2. QED  BY <1>1, <1>3, <3>1 DEF EvidenceTypes
  <2>3. EvidenceNamesItsRequest'
    BY <1>3, OneRow DEF EvidenceNamesItsRequest
  <2>4. ASSUME NEW k \in 1..Candidates
        PROVE  /\ mended'[k] = "succeeded" => fitness'[k] = "repair_1"
               /\ fitness'[k] # "none" => \E row \in evidence' :
                    row.candidate = k /\ row.revision = fitness'[k] /\ row.valid
    <3>1. CASE k # candidate
      <4>1. fitness'[k] = fitness[k] /\ (mended'[k] = "succeeded" => mended[k] = "succeeded")
        BY <1>3, <3>1 DEF WorkerTypes
      <4>2. evidence \subseteq evidence'
        BY <1>3
      <4>3. QED  BY <4>1, <4>2 DEF FitnessIsEvidenced
    <3>2. CASE k = candidate
      <4>1. /\ fitness'[k] = IF r = "valid" THEN v ELSE "none"
            /\ mended'[k] = "succeeded" => v = "repair_1" /\ r = "valid"
        BY <1>3, <3>2 DEF WorkerTypes
      <4>2. r = "valid" => \E row \in evidence' :
                             row.candidate = k /\ row.revision = v /\ row.valid
        BY <1>3, <3>2, ValidRow
      <4>3. QED  BY <4>1, <4>2
    <3>3. QED  BY <3>1, <3>2
  <2>5. QED  BY <2>2, <2>3, <2>4 DEF FitnessIsEvidenced
<1>4. CASE worker = "evaluate" /\ call \in Calls /\ candidate \in 1..Candidates
           /\ mended[candidate] = "none" /\ UNCHANGED mended
           /\ \E r \in Results :
                 /\ evidence' = evidence \cup Row("original", slot[call], r)
                 /\ fitness' = [fitness EXCEPT ![candidate] =
                                  IF r = "valid" THEN "original" ELSE "none"]
  BY <1>3, <1>4
<1>5. ASSUME NEW r \in Results, Mend(candidate, r), candidate \in 1..Candidates
      PROVE  /\ fitness' = [fitness EXCEPT ![candidate] =
                               IF r = "valid" THEN "repair_1" ELSE "none"]
             /\ \A k \in 1..Candidates : mended'[k] = "succeeded" =>
                  IF k = candidate THEN r = "valid" ELSE mended[k] = "succeeded"
  BY <1>5 DEF Mend, WorkerTypes
<1>6. CASE worker = "mend" /\ call \in Calls /\ candidate \in 1..Candidates
           /\ \E r \in Results : /\ evidence' = evidence \cup Row("repair_1", slot[call], r)
                                 /\ Mend(candidate, r)
  <2>1. PICK r \in Results : /\ evidence' = evidence \cup Row("repair_1", slot[call], r)
                             /\ Mend(candidate, r)
    BY <1>6
  <2>2. QED  BY <1>3, <1>5, <1>6, <2>1
<1>7. QED  BY <1>2, <1>4, <1>6, WorkerRecords

LEMMA EvidenceKept ==
  ASSUME GatewayTypeOK, GatewayOrder, WorkerTypes, EvidenceTypes, WorkerOrder, Provenance,
         [Next]_vars
  PROVE  EvidenceTypes' /\ Provenance'
<1>1. /\ OthersAreBehind /\ WorkerHasHeard /\ CandidateIsNew
      /\ GoodIsLatest /\ EvidenceNamesItsRequest /\ FitnessIsEvidenced
      /\ LastSlot /\ CallsAreFor
  BY DEF WorkerOrder, Provenance, GatewayOrder
<1>2. ASSUME NEW c \in Calls, Serve(c) PROVE EvidenceTypes' /\ Provenance'
  <2>1. Handle(c) /\ UNCHANGED <<call, evidence, mended, fitness>>
    BY <1>2 DEF Serve, workerVars
  <2>2. Len(requests) <= Len(requests') /\ Len(requests) \in Nat /\ Len(requests') \in Nat
    <3>1. IndexTypes /\ IndexTypes' /\ Len(requests) <= Len(requests')
      BY <1>1, <2>1, GatewayTypes, HandlerKeepsIndexes
    <3>2. QED  BY <3>1 DEF IndexTypes
  <2>3. EvidenceTypes'
    <3>1. 0..Len(requests) \subseteq 0..Len(requests')
      BY <2>2
    <3>2. QED  BY <2>1, <3>1 DEF EvidenceTypes
  <2>4. GoodIsLatest'
    BY <1>1, <2>1, HandlerKeepsLatest
  <2>5. EvidenceNamesItsRequest' /\ FitnessIsEvidenced'
    BY <1>1, <2>1 DEF EvidenceNamesItsRequest, FitnessIsEvidenced
  <2>6. QED  BY <2>3, <2>4, <2>5 DEF Provenance
<1>3. CASE Work
  <2>1. EvidenceTypes' /\ EvidenceNamesItsRequest' /\ FitnessIsEvidenced'
    BY <1>1, <1>3, WorkerKeepsEvidence
  <2>2. UNCHANGED <<slot, outcome, told, lastIndex, exchange>>
    BY <1>3, WorkerMoves DEF ledgerVars
  <2>3. CASE Calling
    BY <2>1, <2>3, CallingKeepsLatest DEF Provenance
  <2>4. CASE UNCHANGED <<step, purpose, call>>
    <3>1. GoodIsLatest'
      BY <1>1, <2>2, <2>4 DEF GoodIsLatest
    <3>2. QED  BY <2>1, <3>1 DEF Provenance
  <2>5. QED  BY <1>1, <1>3, <2>3, <2>4, WorkerCalls
<1>4. CASE Monitor \/ UNCHANGED vars
           \/ UNCHANGED <<callVars, terminal, lastError, solverCalls, workerVars, runnerVars>>
  <2>1. UNCHANGED <<callVars, call, evidence, mended, fitness>>
    BY <1>4, MonitorMoves DEF vars, gatewayVars, callVars, workerVars
  <2>2. EvidenceTypes' /\ GoodIsLatest'
    BY <1>1, <2>1 DEF EvidenceTypes, GoodIsLatest, callVars
  <2>3. EvidenceNamesItsRequest' /\ FitnessIsEvidenced'
    BY <1>1, <2>1 DEF EvidenceNamesItsRequest, FitnessIsEvidenced
  <2>4. QED  BY <2>2, <2>3 DEF Provenance
<1>5. QED  BY <1>2, <1>3, <1>4, StepKinds

-----------------------------------------------------------------------------
(* What a run is stopped and blamed for                                    *)

LEMMA WorkerLives ==
  ASSUME WorkerHasHeard, CallsAreFor, Work PROVE Alive /\ worker' # "killed"
<1> USE DEF Alive, Exits
<1>1. ASSUME NEW p, StartCall(p) PROVE worker' = "listen"
  BY <1>1 DEF StartCall
<1>2. CASE Probe \/ NextCandidate \/ Retry \/ AskRepair
  BY <1>1, <1>2 DEF Probe, NextCandidate, Retry, AskRepair, Failed, Heard
<1>3. CASE Succeed
  BY <1>3, AfterCalls DEF Succeed, Heard, WorkerHasHeard, CallsAreFor
<1>4. CASE Complete \/ GiveUp \/ RepairSkipped
  BY <1>4 DEF Complete, GiveUp, RepairSkipped, Failed, Heard
<1>5. CASE RepairRefused \/ Abandon \/ RepairTooLate \/ RepairUseless
  BY <1>5 DEF RepairRefused, Abandon, RepairTooLate, RepairUseless, RepairFails, Failed, Heard
<1>6. CASE NotEvaluated \/ EvaluateSeed \/ Evaluate \/ Reevaluate
  BY <1>6 DEF NotEvaluated, EvaluateSeed, Evaluate, Reevaluate, Seeding
<1>7. QED  BY <1>2, <1>3, <1>4, <1>5, <1>6 DEF Work

LEMMA MonitorKept ==
  ASSUME WorkerHasHeard, GatewayOrder, FlagTypes, MonitorOrder, [Next]_vars
  PROVE  MonitorOrder'
<1>1. (terminal => terminal') /\ (late => late') /\ CallsAreFor
  BY FlagsKept, LateStays DEF GatewayOrder
<1>2. CASE UNCHANGED <<worker, runner, reason, result>>
  BY <1>1, <1>2 DEF MonitorOrder, Alive
<1>3. ASSUME NEW c \in Calls, Serve(c) PROVE UNCHANGED <<worker, runner, reason, result>>
  BY <1>3 DEF Serve, workerVars, runnerVars
<1>4. CASE Work
  <2>1. UNCHANGED <<runner, reason, result>>
    BY <1>4, WorkerMoves DEF runnerVars
  <2>2. Alive /\ worker' # "killed"
    BY <1>1, <1>4, WorkerLives
  <2>3. QED  BY <1>1, <2>1, <2>2 DEF MonitorOrder
<1>5. CASE LookForStop
  BY <1>1, <1>5 DEF LookForStop, workerVars, MonitorOrder, Alive
<1>6. CASE LookForEnd
  <2>1. CASE ~ MustEnd
    BY <1>1, <1>6, <2>1 DEF LookForEnd, workerVars, MonitorOrder, Alive
  <2>2. CASE MustEnd
    <3>1. /\ runner = "end" /\ runner' = "killing" /\ terminal' = TRUE
          /\ UNCHANGED <<worker, result, late>>
          /\ reason' = IF terminal THEN lastError ELSE "wall_time_exhausted"
      BY <1>6, <2>2 DEF LookForEnd, Verdict, workerVars
    <3>2. late \/ reason' # "request_budget_exhausted"
      BY <2>2, <3>1 DEF MustEnd, Graceful
    <3>3. QED  BY <3>1, <3>2 DEF MonitorOrder
  <2>3. QED  BY <2>1, <2>2
<1>7. CASE Kill
  BY <1>1, <1>7 DEF Kill, MonitorOrder, Alive, Exits
<1>8. CASE WorkerGone \/ Report
  BY <1>1, <1>8 DEF WorkerGone, Report, workerVars, MonitorOrder, Alive
<1>9. CASE UNCHANGED <<callVars, terminal, lastError, solverCalls, workerVars, runnerVars>>
           \/ UNCHANGED vars
  BY <1>2, <1>9 DEF vars, workerVars, runnerVars
<1>10. QED
  BY <1>2, <1>3, <1>4, <1>5, <1>6, <1>7, <1>8, <1>9, StepKinds DEF Monitor

(* Who writes last_error in the gateway, and what.                         *)
LEMMA HandlerErrors ==
  ASSUME NEW c \in Calls, Handle(c)
  PROVE  \/ UNCHANGED lastError /\ ~ Settle(c)
         \/ /\ lastError' \in ErrorNames \ ProviderErrors /\ step[c] \in {"waiting", "admitted"}
            /\ step' = [step EXCEPT ![c] = "replying"]
            /\ outcome' = [outcome EXCEPT ![c] = "denied"] /\ lock' = 0 /\ ~ Settle(c)
         \/ Settle(c)
<1>1. CASE RefuseTerminal(c) \/ Admit(c) \/ Reserve(c) \/ Send(c) \/ Reply(c)
  BY <1>1 DEF RefuseTerminal, Admit, Enter, MayForward, Reserve, Send, Reply, Settle
<1>2. CASE CannotSend(c) \/ Answer(c)
  BY <1>2 DEF CannotSend, Answer, Finish, Settle
<1>3. CASE RefuseLate(c)
  BY <1>3 DEF RefuseLate, Enter, MayForward, Goto, Ended, ErrorNames, ProviderErrors, Settle
<1>4. CASE Deny(c)
  <2>1. Denial \in ErrorNames \ ProviderErrors
    BY DEF Denial, ErrorNames, ProviderErrors
  <2>2. QED  BY <1>4, <2>1 DEF Deny, Goto, Ended, Settle
<1>5. QED  BY <1>1, <1>2, <1>3, <1>4 DEF Handle

LEMMA HandlerKeepsBlame ==
  ASSUME GatewayTypeOK, GatewayOrder, WorkerTypes, WorkerOrder, MonitorOrder, Blame,
         NEW c \in Calls, Handle(c), UNCHANGED <<worker, call>>
  PROVE  Blame'
<1>1. /\ CallTypes /\ IndexTypes /\ LockHeld /\ LastSlot /\ CallsAreFor /\ OthersAreBehind
      /\ WorkerHasHeard /\ ErrorKnown /\ Clean /\ ErrorWaits /\ LastIsBlamed
      /\ UNCHANGED purpose /\ Len(requests) \in Nat /\ 0 \notin Calls
  BY GatewayTypes, GatewayAssumption, HandlerMoves
     DEF GatewayOrder, WorkerOrder, Blame, IndexTypes
<1>2. ASSUME Settle(c)
      PROVE  /\ step[c] = "recorded" /\ step' = [step EXCEPT ![c] = "replying"] /\ lock' = 0
             /\ UNCHANGED <<outcome, slot>> /\ outcome[c] \in Outcomes
             /\ lastError' = ErrorOf[outcome[c]]
  BY <1>1, <1>2 DEF Settle, Goto, LastSlot
<1>3. ErrorKnown'
  BY <1>1, <1>2, HandlerErrors, Records DEF ErrorKnown
<1>4. Clean'
  <2>1. CASE c = call
    <3>1. CASE UNCHANGED lastError /\ ~ Settle(c)
      <4>1. step[c] # "recorded"
        BY <2>1, <3>1, <1>1 DEF Handle, RefuseTerminal, RefuseLate, Admit, Enter, MayForward, Deny,
                                Reserve, Send, CannotSend, Answer, Reply
      <4>2. step'[c] \in {"replying", "done"} /\ outcome'[c] = "good" =>
              step[c] = "replying" /\ outcome[c] = "good"
        BY <1>1, <4>1, HandlerMoves DEF CallTypes
      <4>3. step'[c] \in Critical \cup {"waiting"} => step[c] \in Critical \cup {"waiting"}
        BY <1>1, HandlerMoves DEF CallTypes, Critical
      <4>4. QED  BY <1>1, <2>1, <3>1, <4>2, <4>3 DEF Clean
    <3>2. CASE lastError' \in ErrorNames \ ProviderErrors
      BY <3>2 DEF Clean
    <3>3. CASE Settle(c)
      <4>1. step'[c] = "replying" /\ outcome'[c] = outcome[c]
        BY <1>1, <1>2, <3>3 DEF CallTypes
      <4>2. outcome[c] = "good" => lastError' \notin ProviderErrors
        BY <1>2, <3>3, Records
      <4>3. QED  BY <2>1, <4>1, <4>2 DEF Clean, Critical
    <3>4. QED  BY <3>1, <3>2, <3>3, HandlerErrors
  <2>2. ASSUME c # call, call \in Calls PROVE Clean'
    <3>1. step'[call] = step[call] /\ outcome'[call] = outcome[call]
      BY <1>1, <2>2, HandlerMoves DEF CallTypes
    <3>2. step[c] \in {"sent", "recorded", "replying"}
      BY <1>1, <2>2, HandlerMoves DEF OthersAreBehind
    <3>3. step[call] # "waiting" \/ purpose[call] = "repair" => step[c] = "replying"
      BY <1>1, <2>2, <3>2 DEF OthersAreBehind
    <3>4. step[c] = "replying" => UNCHANGED lastError
      BY <1>2, HandlerErrors
    <3>5. QED  BY <1>1, <3>1, <3>3, <3>4 DEF Clean
  <2>3. QED  BY <2>1, <2>2 DEF Clean
<1>5. ErrorWaits'
  <2>1. SUFFICES ASSUME lock' # 0, lastError' \in ProviderErrors
                 PROVE  ~terminal' /\ worker = "listen" /\ lock' = call
    BY DEF ErrorWaits
  <2>2. UNCHANGED lastError
    BY <1>2, <2>1, HandlerErrors
  <2>3. CASE Admit(c)
    <3>1. /\ step[c] = "waiting" /\ lock' = c /\ ~terminal /\ ~terminal'
      BY <2>3 DEF Admit, Enter, MayForward
    <3>2. c = call
      BY <1>1, <3>1 DEF OthersAreBehind
    <3>3. worker # "killed"
      BY <3>1 DEF MonitorOrder
    <3>4. worker = "listen"
      BY <3>1, <3>2, <3>3 DEF WorkerOrder, WorkerHasHeard, Left, WorkerTypes, Exits
    <3>5. QED  BY <3>1, <3>2, <3>4
  <2>4. CASE ~ Admit(c)
    <3>1. UNCHANGED <<terminal, lock>>
      BY <1>2, <2>1, <2>2, <2>4 DEF Handle, RefuseTerminal, RefuseLate, Enter, MayForward, Deny,
                                    Reserve, Send, CannotSend, Answer, Finish, Reply
    <3>2. QED  BY <1>1, <2>1, <2>2, <3>1 DEF ErrorWaits
  <2>5. QED  BY <2>3, <2>4
<1>6. LastIsBlamed'
  <2>1. CASE Settle(c)
    <3>1. SUFFICES ASSUME ErrorOf[outcome[c]] \in ProviderErrors
                   PROVE  LastIsBlamed'
      BY <1>2, <2>1 DEF LastIsBlamed
    <3>2. outcome'[c] \notin {"none", "denied", "good"} /\ step'[c] = "replying"
      BY <1>1, <1>2, <2>1, <3>1, Records DEF CallTypes, Outcomes, Failures
    <3>3. slot[c] = Len(requests)
      BY <1>1, <1>2, <2>1 DEF LastSlot
    <3>4. \A d \in Calls : ~ (slot'[d] > slot'[c])
      BY <1>1, <1>2, <2>1, <3>3 DEF IndexTypes
    <3>5. QED  BY <3>2, <3>4 DEF LastIsBlamed
  <2>2. ASSUME UNCHANGED lastError, ~ Settle(c), lastError \in ProviderErrors
        PROVE  LastIsBlamed'
    <3>1. PICK b \in Calls :
             /\ outcome[b] \notin {"none", "denied", "good"} /\ step[b] \in {"replying", "done"}
             /\ \A d \in Calls : slot[d] > slot[b] /\ outcome[d] = "good" => step[d] = "recorded"
      BY <1>1, <2>2 DEF LastIsBlamed
    <3>2. outcome'[b] = outcome[b] /\ step'[b] \in {"replying", "done"} /\ slot'[b] = slot[b]
      <4>1. outcome'[b] = outcome[b] /\ step'[b] \in {"replying", "done"}
        BY <1>1, <3>1, HandlerMoves DEF CallTypes
      <4>2. slot' = slot \/ (Reserve(c) /\ slot' = [slot EXCEPT ![c] = Len(requests) + 1])
        BY <1>1, SlotsMove
      <4>3. Reserve(c) => b # c
        BY <3>1 DEF Reserve
      <4>4. QED  BY <1>1, <4>1, <4>2, <4>3 DEF IndexTypes
    <3>3. ASSUME NEW d \in Calls, slot'[d] > slot'[b], outcome'[d] = "good"
          PROVE  step'[d] = "recorded"
      <4>1. CASE d = c
        <5>1. CASE outcome[c] = "good"
          <6>1. step[c] \in {"recorded", "replying"}
            BY <1>1, <5>1, HandlerMoves DEF LastSlot
          <6>2. step[c] = "replying"
            BY <2>2, <6>1 DEF Handle, RefuseTerminal, RefuseLate, Admit, Enter, MayForward, Deny,
                              Reserve, Send, CannotSend, Answer, Reply
          <6>3. slot'[c] = slot[c]
            BY <6>2, <1>1, SlotsMove DEF Reserve
          <6>4. QED  BY <3>1, <3>2, <3>3, <4>1, <5>1, <6>2, <6>3
        <5>2. CASE outcome[c] # "good"
          <6>1. outcome'[c] = "good"
            BY <3>3, <4>1
          <6>2. QED  BY <1>1, <4>1, <5>2, <6>1, HandlerMoves DEF CallTypes
        <5>3. QED  BY <5>1, <5>2
      <4>2. CASE d # c
        <5>1. step'[d] = step[d] /\ outcome'[d] = outcome[d]
          BY <1>1, <4>2, HandlerMoves DEF CallTypes
        <5>2. slot'[d] = slot[d]
          BY <1>1, <4>2, SlotsMove DEF IndexTypes
        <5>3. QED  BY <3>1, <3>2, <3>3, <5>1, <5>2
      <4>3. QED  BY <4>1, <4>2
    <3>4. QED  BY <3>1, <3>2, <3>3 DEF LastIsBlamed
  <2>3. CASE lastError' \notin ProviderErrors
    BY <2>3 DEF LastIsBlamed
  <2>4. QED  BY <2>1, <2>2, <2>3, HandlerErrors
<1>7. QED  BY <1>3, <1>4, <1>5, <1>6 DEF Blame

LEMMA WorkerKeepsBlame ==
  ASSUME GatewayTypeOK, GatewayOrder, WorkerTypes, WorkerOrder, Blame, Work
  PROVE  Blame'
<1>1. /\ CallTypes /\ LockHeld /\ LastSlot /\ CallsAreFor /\ WorkerHasHeard
      /\ ErrorKnown /\ Clean /\ ErrorWaits /\ LastIsBlamed
  BY GatewayTypes DEF GatewayOrder, WorkerOrder, Blame
<1>2. UNCHANGED <<slot, outcome, lock, lastError, terminal>>
  BY WorkerMoves DEF ledgerVars
<1>3. ErrorKnown'
  BY <1>1, <1>2 DEF ErrorKnown
<1>4. ASSUME UNCHANGED <<step, purpose, call>> PROVE Clean' /\ LastIsBlamed'
  BY <1>1, <1>2, <1>4 DEF Clean, LastIsBlamed
<1>5. ASSUME Calling, NEW p \in Purposes, CallMade(p), purpose' = [purpose EXCEPT ![call + 1] = p]
      PROVE  Clean' /\ LastIsBlamed'
  <2> DEFINE n == call + 1
  <2>1. /\ n \in Calls /\ call' = n /\ step[n] = "unused"
        /\ step' = [step EXCEPT ![n] = "waiting"]
    BY <1>5 DEF Calling
  <2>2. step'[n] = "waiting" /\ purpose'[n] = p
    BY <1>1, <1>5, <2>1 DEF CallTypes
  <2>3. p = "repair" => lastError \notin ProviderErrors
    BY <1>1, <1>5 DEF CallMade, WorkerHasHeard, Clean
  <2>4. Clean'
    BY <1>2, <2>1, <2>2, <2>3 DEF Clean
  <2>5. outcome[n] = "none"
    BY <1>1, <2>1 DEF LastSlot
  <2>6. \A d \in Calls : d # n => step'[d] = step[d]
    BY <1>1, <2>1 DEF CallTypes
  <2>7. LastIsBlamed'
    BY <1>1, <1>2, <2>1, <2>5, <2>6 DEF LastIsBlamed
  <2>8. QED  BY <2>4, <2>7
<1>6. Clean' /\ LastIsBlamed'
  BY <1>1, <1>4, <1>5, WorkerCalls
<1>7. ASSUME lock # 0, lastError \in ProviderErrors PROVE FALSE
  <2>1. worker = "listen" /\ lock = call /\ call \in Calls
    BY <1>1, <1>7 DEF ErrorWaits, CallTypes
  <2>2. step[call] \in Critical
    BY <1>1, <2>1 DEF LockHeld
  <2>3. Abandon
    BY <2>1, <2>2 DEF Work, Probe, NextCandidate, Complete, Succeed, Retry, GiveUp, Failed, Heard,
                      RepairRefused, NotEvaluated, EvaluateSeed, Seeding, Evaluate, RepairSkipped,
                      RepairTooLate, AskRepair, RepairUseless, Reevaluate, Critical
  <2>4. QED  BY <1>1, <1>7, <2>1, <2>2, <2>3 DEF Abandon, Clean
<1>8. ErrorWaits'
  BY <1>2, <1>7 DEF ErrorWaits
<1>9. QED  BY <1>3, <1>6, <1>8 DEF Blame

LEMMA MonitorKeepsBlame ==
  ASSUME GatewayOrder, WorkerOrder, MonitorOrder, Blame, Monitor
  PROVE  Blame'
<1>1. /\ ErrorKnown /\ Clean /\ ErrorWaits /\ LastIsBlamed
      /\ UNCHANGED <<step, purpose, slot, outcome, lock, call>>
  BY MonitorMoves DEF Blame, callVars
<1>2. {"session_stopped", "wall_time_exhausted"} \subseteq ErrorNames \ ProviderErrors
  BY DEF ErrorNames, ProviderErrors
<1>3. ErrorKnown'
  BY <1>1, <1>2, MonitorMoves DEF ErrorKnown
<1>4. CASE lastError' \in ProviderErrors
  <2>1. lastError' = lastError /\ terminal' = terminal
    BY <1>2, <1>4, MonitorMoves
  <2>2. Clean' /\ LastIsBlamed'
    BY <1>1, <2>1 DEF Clean, LastIsBlamed
  <2>3. worker' = worker \/ terminal
    BY MonitorMoves DEF MonitorOrder
  <2>4. ErrorWaits'
    BY <1>1, <2>1, <2>3 DEF ErrorWaits
  <2>5. QED  BY <1>3, <2>2, <2>4 DEF Blame
<1>5. CASE lastError' \notin ProviderErrors
  BY <1>3, <1>5 DEF Blame, Clean, LastIsBlamed, ErrorWaits
<1>6. QED  BY <1>4, <1>5

LEMMA BlameKept ==
  ASSUME GatewayTypeOK, GatewayOrder, WorkerTypes, WorkerOrder, MonitorOrder, Blame, [Next]_vars
  PROVE  Blame'
<1>1. ASSUME NEW c \in Calls, Serve(c) PROVE Blame'
  BY <1>1, HandlerKeepsBlame DEF Serve, workerVars
<1>2. CASE Work
  BY <1>2, WorkerKeepsBlame
<1>3. CASE Monitor
  BY <1>3, MonitorKeepsBlame
<1>4. CASE UNCHANGED <<callVars, terminal, lastError, solverCalls, workerVars, runnerVars>>
           \/ UNCHANGED vars
  <2>1. UNCHANGED <<step, purpose, slot, outcome, lock, terminal, lastError, worker, call>>
    BY <1>4 DEF vars, gatewayVars, callVars, workerVars
  <2>2. QED  BY <2>1 DEF Blame, ErrorKnown, Clean, ErrorWaits, LastIsBlamed
<1>5. QED  BY <1>1, <1>2, <1>3, <1>4, StepKinds

LEMMA ProviderBlamed ==
  ASSUME NEW e \in ErrorNames, StopReason(e) = "provider_error" PROVE e \in ProviderErrors
BY DEF ErrorNames, StopReason, Stops

(* The report is written when no verdict is outstanding any more, and      *)
(* nothing is served after it.                                             *)
LEMMA ReportIsFinal ==
  ASSUME GatewayTypeOK, GatewayOrder, WorkerOrder, MonitorOrder, Blame, BlameIsCurrent, [Next]_vars
  PROVE  BlameIsCurrent'
<1>1. CASE Report
  <2>1. SUFFICES ASSUME result' = "provider_error" PROVE BlameIsCurrent'
    BY DEF BlameIsCurrent
  <2>2. /\ runner = "reading" /\ UNCHANGED <<slot, outcome>>
        /\ result' = StopReason(IF late /\ lastError = "none" THEN "wall_time_exhausted"
                                ELSE lastError)
    BY <1>1 DEF Report, gatewayVars
  <2>3. lastError \in ProviderErrors
    <3>1. lastError \in ErrorNames
      BY DEF Blame, ErrorKnown
    <3>2. "wall_time_exhausted" \in ErrorNames \ ProviderErrors
      BY DEF ErrorNames, ProviderErrors
    <3>3. QED  BY <2>1, <2>2, <3>1, <3>2, ProviderBlamed
  <2>4. PICK b \in Calls :
               /\ outcome[b] \notin {"none", "denied", "good"}
               /\ \A d \in Calls : slot[d] > slot[b] /\ outcome[d] = "good" => step[d] = "recorded"
    BY <2>3 DEF Blame, LastIsBlamed
  <2>5. ASSUME NEW d \in Calls, step[d] = "recorded" PROVE FALSE
    <3>1. lock # 0
      BY <2>5, GatewayAssumption DEF GatewayOrder, LockHeld, Critical
    <3>2. worker = "listen"
      BY <2>3, <3>1 DEF Blame, ErrorWaits
    <3>3. QED  BY <2>2, <3>2 DEF MonitorOrder, Alive, Exits
  <2>6. QED  BY <2>2, <2>4, <2>5 DEF BlameIsCurrent
<1>2. ASSUME UNCHANGED result, result = "provider_error"
      PROVE  BlameIsCurrent'
  <2>1. runner = "reported" /\ ~Alive
    BY <1>2 DEF MonitorOrder
  <2>2. \A c \in Calls : ~ Serve(c)
    BY <2>1 DEF Serve
  <2>3. ~ Work
    BY <2>1, WorkerLives DEF WorkerOrder, GatewayOrder
  <2>4. UNCHANGED <<slot, outcome>>
    BY <2>2, <2>3, StepKinds, MonitorMoves DEF vars, gatewayVars, callVars
  <2>5. QED  BY <1>2, <2>4 DEF BlameIsCurrent
<1>3. CASE ~ Report
  <2>1. UNCHANGED result
    <3>1. ASSUME NEW c \in Calls, Serve(c) PROVE UNCHANGED result
      BY <3>1 DEF Serve, runnerVars
    <3>2. CASE Work
      BY <3>2, WorkerMoves DEF runnerVars
    <3>3. CASE Monitor
      BY <1>3, <3>3 DEF Monitor, LookForStop, LookForEnd, Kill, WorkerGone
    <3>4. QED  BY <3>1, <3>2, <3>3, StepKinds DEF vars, runnerVars
  <2>2. CASE result # "provider_error"
    BY <2>1, <2>2 DEF BlameIsCurrent
  <2>3. QED  BY <1>2, <2>1, <2>2
<1>4. QED  BY <1>1, <1>3

-----------------------------------------------------------------------------
(* The theorems                                                            *)

LEMMA EngineStart == Init => EngineInv
<1> SUFFICES ASSUME Init PROVE EngineInv
  OBVIOUS
<1>1. GatewayTypeOK /\ GatewayOrder
  BY GatewayStart DEF Init
<1>2. WorkerTypes /\ EvidenceTypes /\ RunnerTypes
  BY EngineAssumption DEF Init, WorkerTypes, EvidenceTypes, RunnerTypes
<1>3. TypeOK
  BY <1>1, <1>2, TypeGroups
<1>4. \A c \in Calls : step[c] = "unused"
  BY DEF Init, GatewayInit
<1>5. call \notin Calls
  BY GatewayAssumption DEF Init
<1>6. WorkerOrder
  BY <1>4, <1>5, EngineAssumption
     DEF Init, WorkerOrder, OthersAreBehind, WorkerHasHeard, CandidateIsNew
<1>7. Provenance
  BY <1>5 DEF Init, Provenance, GoodIsLatest, EvidenceNamesItsRequest, FitnessIsEvidenced
<1>8. MonitorOrder
  BY DEF Init, MonitorOrder
<1>9. Blame
  BY <1>5 DEF Init, GatewayInit, Blame, ErrorKnown, ErrorNames, ProviderErrors, Clean, ErrorWaits,
              LastIsBlamed
<1>10. BlameIsCurrent
  BY DEF Init, BlameIsCurrent
<1>11. QED  BY <1>1, <1>3, <1>6, <1>7, <1>8, <1>9, <1>10 DEF EngineInv

LEMMA EngineStep == EngineInv /\ [Next]_vars => EngineInv'
<1> SUFFICES ASSUME EngineInv, [Next]_vars PROVE EngineInv'
  OBVIOUS
<1>1. /\ GatewayTypeOK /\ WorkerTypes /\ EvidenceTypes /\ RunnerTypes
      /\ GatewayOrder /\ WorkerOrder /\ Provenance /\ MonitorOrder /\ Blame /\ BlameIsCurrent
      /\ WorkerHasHeard /\ FlagTypes
  BY TypeGroups, GatewayTypes DEF EngineInv, WorkerOrder
<1>2. GatewayTypeOK' /\ GatewayOrder'
  BY <1>1, GatewayKept
<1>3. WorkerTypes' /\ RunnerTypes' /\ WorkerOrder'
  BY <1>1, WorkerKept
<1>4. EvidenceTypes' /\ Provenance'
  BY <1>1, EvidenceKept
<1>5. MonitorOrder' /\ Blame' /\ BlameIsCurrent'
  BY <1>1, MonitorKept, BlameKept, ReportIsFinal
<1>6. TypeOK'
  BY <1>2, <1>3, <1>4 DEF TypeOK, WorkerTypes, EvidenceTypes, RunnerTypes
<1>7. QED  BY <1>2, <1>3, <1>4, <1>5, <1>6 DEF EngineInv

(* The inductive invariant of a run, from which the results below follow.  *)
THEOREM EngineInvariant == Spec => []EngineInv
<1>1. QED  BY EngineStart, EngineStep, PTL DEF Spec

(* The variables of gateway, worker and monitor keep their types: no row   *)
(* of the ledger, slot or row of evidence ever refers to a missing request.*)
THEOREM EngineTypes == Spec => []TypeOK
<1>1. EngineInv => TypeOK
  BY DEF EngineInv
<1>2. QED  BY <1>1, EngineInvariant, PTL

(* At most one request is out, and none follows one whose result is        *)
(* unknown, whatever the client tries again.                               *)
THEOREM RequestsAreMadeOnce == Spec => []RequestsOnce
<1>1. ASSUME EngineInv PROVE SingleFlight
  <2> DEFINE S == {i \in DOMAIN requests : requests[i].state = "sent"}
  <2>1. S \subseteq {Len(requests)}
    BY <1>1 DEF EngineInv, GatewayOrder, OpenIsLast
  <2>2. IsFiniteSet({Len(requests)}) /\ Cardinality({Len(requests)}) = 1
    BY FS_Singleton
  <2>3. Cardinality(S) <= 1
    BY <2>1, <2>2, FS_Subset
  <2>4. QED  BY <2>3 DEF SingleFlight
<1>2. EngineInv => RequestsOnce
  BY <1>1 DEF RequestsOnce, EngineInv, GatewayOrder
<1>3. QED  BY <1>2, EngineInvariant, PTL

(* Every row of evidence names the request that produced its code, and     *)
(* every objective the engine selects on has a valid row.                  *)
THEOREM EvidenceIsAlwaysSound == Spec => []EvidenceIsSound
<1>1. EngineInv => EvidenceIsSound
  BY DEF EngineInv, Provenance, EvidenceIsSound
<1>2. QED  BY <1>1, EngineInvariant, PTL

(* Exhausted requests alone cancel no worker, and a run is not blamed on   *)
(* an error of the provider that it recovered from.                        *)
THEOREM StopsAreAlwaysJust == Spec => []StopsAreJust
<1>1. EngineInv => StopsAreJust
  BY DEF EngineInv, MonitorOrder, StopsAreJust, BudgetStopIsGraceful
<1>2. QED  BY <1>1, EngineInvariant, PTL

=============================================================================

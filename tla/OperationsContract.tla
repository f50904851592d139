------------------------ MODULE OperationsContract ------------------------
(***************************************************************************)
(* What an Agent is promised about the operations of a Session             *)
(* (docs/protocol.md, section 5), however often it repeats them and        *)
(* whatever dies meanwhile: an id is applied at most once, with one input  *)
(* and to the version its caller named; success is only answered for what  *)
(* was applied; and nothing the Agent can see changes without a new        *)
(* version.                                                                *)
(***************************************************************************)
EXTENDS Naturals

CONSTANTS Calls, OpIds, Inputs, Controls, Nothing, InitialControl

VARIABLES
  version,   (* the state version                                            *)
  control,   (* what the operations act on                                   *)
  applied,   (* for each id, the input it was applied with, or Nothing       *)
  asked      (* for each call, what it asks for and whether it has a receipt *)

contractVars == <<version, control, applied, asked>>

Idle == [id |-> Nothing, input |-> Nothing, expected |-> 0, result |-> "none"]

Init ==
  /\ version = 1 /\ control = InitialControl
  /\ applied = [o \in OpIds |-> Nothing]
  /\ asked = [c \in Calls |-> Idle]

Ask(c) ==
  /\ asked[c] = Idle
  /\ asked'[c] \in [id : OpIds, input : Inputs, expected : 1..version, result : {"none"}]
  /\ asked' = [asked EXCEPT ![c] = asked'[c]]
  /\ UNCHANGED <<version, control, applied>>

Waiting(c) == asked[c].id \in OpIds /\ asked[c].result = "none"

GiveReceipt(c) ==
  asked' = [asked EXCEPT ![c] = [@ EXCEPT !.expected = 0, !.result = "receipt"]]

(* The only step that applies anything. *)
Apply(c) ==
  /\ Waiting(c)
  /\ applied[asked[c].id] = Nothing
  /\ version = asked[c].expected
  /\ applied' = [applied EXCEPT ![asked[c].id] = asked[c].input]
  /\ control' \in Controls
  /\ version' = version + 1
  /\ GiveReceipt(c)

(* A repeated call gets the receipt of the first one. *)
Repeat(c) ==
  /\ Waiting(c)
  /\ applied[asked[c].id] = asked[c].input
  /\ GiveReceipt(c)
  /\ UNCHANGED <<version, control, applied>>

(* The call returns its receipt, is refused, fails or dies. *)
Leave(c) ==
  /\ asked' = [asked EXCEPT ![c] = Idle]
  /\ UNCHANGED <<version, control, applied>>

(* The task and the publication of memory go on by themselves. *)
Progress ==
  /\ control' \in Controls
  /\ version' = version + 1
  /\ UNCHANGED <<applied, asked>>

Next == (\E c \in Calls : Ask(c) \/ Apply(c) \/ Repeat(c) \/ Leave(c)) \/ Progress

Spec == Init /\ [][Next]_contractVars

=============================================================================

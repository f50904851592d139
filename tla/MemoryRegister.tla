--------------------------- MODULE MemoryRegister ---------------------------
(***************************************************************************)
(* What the memory of several Sessions promises (docs/protocol.md, 22 and  *)
(* 23): each entry is a register of versions that are written once and one *)
(* after the other.  A publication is applied when the version it is based *)
(* on is the newest one, at most once, and only then called published.     *)
(***************************************************************************)
EXTENDS Naturals

CONSTANTS Entries, Writes, Versions, NoWrite, First

VARIABLES
  register,  (* the content of each version of each entry                    *)
  proposal,  (* what each publication asked for                              *)
  status     (* what its Session says of it                                  *)

vars == <<register, proposal, status>>

Init ==
  /\ register = First
  /\ status = [o \in Writes |-> "none"]
  /\ \A o \in Writes : proposal[o].entry = NoWrite

Present(e, v) == register[e][v] # NoWrite
Applied(o) == \E e \in Entries, v \in Versions : register[e][v] = o

Propose(o) ==
  /\ status[o] = "none" /\ status' = [status EXCEPT ![o] = "proposed"]
  /\ \A p \in Writes \ {o} : proposal'[p] = proposal[p]
  /\ UNCHANGED register

Accept(o) ==
  /\ status[o] \in {"proposed", "accepted"}
  /\ status' = [status EXCEPT ![o] = "accepted"]
  /\ UNCHANGED <<register, proposal>>

Apply(o) ==
  LET e == proposal[o].entry  b == proposal[o].base IN
  /\ status[o] = "accepted" /\ ~Applied(o)
  /\ b = 0 \/ Present(e, b)
  /\ b + 1 \in Versions /\ ~Present(e, b + 1)
  /\ register' = [register EXCEPT ![e][b + 1] = o]
  /\ UNCHANGED <<proposal, status>>

Settle(o, how) ==
  /\ status[o] \in {"proposed", "accepted"}
  /\ how = "published" => Applied(o)
  /\ status' = [status EXCEPT ![o] = how]
  /\ UNCHANGED <<register, proposal>>

Next ==
  \E o \in Writes :
    \/ Propose(o) \/ Accept(o) \/ Apply(o)
    \/ \E how \in {"published", "failed", "rejected"} : Settle(o, how)

Spec == Init /\ [][Next]_vars

=============================================================================

----------------------------- MODULE MCSession -----------------------------
(* Session on small instances. *)
EXTENDS Session, TLC

FewReasons == {"SUCCEEDED", "PROVIDER_TERMINAL"}
NormalEnd  == {"SUCCEEDED"}

(* Requests and evaluations are only told apart by their rows.  Tasks are   *)
(* interchangeable too, but no liveness is checked with this symmetry.      *)
Symmetry == Permutations(Requests) \cup Permutations(SolverCalls) \cup Permutations(Tasks)

=============================================================================

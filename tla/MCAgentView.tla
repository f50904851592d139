---------------------------- MODULE MCAgentView -----------------------------
(* Small instances of module AgentView for TLC. *)
EXTENDS AgentView

(* Callers are alike. *)
Alike == Permutations(Callers)

(* A text and its shorter edition. *)
MCLengths == ("first" :> 3) @@ ("edited" :> 2)

(* Two operations, two inputs, manifests with and without a hash of their  *)
(* own, and a bad request.                                                 *)
Ask(op, input, manifest, declared, valid) ==
  [op |-> op, input |-> input, manifest |-> manifest, declared |-> declared, valid |-> valid]
MCAsked == {Ask("o1", "i1", "c1", TRUE, TRUE), Ask("o1", "i2", "c1", FALSE, TRUE),
            Ask("o1", "i2", "c2", FALSE, TRUE), Ask("o2", "i1", None, FALSE, TRUE),
            Ask("o2", "i2", None, FALSE, FALSE)}

(* Two better programs that do the same. *)
MCWorth     == ("base" :> 3) @@ ("a" :> 2) @@ ("b" :> 1)
MCBehaviour == ("base" :> "s0") @@ ("a" :> "s1") @@ ("b" :> "s1")

(* A policy for every case of the verdict and of the phases, and one whose *)
(* budgets exceed the evaluations.                                         *)
Policy(enabled, window, gain, share, coverage, budgets, schedule, enforce) ==
  [enabled |-> enabled, window |-> window, gain |-> gain, share |-> share,
   coverage |-> coverage, budgets |-> budgets, schedule |-> schedule, enforce |-> enforce]
Split(m, n) == ("exploration" :> m) @@ ("exploitation" :> n)
MCPolicies == {
  Policy(FALSE, 1, 0, <<0, 1>>, <<0, 1>>, <<>>, <<>>, FALSE),
  Policy(TRUE, 3, 2, <<1, 2>>, <<0, 1>>, <<>>, <<>>, FALSE),
  Policy(TRUE, 5, 1, <<1, 1>>, <<1, 2>>, Split(5, 4), <<"exploration">>, TRUE),
  Policy(TRUE, 3, 0, <<0, 1>>, <<0, 1>>, Split(6, 4), <<>>, FALSE)}

=============================================================================

---------------------------- MODULE MCStateQuery ----------------------------
(* The instances of MCOperations, with a reader of the state. *)
EXTENDS StateQuery, MCOperations

=============================================================================

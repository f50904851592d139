------------------------------ MODULE MCRelease ------------------------------
(* Small instances of module Release for TLC. *)
EXTENDS Release

CONSTANTS s1, n1, n2, d1, d2

MCSubs   == {s1}
MCNames  == {n1, n2}
MCDois   == {d1, d2}
MCSeeds  == [s \in MCSubs |-> MCDois]
(* A screen selects nothing, or a heuristic after one work or the other. *)
MCOffers == {<<>>, n1 :> d1, n2 :> d2}

MCSymmetry == Permutations(Builders) \cup Permutations(Ids) \cup {(n1 :> n2) @@ (n2 :> n1) @@ (d1 :> d2) @@ (d2 :> d1)}

=============================================================================

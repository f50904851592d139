------------------------------ MODULE MCMemory ------------------------------
(* Small instances of module MemoryPublication for TLC. *)
EXTENDS MemoryPublication, TLC

CONSTANTS a1, a2, b1, s1, s2, w1, w2

(* Two publications of one Session, one after the other, and one of        *)
(* another Session.                                                        *)
MCWrites == {a1, a2, b1}
MCSessionOf == (a1 :> s1) @@ (a2 :> s1) @@ (b1 :> s2)

(* One publication of each of two Sessions. *)
MCRivals == {a1, b1}
MCRivalSessionOf == (a1 :> s1) @@ (b1 :> s2)

MCWriters == {w1, w2}
MCOneWriter == {w1}
Symmetry == Permutations(MCWriters)

=============================================================================

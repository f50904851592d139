------------------------------ MODULE MCArtifact ------------------------------
(* Instances of the optics session.                                        *)
EXTENDS ArtifactSupervisor

(* The initial prescription 0 fails a hard constraint, the other one is    *)
(* feasible.                                                               *)
MCKey == [a \in Artifacts |-> a + 1]

(* A candidate may be better or worse than the initial prescription.       *)
MCBetterOrWorse == [a \in Artifacts |-> <<2, 3, 1>>[a + 1]]

===============================================================================

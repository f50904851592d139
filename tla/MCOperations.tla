---------------------------- MODULE MCOperations ----------------------------
(* Small instances of module Operations for TLC. *)
EXTENDS Operations, TLC

CONSTANTS c1, c2, sup, o1, o2, o3, o4, o5, o6, p1, p2, none, nobody

MCCalls == {c1, c2}
MCProcess == {c1, c2, sup}

MCOneCall == {c1}
MCOneProcess == {c1, sup}

Do(action) == [action |-> action, plan |-> none]
Submit(plan) == [action |-> "submit-plan", plan |-> plan]

(* A plan whose id is used for another plan; an id that is used for a      *)
(* rival plan and for execute; a stop.                                     *)
MCStartWants == (o1 :> {Submit(p1), Submit(p2)}) @@ (o2 :> {Submit(p2), Do("execute")})
                @@ (o3 :> {Do("stop")})
MCStartIds == {o1, o2, o3}

(* One id for each operation of a round. *)
MCRoundWants == (o1 :> {Submit(p1)}) @@ (o2 :> {Do("execute")}) @@ (o3 :> {Do("collect")})
                @@ (o4 :> {Do("submit-evaluation")}) @@ (o5 :> {Do("memory-revise")})
                @@ (o6 :> {Do("finish-continue"), Do("finish-complete")})
MCRoundIds == {o1, o2, o3, o4, o5, o6}

(* The least that commits, flushes and stops. *)
MCLiveWants == (o1 :> {Submit(p1)}) @@ (o2 :> {Do("execute")}) @@ (o3 :> {Do("stop")})
               @@ (o4 :> {Do("collect")})
MCLiveIds == {o1, o2, o3, o4}

Symmetry == Permutations(MCCalls)

=============================================================================

----------------------------- MODULE ReleaseShelf -----------------------------
(***************************************************************************)
(* What the knowledge store promises its readers (docs/knowledge_base.md,  *)
(* 23 and 48): a release is put on the shelf once and never changes, and   *)
(* current names one that is there; going back is to name an older one.    *)
(***************************************************************************)
CONSTANTS Ids, Nowhere

VARIABLES
  shelf,    (* the content of each release, Nowhere while it has none        *)
  current   (* the release readers are sent to                               *)

Init == shelf = [r \in Ids |-> Nowhere] /\ current = Nowhere

Publish(r) ==
  /\ shelf[r] = Nowhere /\ shelf'[r] # Nowhere
  /\ shelf' = [shelf EXCEPT ![r] = shelf'[r]] /\ UNCHANGED current

Point(r) == shelf[r] # Nowhere /\ current' = r /\ UNCHANGED shelf

Next == \E r \in Ids : Publish(r) \/ Point(r)

Spec == Init /\ [][Next]_<<shelf, current>>

=============================================================================

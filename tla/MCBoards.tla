------------------------------ MODULE MCBoards ------------------------------
(***************************************************************************)
(* The two models around the runner's board side by side: what the         *)
(* settling does to any board (BoardEdits) and what the store does to its  *)
(* memory and its file (LiveStore).  `part` says which takes the steps of  *)
(* a behaviour; the other stays in one first state.                        *)
(***************************************************************************)
EXTENDS BoardEdits, MCLiveStore, TLC

Symmetry == Permutations(Tasks)

VARIABLE part

Init ==
  /\ part \in {"edits", "store"} /\ EditsInit /\ StoreInit
  /\ part # "store" => Col(disk, Plan[1]) = CHOOSE k \in Cols : TRUE

Next ==
  /\ UNCHANGED part
  /\ \/ part = "edits" /\ EditsNext /\ UNCHANGED storeVars
     \/ part = "store" /\ StoreNext /\ UNCHANGED editsVars

\* After a merge that clipped, up to the next read: nothing is claimed of the rest.
GoesOn == clipped => read = <<>>

Spec == Init /\ [][Next]_<<part, editsVars, storeVars>>
=============================================================================

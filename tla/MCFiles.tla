------------------------------ MODULE MCFiles ------------------------------
(***************************************************************************)
(* The two writers of the user's files side by side: the tools of a run in *)
(* its working tree (WorkTree) and the ratchet in the settings (Ratchet).  *)
(* `part` says which of the two takes the steps of a behaviour; the other  *)
(* stays in one first state.                                               *)
(***************************************************************************)
EXTENDS WorkTree, MCRatchet

VARIABLE part

\* Both paths have one name in the checkpoint store, as a/b and a__b do.
OneName == [p \in Paths |-> 1]

FilesInit ==
  /\ part \in {"tools", "ratchet"} /\ WorkInit /\ RatchetInit
  /\ part = "tools" => \A k \in Knobs : disk[k] = CHOOSE v \in Values : TRUE
  /\ part = "ratchet" => file = [p \in Paths |-> {Original}]

FilesNext ==
  /\ UNCHANGED part
  /\ \/ part = "tools" /\ WorkNext /\ UNCHANGED ratchetVars
     \/ part = "ratchet" /\ RatchetNext /\ UNCHANGED workVars

\* WorkFairness, for the behaviours of the tools; nothing is asked of the ratchet.
FilesFairness == \A c \in WriteCalls : WF_workVars(part = "tools" /\ CallSteps(c))

FilesSpec == FilesInit /\ [][FilesNext]_<<part, workVars, ratchetVars>> /\ FilesFairness
=============================================================================

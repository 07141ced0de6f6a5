------------------------------ MODULE MCStudio ------------------------------
(***************************************************************************)
(* Two parts of Studio's server side by side: the event stream             *)
(* (EventStream) and the run slot (ServerRun).  `part` says which takes    *)
(* the steps of a behaviour; the other stays in its first state, and only  *)
(* the fairness of the one that runs is assumed.                           *)
(***************************************************************************)
EXTENDS EventStream, ServerRun

VARIABLE part

StudioInit == part \in {"stream", "run"} /\ StreamInit /\ RunInit

StudioNext ==
  /\ UNCHANGED part
  /\ \/ part = "stream" /\ StreamNext /\ UNCHANGED runVars
     \/ part = "run" /\ RunNext /\ UNCHANGED streamVars

StudioFairness == \/ part = "stream" /\ StreamFairness
                  \/ part = "run" /\ RunFairness

StudioSpec ==
  StudioInit /\ [][StudioNext]_<<part, streamVars, runVars>> /\ StudioFairness
=============================================================================

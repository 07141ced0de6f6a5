------------------------------- MODULE MCTurn -------------------------------
(* FinishRun with the fairness of its one goroutine: every stage is taken. *)
EXTENDS FinishRun

TurnSpec == FinishSpec /\ FinishFairness
=============================================================================

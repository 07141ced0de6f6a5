----------------------------- MODULE Semaphore -----------------------------
(***************************************************************************)
(* What pkg/orchestrator's run gate promises, without its slots: at every  *)
(* moment the model requests in flight are worth at most Limit, a caller's *)
(* whole batch is admitted in one step, and its units are given back in    *)
(* one step.  RunGate.tla is shown to implement it.                        *)
(***************************************************************************)
EXTENDS Naturals, FiniteSets

CONSTANTS
  Callers,  \* goroutines that reach the model
  Limit     \* the concurrency knee in force for the run

\* inFlight: the units in use, each <<caller, k>> being the k-th unit of a batch.
VARIABLE inFlight

\* The units a batch of weight w of caller c is made of.
Batch(c, w) == {<<c, k>> : k \in 1 .. w}

Owner(c) == {u \in inFlight : u[1] = c}

Init == inFlight = {}

Admit(c, w) ==
  /\ Owner(c) = {}
  /\ Cardinality(inFlight \cup Batch(c, w)) <= Limit
  /\ inFlight' = inFlight \cup Batch(c, w)

Finish(c) ==
  /\ Owner(c) # {}
  /\ inFlight' = inFlight \ Owner(c)

Next == \E c \in Callers :
  \/ \E w \in 1 .. Limit : Admit(c, w)
  \/ Finish(c)

Spec == Init /\ [][Next]_inFlight
=============================================================================

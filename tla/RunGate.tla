------------------------------ MODULE RunGate ------------------------------
(***************************************************************************)
(* The run-wide concurrency gate of pkg/orchestrator/gate.go: a weighted   *)
(* semaphore over a buffered channel.  acquire takes its slots one at a    *)
(* time, so a batch can hold some of them while it waits for the rest; a   *)
(* canceled context gives back what was held.                              *)
(*                                                                         *)
(* The channel carries struct{}{}; here each element is tagged with the    *)
(* caller that sent it and its place in that caller's batch, <<c, k>>, so  *)
(* that the channel is a set and len(slots) its cardinality.               *)
(***************************************************************************)
EXTENDS Naturals, FiniteSets

CONSTANTS
  Callers,      \* goroutines that reach the model (roles, workers, reviewers)
  MaxParallel,  \* the configured max_parallel, any integer a config can hold
  Weights       \* len(reqs) of the batches the callers send

ASSUME MaxParallelNat == MaxParallel \in Nat
ASSUME WeightsNat == Weights \subseteq Nat

VARIABLES
  slots,   \* the elements in the buffered channel
  held,    \* held[c]: acquire's local counter, the slots c owns
  weight,  \* weight[c]: the clamped weight c asked for
  pc       \* pc[c]: where c is in acquire / the model call / release

vars == <<slots, held, weight, pc>>

\* newRunGate: a limit below 1 means "one at a time", never "nothing may run".
Size == IF MaxParallel < 1 THEN 1 ELSE MaxParallel

\* acquire's clamp of the weight to [1, size].
Clamp(w) == IF w < 1 THEN 1 ELSE IF w > Size THEN Size ELSE w

TypeOK ==
  /\ slots \subseteq Callers \X (1 .. Size)
  /\ held \in [Callers -> 0 .. Size]
  /\ weight \in [Callers -> 1 .. Size]
  /\ pc \in [Callers -> {"idle", "acquiring", "running", "releasing"}]

Init ==
  /\ slots = {}
  /\ held = [c \in Callers |-> 0]
  /\ weight = [c \in Callers |-> 1]
  /\ pc = [c \in Callers |-> "idle"]

\* A caller enters acquire with a batch of w requests.
Request(c, w) ==
  /\ pc[c] = "idle"
  /\ pc' = [pc EXCEPT ![c] = "acquiring"]
  /\ weight' = [weight EXCEPT ![c] = Clamp(w)]
  /\ UNCHANGED <<slots, held>>

\* One send on the channel; the last one admits the batch.
TakeSlot(c) ==
  /\ pc[c] = "acquiring"
  /\ held[c] < weight[c]
  /\ Cardinality(slots) < Size
  /\ slots' = slots \cup {<<c, held[c] + 1>>}
  /\ held' = [held EXCEPT ![c] = @ + 1]
  /\ pc' = [pc EXCEPT ![c] = IF held[c] + 1 = weight[c] THEN "running" ELSE "acquiring"]
  /\ UNCHANGED weight

\* Mutant of CancelWait: ctx.Err() is ignored and the model call is made anyway.
CancelWaitProceeds(c) ==
  /\ pc[c] = "acquiring"
  /\ pc' = [pc EXCEPT ![c] = "running"]
  /\ UNCHANGED <<slots, held, weight>>

\* The run is canceled while the caller waits: release(), then ctx.Err().
CancelWait(c) ==
  /\ pc[c] = "acquiring"
  /\ pc' = [pc EXCEPT ![c] = IF held[c] > 0 THEN "releasing" ELSE "idle"]
  /\ UNCHANGED <<slots, held, weight>>

\* Mutant of Return: the release is not deferred and an early return leaks it.
ReturnLeaks(c) ==
  /\ pc[c] = "running"
  /\ pc' = [pc EXCEPT ![c] = "idle"]
  /\ UNCHANGED <<slots, held, weight>>

\* ExecuteSubAgents returns: the deferred release starts.
Return(c) ==
  /\ pc[c] = "running"
  /\ pc' = [pc EXCEPT ![c] = "releasing"]
  /\ UNCHANGED <<slots, held, weight>>

\* One receive from the channel by the release closure.
GiveSlot(c) ==
  /\ pc[c] = "releasing"
  /\ slots' = slots \ {<<c, held[c]>>}
  /\ held' = [held EXCEPT ![c] = @ - 1]
  /\ pc' = [pc EXCEPT ![c] = IF held[c] = 1 THEN "idle" ELSE "releasing"]
  /\ UNCHANGED weight

Next == \E c \in Callers :
  \/ \E w \in Weights : Request(c, w)
  \/ TakeSlot(c)
  \/ CancelWait(c)
  \/ Return(c)
  \/ GiveSlot(c)

Spec == Init /\ [][Next]_vars

(***************************************************************************)
(* A goroutine runs until it blocks and a model call ends at its timeout,  *)
(* so Return and GiveSlot are weakly fair.  A channel serves its blocked   *)
(* senders first come first served, so a sender for which room keeps       *)
(* appearing gets it: TakeSlot is strongly fair.  Cancellation is not fair. *)
(***************************************************************************)
GateFairness == \A c \in Callers :
  WF_vars(Return(c)) /\ WF_vars(GiveSlot(c)) /\ SF_vars(TakeSlot(c))

-----------------------------------------------------------------------------
\* The units of work at the endpoint: one per admitted slot.
InFlight == {u \in Callers \X (1 .. Size) : pc[u[1]] = "running" /\ u[2] <= weight[u[1]]}

\* The channel holds exactly what the callers' local counters say they own;
\* a release that returned too little or too much would break it for good.
SlotsMatchHeld == slots = {s \in Callers \X (1 .. Size) : s[2] <= held[s[1]]}

\* The inductive invariant: a caller's counter agrees with its place in acquire.
CounterInv == \A c \in Callers :
  /\ pc[c] = "idle" => held[c] = 0
  /\ pc[c] = "acquiring" => held[c] < weight[c]
  /\ pc[c] = "running" => held[c] = weight[c]
  /\ pc[c] = "releasing" => held[c] > 0 /\ held[c] <= weight[c]

ChannelBound == Cardinality(slots) <= Size

\* gate.go:14-29: whatever the interleaving of roles, workers and reviewers,
\* the requests in flight never exceed the configured knee.
KneeRespected == Cardinality(InFlight) <= Size

\* gate.go:43-46: with the one-request batches every caller of this program
\* sends, a caller that waits is served unless its run is canceled.  (Two larger
\* batches may each hold a part of the slots and wait for the rest.)
WaiterServed ==
  [](\A c \in Callers : weight[c] = 1) =>
    \A c \in Callers : pc[c] = "acquiring" ~> pc[c] # "acquiring"

\* The gate implements the abstract counting semaphore.
Abs == INSTANCE Semaphore WITH Limit <- Size, inFlight <- InFlight
ImplementsSemaphore == Abs!Spec
=============================================================================

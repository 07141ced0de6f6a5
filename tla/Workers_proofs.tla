--------------------------- MODULE Workers_proofs ---------------------------
(***************************************************************************)
(* Proofs about what a worker of a run waits for (the components MCWorkers *)
(* puts side by side): RunGate for every set of callers, max_parallel and  *)
(* batch weights; Hitl for any number of tasks and of handlers' calls and  *)
(* any timeout; McpClient for any number of requests, any capacity of the  *)
(* channel and of the pipes, and any number of log lines.                  *)
(***************************************************************************)
EXTENDS RunGate, McpClient, Hitl, FiniteSetTheorems, SequenceTheorems, TLAPS

-----------------------------------------------------------------------------
(* RunGate *)

\* Everything the steps need at once: types, counters, channel and its bound.
IInv == TypeOK /\ CounterInv /\ SlotsMatchHeld /\ IsFiniteSet(slots) /\ ChannelBound

LEMMA SizePositive == Size \in Nat /\ Size >= 1
  BY MaxParallelNat DEF Size

LEMMA ClampRange == ASSUME NEW w \in Nat PROVE Clamp(w) \in 1 .. Size
  BY SizePositive DEF Clamp

\* One send lengthens a channel by at most one, one receive never does.
LEMMA AddCardinality ==
  ASSUME NEW S, NEW x, IsFiniteSet(S)
  PROVE  IsFiniteSet(S \cup {x}) /\ Cardinality(S \cup {x}) <= Cardinality(S) + 1
<1>1. Cardinality(S) \in Nat
  BY FS_CardinalityType
<1> QED
  BY <1>1, FS_AddElement

LEMMA RemoveCardinality ==
  ASSUME NEW S, NEW x, IsFiniteSet(S)
  PROVE  IsFiniteSet(S \ {x}) /\ Cardinality(S \ {x}) <= Cardinality(S)
<1>1. Cardinality(S) \in Nat
  BY FS_CardinalityType
<1> QED
  BY <1>1, FS_RemoveElement

LEMMA InitIInv == Init => IInv
<1> SUFFICES ASSUME Init PROVE IInv
  OBVIOUS
<1>1. TypeOK /\ CounterInv
  BY SizePositive DEF Init, TypeOK, CounterInv
<1>2. SlotsMatchHeld
  BY SizePositive DEF Init, SlotsMatchHeld
<1>3. IsFiniteSet(slots) /\ ChannelBound
  BY SizePositive, FS_EmptySet DEF Init, ChannelBound
<1> QED
  BY <1>1, <1>2, <1>3 DEF IInv

LEMMA RequestIInv ==
  ASSUME NEW c \in Callers, NEW w \in Weights, IInv, Request(c, w)
  PROVE  IInv'
<1>1. Clamp(w) \in 1 .. Size
  BY ClampRange, WeightsNat
<1>2. TypeOK'
  BY <1>1 DEF IInv, TypeOK, Request
<1>3. CounterInv'
  BY <1>1, SizePositive DEF IInv, TypeOK, CounterInv, Request
<1> QED
  BY <1>2, <1>3 DEF IInv, SlotsMatchHeld, ChannelBound, Request

LEMMA TakeSlotIInv ==
  ASSUME NEW c \in Callers, IInv, TakeSlot(c)
  PROVE  IInv'
<1> USE SizePositive DEF IInv, TakeSlot
<1>1. held[c] \in Nat /\ weight[c] \in 1 .. Size /\ held[c] + 1 \in 1 .. Size
  BY DEF TypeOK
<1>2. TypeOK'
  BY <1>1 DEF TypeOK
<1>3. CounterInv'
  BY <1>1 DEF TypeOK, CounterInv
<1>4. SlotsMatchHeld'
  <2> SUFFICES ASSUME NEW s \in Callers \X (1 .. Size)
               PROVE  s \in slots' <=> s[2] <= held'[s[1]]
    BY <1>2 DEF SlotsMatchHeld, TypeOK
  <2>1. s = <<s[1], s[2]>> /\ s[1] \in Callers /\ s[2] \in 1 .. Size /\ held[s[1]] \in Nat
    BY DEF TypeOK
  <2>2. CASE s[1] = c
    BY <1>1, <2>1, <2>2 DEF SlotsMatchHeld, TypeOK
  <2>3. CASE s[1] # c
    BY <1>1, <2>1, <2>3 DEF SlotsMatchHeld, TypeOK
  <2> QED
    BY <2>2, <2>3
<1>5. IsFiniteSet(slots') /\ Cardinality(slots') <= Cardinality(slots) + 1
  BY AddCardinality
<1>6. ChannelBound'
  BY <1>5, FS_CardinalityType DEF ChannelBound
<1> QED
  BY <1>2, <1>3, <1>4, <1>5, <1>6

LEMMA GiveSlotIInv ==
  ASSUME NEW c \in Callers, IInv, GiveSlot(c)
  PROVE  IInv'
<1> USE SizePositive DEF IInv, GiveSlot
<1>1. held[c] \in 1 .. Size /\ held[c] - 1 \in 0 .. Size
  BY DEF TypeOK, CounterInv
<1>2. TypeOK'
  BY <1>1 DEF TypeOK
<1>3. CounterInv'
  BY <1>1 DEF TypeOK, CounterInv
<1>4. SlotsMatchHeld'
  <2> SUFFICES ASSUME NEW s \in Callers \X (1 .. Size)
               PROVE  s \in slots' <=> s[2] <= held'[s[1]]
    BY <1>2 DEF SlotsMatchHeld, TypeOK
  <2>1. s = <<s[1], s[2]>> /\ s[1] \in Callers /\ s[2] \in 1 .. Size /\ held[s[1]] \in Nat
    BY DEF TypeOK
  <2>2. CASE s[1] = c
    BY <1>1, <2>1, <2>2 DEF SlotsMatchHeld, TypeOK
  <2>3. CASE s[1] # c
    BY <1>1, <2>1, <2>3 DEF SlotsMatchHeld, TypeOK
  <2> QED
    BY <2>2, <2>3
<1>5. IsFiniteSet(slots') /\ Cardinality(slots') <= Cardinality(slots)
  BY RemoveCardinality
<1>6. ChannelBound'
  BY <1>5, FS_CardinalityType DEF ChannelBound
<1> QED
  BY <1>2, <1>3, <1>4, <1>5, <1>6

LEMMA NextIInv == IInv /\ [Next]_vars => IInv'
<1> SUFFICES ASSUME IInv, [Next]_vars PROVE IInv'
  OBVIOUS
<1>1. ASSUME NEW c \in Callers, NEW w \in Weights, Request(c, w) PROVE IInv'
  BY <1>1, RequestIInv
<1>2. ASSUME NEW c \in Callers, TakeSlot(c) PROVE IInv'
  BY <1>2, TakeSlotIInv
<1>3. ASSUME NEW c \in Callers, CancelWait(c) PROVE IInv'
  BY <1>3, SizePositive
     DEF IInv, TypeOK, CounterInv, SlotsMatchHeld, ChannelBound, CancelWait
<1>4. ASSUME NEW c \in Callers, Return(c) PROVE IInv'
  BY <1>4, SizePositive
     DEF IInv, TypeOK, CounterInv, SlotsMatchHeld, ChannelBound, Return
<1>5. ASSUME NEW c \in Callers, GiveSlot(c) PROVE IInv'
  BY <1>5, GiveSlotIInv
<1>6. CASE UNCHANGED vars
  BY <1>6 DEF IInv, TypeOK, CounterInv, SlotsMatchHeld, ChannelBound, vars
<1> QED
  BY <1>1, <1>2, <1>3, <1>4, <1>5, <1>6 DEF Next

\* Type correctness and the bookkeeping invariants hold in every behavior.
THEOREM GateInvariant == Spec => []IInv
<1> QED
  BY InitIInv, NextIInv, PTL DEF Spec

\* The admitted units are among the elements of the channel.
LEMMA InFlightInChannel == IInv => InFlight \subseteq slots
<1> SUFFICES ASSUME IInv, NEW u \in InFlight PROVE u \in slots
  OBVIOUS
<1>1. u \in Callers \X (1 .. Size) /\ u[1] \in Callers /\ pc[u[1]] = "running"
      /\ u[2] <= weight[u[1]]
  BY DEF InFlight
<1>2. held[u[1]] = weight[u[1]]
  BY <1>1 DEF IInv, CounterInv
<1> QED
  BY <1>1, <1>2 DEF IInv, SlotsMatchHeld

LEMMA KneeFromIInv == IInv => KneeRespected
<1> SUFFICES ASSUME IInv PROVE Cardinality(InFlight) <= Size
  BY DEF KneeRespected
<1>1. InFlight \subseteq slots /\ IsFiniteSet(slots)
  BY InFlightInChannel DEF IInv
<1>2. /\ Cardinality(InFlight) <= Cardinality(slots)
      /\ Cardinality(InFlight) \in Nat
      /\ Cardinality(slots) \in Nat
  BY <1>1, FS_Subset, FS_CardinalityType
<1> QED
  BY <1>2, SizePositive DEF IInv, ChannelBound

\* gate.go:14-29 for every max_parallel: the work in flight at the endpoint
\* never exceeds the knee, whatever the callers, their batches and the
\* cancellations.
THEOREM KneeIsRespected == Spec => []KneeRespected
<1> QED
  BY GateInvariant, KneeFromIInv, PTL

-----------------------------------------------------------------------------
\* The step that sends the last slot of a batch admits the whole batch.
LEMMA LastSlotAdmits ==
  ASSUME NEW c \in Callers, IInv, IInv', TakeSlot(c), held[c] + 1 = weight[c]
  PROVE  Abs!Admit(c, weight[c]) /\ weight[c] \in 1 .. Size
<1>1. weight[c] \in 1 .. Size /\ weight' = weight /\ pc[c] = "acquiring"
      /\ pc' = [pc EXCEPT ![c] = "running"]
  BY DEF IInv, TypeOK, TakeSlot
<1>2. InFlight' = InFlight \cup Abs!Batch(c, weight[c])
  <2>1. ASSUME NEW u \in Callers \X (1 .. Size)
        PROVE  u \in InFlight' <=> u \in InFlight \/ u \in Abs!Batch(c, weight[c])
    <3>1. u = <<u[1], u[2]>> /\ u[1] \in Callers /\ u[2] \in 1 .. Size
      BY <2>1
    <3>2. u \in Abs!Batch(c, weight[c]) <=> u[1] = c /\ u[2] <= weight[c]
      BY <1>1, <3>1, SizePositive DEF Abs!Batch
    <3>3. CASE u[1] = c
      BY <1>1, <2>1, <3>1, <3>2, <3>3 DEF InFlight, IInv, TypeOK
    <3>4. CASE u[1] # c
      BY <1>1, <2>1, <3>1, <3>2, <3>4 DEF InFlight, IInv, TypeOK
    <3> QED
      BY <3>3, <3>4
  <2>2. Abs!Batch(c, weight[c]) \subseteq Callers \X (1 .. Size)
    BY <1>1, SizePositive DEF Abs!Batch
  <2> QED
    BY <2>1, <2>2 DEF InFlight
<1>3. Abs!Owner(c) = {}
  BY <1>1 DEF Abs!Owner, InFlight
<1>4. Cardinality(InFlight') <= Size
  <2>1. KneeRespected'
    BY KneeFromIInv, PTL
  <2> QED
    BY <2>1 DEF KneeRespected
<1>5. \A S : Abs!Cardinality(S) = Cardinality(S)
  BY DEF Abs!Cardinality, Cardinality
<1> QED
  BY <1>1, <1>2, <1>3, <1>4, <1>5 DEF Abs!Admit

\* The step that ends the model call gives the whole batch back.
LEMMA ReturnFinishes ==
  ASSUME NEW c \in Callers, IInv, Return(c)
  PROVE  Abs!Finish(c)
<1>1. pc[c] = "running" /\ weight[c] \in 1 .. Size
      /\ pc' = [pc EXCEPT ![c] = "releasing"] /\ weight' = weight
  BY DEF IInv, TypeOK, Return
<1>2. InFlight' = InFlight \ Abs!Owner(c)
  BY <1>1 DEF InFlight, Abs!Owner, IInv, TypeOK
<1>3. <<c, 1>> \in Abs!Owner(c)
  BY <1>1, SizePositive DEF Abs!Owner, InFlight
<1> QED
  BY <1>2, <1>3 DEF Abs!Finish

\* Every other step leaves the requests in flight as they were.
LEMMA OtherStepsStutter ==
  ASSUME IInv, NEW c \in Callers,
         \/ \E w \in Weights : Request(c, w)
         \/ TakeSlot(c) /\ held[c] + 1 # weight[c]
         \/ CancelWait(c)
         \/ GiveSlot(c)
  PROVE  InFlight' = InFlight
<1>1. pc[c] # "running" /\ pc'[c] # "running"
      /\ \A d \in Callers \ {c} : pc'[d] = pc[d] /\ weight'[d] = weight[d]
  BY DEF IInv, TypeOK, Request, TakeSlot, CancelWait, GiveSlot
<1> QED
  BY <1>1 DEF InFlight

LEMMA StepSimulates == IInv /\ IInv' /\ [Next]_vars => [Abs!Next]_InFlight
<1> SUFFICES ASSUME IInv, IInv', [Next]_vars PROVE [Abs!Next]_InFlight
  OBVIOUS
<1>1. ASSUME NEW c \in Callers, TakeSlot(c), held[c] + 1 = weight[c]
      PROVE  Abs!Next
  BY <1>1, LastSlotAdmits DEF Abs!Next
<1>2. ASSUME NEW c \in Callers, Return(c) PROVE Abs!Next
  BY <1>2, ReturnFinishes DEF Abs!Next
<1>3. CASE UNCHANGED vars
  BY <1>3 DEF vars, InFlight
<1> QED
  BY <1>1, <1>2, <1>3, OtherStepsStutter DEF Next

\* Taking the slots one by one implements the atomic counting semaphore: a
\* half-acquired batch is never visible as work in flight.
THEOREM GateImplementsSemaphore == Spec => ImplementsSemaphore
<1>1. Init => Abs!Init
  BY DEF Init, Abs!Init, InFlight
<1> QED
  BY <1>1, GateInvariant, StepSimulates, PTL DEF Spec, ImplementsSemaphore, Abs!Spec

-----------------------------------------------------------------------------
(* Hitl *)

EscStages == {"none", "queued", "owner", "waiting", "read", "stale", "empty", "giving", "done"}
Escs == [st : EscStages, created : 0 .. Timeout, wait : 0 .. Timeout, read : Tasks \cup {NoTask}]
HttpCalls == [kind : {"none", "look", "post"}, st : {"none", "read", "check", "write"},
              ask : Tasks \cup {NoTask}]
AnswerFiles == [for : Tasks \cup {NoTask}, late : SUBSET (Tasks \X {"created", "wait"})]

LEMMA Parts ==
  HitlTypeOK <=>
    /\ ask \in Tasks \cup {NoTask} /\ halted \in BOOLEAN /\ answer \in AnswerFiles
    /\ esc \in [Tasks -> Escs] /\ call \in [Calls -> HttpCalls]
    /\ outcome \in [Tasks -> {"none", "answered", "timeout", "canceled"}]
    /\ used \in [Tasks -> Tasks \cup {NoTask}]
    /\ robbed \cup unread \subseteq posted /\ posted \cup torn \subseteq Tasks
    /\ \A c \in Calls : call[c].st # "none" => call[c].ask \in Tasks
    /\ \A t, u \in Owners : t = u
  BY DEF HitlTypeOK, EscStages, Escs, HttpCalls, AnswerFiles

LEMMA Empties == NoAnswer \in AnswerFiles /\ NoCall \in HttpCalls /\ NewEsc \in Escs
<1>1. NoAnswer \in AnswerFiles /\ NoCall \in HttpCalls
  BY DEF NoAnswer, NoCall, AnswerFiles, HttpCalls
<1>2. NewEsc \in Escs
  BY TimeoutPositive DEF NewEsc, Escs, EscStages
<1> QED
  BY <1>1, <1>2

LEMMA RemoveType ==
  ASSUME HitlTypeOK, NEW own, RemoveAnswer(own)
  PROVE  answer' = NoAnswer /\ robbed' \subseteq posted /\ robbed \subseteq robbed'
  BY Parts DEF RemoveAnswer

\* A stage change of one escalation that brings no new owner.
LEMMA OwnersShrink ==
  ASSUME HitlTypeOK, NEW t \in Tasks, NEW e \in Escs, esc' = [esc EXCEPT ![t] = e],
         e.st \in {"owner", "waiting", "read", "stale", "empty", "giving"} =>
           esc[t].st \in {"owner", "waiting", "read", "stale", "empty", "giving"}
  PROVE  esc' \in [Tasks -> Escs] /\ (\A u, v \in Owners : u = v)'
<1>1. esc' \in [Tasks -> Escs]
  BY Parts
<1>2. Owners' \subseteq Owners
  BY Parts DEF Owners, Asking
<1> QED
  BY <1>1, <1>2, Parts

LEMMA EscKept ==
  ASSUME HitlTypeOK, UNCHANGED esc
  PROVE  esc' \in [Tasks -> Escs] /\ (\A u, v \in Owners : u = v)'
  BY Parts DEF Owners, Asking

LEMMA CallKept ==
  ASSUME HitlTypeOK, UNCHANGED call
  PROVE  call' \in [Calls -> HttpCalls] /\ \A c \in Calls : call'[c].st # "none" => call'[c].ask \in Tasks
  BY Parts

LEMMA EscMoves ==
  ASSUME HitlTypeOK, NEW t \in Tasks, NEW st \in EscStages
  PROVE  [esc[t] EXCEPT !.st = st] \in Escs
<1>1. esc[t] \in Escs
  BY Parts
<1> QED
  BY <1>1 DEF Escs

LEMMA ResolveType ==
  ASSUME HitlTypeOK, NEW t \in Tasks, NEW how \in {"answered", "timeout", "canceled"},
         NEW whose \in Tasks \cup {NoTask}, Resolve(t, how, whose)
  PROVE  /\ esc' \in [Tasks -> Escs] /\ (\A u, v \in Owners : u = v)'
         /\ outcome' \in [Tasks -> {"none", "answered", "timeout", "canceled"}]
         /\ used' \in [Tasks -> Tasks \cup {NoTask}]
<1>1. "done" \in EscStages
  BY DEF EscStages
<1>2. esc' = [esc EXCEPT ![t] = [esc[t] EXCEPT !.st = "done"]]
  BY Parts DEF Resolve, Escs
<1>3. [esc[t] EXCEPT !.st = "done"].st = "done"
  BY Parts DEF Escs
<1>4. esc' \in [Tasks -> Escs] /\ (\A u, v \in Owners : u = v)'
  BY <1>1, <1>2, <1>3, EscMoves, OwnersShrink
<1> QED
  BY <1>4, Parts DEF Resolve

LEMMA HitlTypeInit == HitlInit => HitlTypeOK
<1> SUFFICES ASSUME HitlInit PROVE HitlTypeOK
  OBVIOUS
<1>1. Owners = {}
  BY DEF HitlInit, Owners, Asking, NewEsc
<1>2. \A c \in Calls : call[c].st = "none"
  BY DEF HitlInit, NoCall
<1>3. esc \in [Tasks -> Escs] /\ call \in [Calls -> HttpCalls] /\ answer \in AnswerFiles
  BY Empties DEF HitlInit
<1> QED
  BY <1>1, <1>2, <1>3, Parts DEF HitlInit

LEMMA MissedType ==
  ASSUME HitlTypeOK, NEW t \in Tasks
  PROVE  [for |-> t, late |-> Missed(t)] \in AnswerFiles
  BY DEF Missed, AnswerFiles

LEMMA HitlTypeStep == HitlTypeOK /\ [HitlNext]_hitlVars => HitlTypeOK'
<1> SUFFICES ASSUME HitlTypeOK, [HitlNext]_hitlVars PROVE HitlTypeOK'
  OBVIOUS
<1>p. /\ ask \in Tasks \cup {NoTask} /\ halted \in BOOLEAN /\ answer \in AnswerFiles
      /\ esc \in [Tasks -> Escs] /\ call \in [Calls -> HttpCalls]
      /\ outcome \in [Tasks -> {"none", "answered", "timeout", "canceled"}]
      /\ used \in [Tasks -> Tasks \cup {NoTask}]
      /\ robbed \cup unread \subseteq posted /\ posted \cup torn \subseteq Tasks
  BY Parts
<1>q. HitlTypeOK' <=>
        /\ ask' \in Tasks \cup {NoTask} /\ halted' \in BOOLEAN /\ answer' \in AnswerFiles
        /\ esc' \in [Tasks -> Escs] /\ call' \in [Calls -> HttpCalls]
        /\ outcome' \in [Tasks -> {"none", "answered", "timeout", "canceled"}]
        /\ used' \in [Tasks -> Tasks \cup {NoTask}]
        /\ robbed' \cup unread' \subseteq posted' /\ posted' \cup torn' \subseteq Tasks
        /\ \A c \in Calls : call'[c].st # "none" => call'[c].ask \in Tasks
        /\ (\A t, u \in Owners : t = u)'
  BY DEF HitlTypeOK, EscStages, Escs, HttpCalls, AnswerFiles
<1>s. {"queued", "owner", "waiting", "read", "stale", "empty", "giving"} \subseteq EscStages
  BY DEF EscStages
<1>1. ASSUME NEW t \in Tasks, Escalate(t) PROVE HitlTypeOK'
  <2>1. esc' = [esc EXCEPT ![t] = [esc[t] EXCEPT !.st = "queued"]]
    BY <1>1, <1>p DEF Escalate, Escs
  <2>2. [esc[t] EXCEPT !.st = "queued"].st = "queued"
    BY <1>p DEF Escs
  <2>3. esc' \in [Tasks -> Escs] /\ (\A u, v \in Owners : u = v)'
    BY <1>s, <2>1, <2>2, EscMoves, OwnersShrink
  <2> QED
    BY <1>1, <1>p, <1>q, <2>3, CallKept DEF Escalate
<1>2. ASSUME NEW t \in Tasks, TakeSlotFor(t) PROVE HitlTypeOK'
  <2>1. CASE halted
    <3>1. Resolve(t, "canceled", NoTask) /\ UNCHANGED <<ask, answer, call, halted, posted, robbed, unread, torn>>
      BY <1>2, <2>1 DEF TakeSlotFor
    <3> QED
      BY <1>p, <1>q, <3>1, ResolveType, CallKept
  <2>2. CASE ~ halted
    <3>1. /\ esc' = [esc EXCEPT ![t].st = "owner"] /\ RemoveAnswer(Tasks) /\ Owners = {}
          /\ UNCHANGED <<ask, call, halted, outcome, used, posted, unread, torn>>
      BY <1>2, <2>2 DEF TakeSlotFor, SlotTaken
    <3>2. esc' = [esc EXCEPT ![t] = [esc[t] EXCEPT !.st = "owner"]]
      BY <3>1, <1>p DEF Escs
    <3>3. esc' \in [Tasks -> Escs]
      BY <1>p, <1>s, <3>2, EscMoves
    <3>4. Owners' \subseteq {t}
      BY <3>1, <1>p DEF Owners, Asking
    <3> QED
      BY <1>p, <1>q, <3>1, <3>3, <3>4, RemoveType, Empties, CallKept
  <2> QED
    BY <2>1, <2>2
<1>3. ASSUME NEW t \in Tasks, WriteAsk(t) PROVE HitlTypeOK'
  <2>1. esc' = [esc EXCEPT ![t] = [esc[t] EXCEPT !.st = "waiting"]]
    BY <1>3, <1>p DEF WriteAsk, Escs
  <2>2. esc' \in [Tasks -> Escs] /\ (\A u, v \in Owners : u = v)'
    BY <1>3, <1>s, <2>1, EscMoves, OwnersShrink DEF WriteAsk
  <2> QED
    BY <1>3, <1>p, <1>q, <2>2, CallKept DEF WriteAsk
<1>4. ASSUME NEW t \in Tasks, ReadAnswer(t) PROVE HitlTypeOK'
  <2> DEFINE e == [esc[t] EXCEPT !.st = "read", !.read = answer.for]
  <2>1. esc' = [esc EXCEPT ![t] = e]
    BY <1>4, <1>p DEF ReadAnswer, Escs
  <2>2. e \in Escs
    <3>1. PICK old \in Escs : old = esc[t]
      BY <1>p
    <3>2. answer.for \in Tasks \cup {NoTask} /\ "read" \in EscStages
      BY <1>p, <1>s DEF AnswerFiles
    <3>3. [old EXCEPT !.st = "read", !.read = answer.for] \in Escs
      BY <3>1, <3>2 DEF Escs
    <3> QED BY <3>1, <3>3
  <2>3. esc' \in [Tasks -> Escs] /\ (\A u, v \in Owners : u = v)'
    BY <1>4, <2>1, <2>2, OwnersShrink DEF ReadAnswer
  <2> QED
    BY <1>4, <1>p, <1>q, <2>3, CallKept DEF ReadAnswer
<1>5. ASSUME NEW t \in Tasks, UseAnswer(t) PROVE HitlTypeOK'
  <2>1. esc[t].st = "read" /\ UNCHANGED <<call, halted, posted, unread>>
    BY <1>5 DEF UseAnswer
  <2>2. CASE <<t, "wait">> \in answer.late
    <3>1. ClearFiles({t}) /\ Resolve(t, "timeout", NoTask) /\ UNCHANGED torn
      BY <1>5, <2>2 DEF UseAnswer
    <3> QED
      BY <1>p, <1>q, <2>1, <3>1, RemoveType, ResolveType, Empties, CallKept DEF ClearFiles
  <2>3. CASE <<t, "wait">> \notin answer.late /\ Matches(t)
    <3>1. ClearFiles({t}) /\ Resolve(t, "answered", esc[t].read) /\ torn' \in {torn, torn \cup {t}}
      BY <1>5, <2>3 DEF UseAnswer
    <3>2. esc[t].read \in Tasks \cup {NoTask}
      BY <1>p DEF Escs
    <3> QED
      BY <1>p, <1>q, <2>1, <3>1, <3>2, RemoveType, ResolveType, Empties, CallKept DEF ClearFiles
  <2>4. CASE <<t, "wait">> \notin answer.late /\ ~ Matches(t)
    <3>1. esc' = [esc EXCEPT ![t].st = "stale"] /\ UNCHANGED <<ask, answer, outcome, used, robbed, torn>>
      BY <1>5, <2>4 DEF UseAnswer
    <3>2. esc' = [esc EXCEPT ![t] = [esc[t] EXCEPT !.st = "stale"]]
      BY <3>1, <1>p DEF Escs
    <3>3. esc' \in [Tasks -> Escs] /\ (\A u, v \in Owners : u = v)'
      BY <2>1, <1>s, <3>2, EscMoves, OwnersShrink
    <3> QED
      BY <1>p, <1>q, <2>1, <3>1, <3>3, CallKept
  <2> QED
    BY <2>2, <2>3, <2>4
<1>6. ASSUME NEW t \in Tasks, DropStale(t) PROVE HitlTypeOK'
  <2>1. esc' = [esc EXCEPT ![t] = [esc[t] EXCEPT !.st = "waiting"]]
    BY <1>6, <1>p DEF DropStale, Escs
  <2>2. esc' \in [Tasks -> Escs] /\ (\A u, v \in Owners : u = v)'
    BY <1>6, <1>s, <2>1, EscMoves, OwnersShrink DEF DropStale
  <2> QED
    BY <1>6, <1>p, <1>q, <2>2, RemoveType, Empties, CallKept DEF DropStale
<1>7. ASSUME NEW t \in Tasks, GiveUp(t) \/ WaitCanceled(t) PROVE HitlTypeOK'
  <2>1. PICK how \in {"timeout", "canceled"}, own \in {{t}, Tasks} : ClearFiles(own) /\ Resolve(t, how, NoTask)
    BY <1>7 DEF GiveUp, WaitCanceled
  <2>2. UNCHANGED <<call, halted, posted, unread, torn>>
    BY <1>7 DEF GiveUp, WaitCanceled
  <2> QED
    BY <1>p, <1>q, <2>1, <2>2, RemoveType, ResolveType, Empties, CallKept DEF ClearFiles
<1>71. ASSUME NEW t \in Tasks, ReadNothing(t) \/ LookAtClock(t) PROVE HitlTypeOK'
  <2>1. PICK st \in {"empty", "giving", "waiting"} : esc' = [esc EXCEPT ![t].st = st]
    BY <1>71 DEF ReadNothing, LookAtClock
  <2>2. esc' = [esc EXCEPT ![t] = [esc[t] EXCEPT !.st = st]] /\ esc[t].st \in {"waiting", "empty"}
    BY <1>71, <1>p, <2>1 DEF Escs, ReadNothing, LookAtClock
  <2>3. esc' \in [Tasks -> Escs] /\ (\A u, v \in Owners : u = v)'
    BY <1>s, <2>2, EscMoves, OwnersShrink
  <2>4. unread' \subseteq unread /\ UNCHANGED <<ask, answer, call, halted, outcome, used, posted, robbed, torn>>
    BY <1>71 DEF ReadNothing, LookAtClock
  <2> QED
    BY <1>p, <1>q, <2>3, <2>4, CallKept
<1>8. ASSUME NEW c \in Calls, NEW kind \in {"look", "post"}, CallReads(c, kind) PROVE HitlTypeOK'
  <2> DEFINE r == [kind |-> kind, st |-> IF kind = "look" THEN "read" ELSE "check", ask |-> ask]
  <2>1. r \in HttpCalls /\ r.ask \in Tasks
    BY <1>8, <1>p DEF CallReads, HttpCalls
  <2>2. call' = [call EXCEPT ![c] = r]
    BY <1>8 DEF CallReads
  <2>3. call' \in [Calls -> HttpCalls] /\ \A d \in Calls : call'[d].st # "none" => call'[d].ask \in Tasks
    BY <1>p, <2>1, <2>2, Parts
  <2> QED
    BY <1>8, <1>p, <1>q, <2>3, EscKept DEF CallReads
<1>9. ASSUME NEW c \in Calls, LookAtAnswer(c) \/ CallChecks(c) PROVE HitlTypeOK'
  <2>1. PICK st \in {"check", "write"} : call' \in {[call EXCEPT ![c] = NoCall],
                                                    [call EXCEPT ![c] = [call[c] EXCEPT !.st = st]]}
    BY <1>9 DEF LookAtAnswer, CallChecks
  <2>2. call[c].st # "none"
    BY <1>9 DEF LookAtAnswer, CallChecks
  <2>3. call' \in [Calls -> HttpCalls]
    BY <1>p, <2>1, Empties DEF HttpCalls
  <2>4. \A d \in Calls : call'[d].st # "none" => call'[d].ask \in Tasks
    BY <1>p, <2>1, <2>2, Parts DEF HttpCalls, NoCall
  <2>5. UNCHANGED <<esc, halted, outcome, used, posted, unread, torn>>
    BY <1>9 DEF LookAtAnswer, CallChecks
  <2>6. \/ UNCHANGED <<ask, answer, robbed>>
        \/ ask' \in {ask, NoTask} /\ RemoveAnswer({})
    BY <1>9 DEF LookAtAnswer, CallChecks, ClearFiles
  <2> QED
    BY <1>p, <1>q, <2>3, <2>4, <2>5, <2>6, RemoveType, Empties, EscKept
<1>10. ASSUME NEW c \in Calls, CallWrites(c) PROVE HitlTypeOK'
  <2>1. call[c].ask \in Tasks
    BY <1>10, Parts DEF CallWrites
  <2>2. call' = [call EXCEPT ![c] = NoCall] /\ UNCHANGED <<ask, esc, halted, outcome, used, robbed, torn>>
    BY <1>10 DEF CallWrites
  <2>3. call' \in [Calls -> HttpCalls] /\ \A d \in Calls : call'[d].st # "none" => call'[d].ask \in Tasks
    BY <1>p, <2>2, Parts, Empties DEF NoCall
  <2>4. /\ answer' \in {answer, [for |-> call[c].ask, late |-> Missed(call[c].ask)]}
        /\ posted' \in {posted, posted \cup {call[c].ask}}
        /\ unread' \subseteq unread \cup {call[c].ask} /\ unread' \subseteq unread \cup posted'
        /\ posted \subseteq posted'
    BY <1>10 DEF CallWrites
  <2> QED
    BY <1>p, <1>q, <2>1, <2>2, <2>3, <2>4, MissedType, EscKept
<1>11. CASE Halt
  BY <1>11, <1>p, <1>q, CallKept, EscKept DEF Halt
<1>12. CASE Tick
  <2> DEFINE Ticked(t) ==
        [esc[t] EXCEPT !.created = IF esc[t].st # "none" /\ @ > 0 THEN @ - 1 ELSE @,
                       !.wait = IF Asking(t) /\ @ > 0 THEN @ - 1 ELSE @]
  <2>1. \A t \in Tasks : Ticked(t) \in Escs /\ Ticked(t).st = esc[t].st
    <3> SUFFICES ASSUME NEW t \in Tasks PROVE Ticked(t) \in Escs /\ Ticked(t).st = esc[t].st
      OBVIOUS
    <3>1. esc[t] \in Escs /\ esc[t].created \in 0 .. Timeout /\ esc[t].wait \in 0 .. Timeout
      BY <1>p DEF Escs
    <3>2. /\ (IF esc[t].st # "none" /\ esc[t].created > 0 THEN esc[t].created - 1 ELSE esc[t].created)
               \in 0 .. Timeout
          /\ (IF Asking(t) /\ esc[t].wait > 0 THEN esc[t].wait - 1 ELSE esc[t].wait) \in 0 .. Timeout
      BY <3>1, TimeoutPositive
    <3> QED
      BY <3>1, <3>2 DEF Escs
  <2>2. esc' = [t \in Tasks |-> Ticked(t)]
    BY <1>12 DEF Tick
  <2>3. esc' \in [Tasks -> Escs]
    BY <2>1, <2>2
  <2>4. Owners' \subseteq Owners
    BY <2>1, <2>2 DEF Owners, Asking
  <2>5. (\A t, u \in Owners : t = u)'
    BY <2>4, Parts
  <2> QED
    BY <1>12, <1>p, <1>q, <2>3, <2>5, CallKept DEF Tick
<1>13. CASE UNCHANGED hitlVars
  BY <1>13, <1>p, <1>q, CallKept, EscKept DEF hitlVars
<1> QED
  BY <1>1, <1>2, <1>3, <1>4, <1>5, <1>6, <1>7, <1>71, <1>8, <1>9, <1>10, <1>11, <1>12, <1>13 DEF HitlNext

\* Every variable of the handshake keeps its type, and one question at a time holds the files.
THEOREM AskTypeCorrect == HitlSpec => []HitlTypeOK
<1>1. HitlInit => HitlTypeOK
  BY HitlTypeInit
<1>2. HitlTypeOK /\ [HitlNext]_hitlVars => HitlTypeOK'
  BY HitlTypeStep
<1> QED
  BY <1>1, <1>2, PTL DEF HitlSpec

-----------------------------------------------------------------------------
\* What Resolve writes, and that nothing else writes outcomes.
LEMMA Resolved ==
  ASSUME HitlTypeOK, NEW t \in Tasks, NEW how, NEW whose, Resolve(t, how, whose)
  PROVE  \A u \in Tasks :
           /\ outcome'[u] = IF u = t THEN how ELSE outcome[u]
           /\ used'[u] = IF u = t THEN whose ELSE used[u]
           /\ esc'[u].st = IF u = t THEN "done" ELSE esc[u].st
  BY Parts DEF Resolve, Escs

LEMMA OwnStep == HitlTypeOK /\ AnswerIsOwn /\ [HitlNext]_hitlVars => AnswerIsOwn'
<1> SUFFICES ASSUME HitlTypeOK, AnswerIsOwn, [HitlNext]_hitlVars PROVE AnswerIsOwn'
  OBVIOUS
<1> USE DEF AnswerIsOwn
<1>1. ASSUME NEW t \in Tasks, UseAnswer(t) PROVE AnswerIsOwn'
  <2>1. CASE <<t, "wait">> \in answer.late
    BY <1>1, <2>1, Resolved DEF UseAnswer
  <2>2. CASE <<t, "wait">> \notin answer.late /\ Matches(t)
    <3>1. Resolve(t, "answered", esc[t].read) /\ torn' = IF esc[t].read = t THEN torn ELSE torn \cup {t}
      BY <1>1, <2>2 DEF UseAnswer, Matches
    <3> QED
      BY <3>1, Resolved
  <2>3. CASE <<t, "wait">> \notin answer.late /\ ~ Matches(t)
    BY <1>1, <2>3 DEF UseAnswer
  <2> QED
    BY <2>1, <2>2, <2>3
<1>2. ASSUME NEW t \in Tasks, TakeSlotFor(t) \/ GiveUp(t) \/ WaitCanceled(t) PROVE AnswerIsOwn'
  <2>1. UNCHANGED torn
    BY <1>2 DEF TakeSlotFor, GiveUp, WaitCanceled
  <2>2. \/ UNCHANGED <<outcome, used>>
        \/ \E how \in {"timeout", "canceled"} : Resolve(t, how, NoTask)
    BY <1>2 DEF TakeSlotFor, GiveUp, WaitCanceled
  <2> QED
    BY <2>1, <2>2, Resolved
<1>3. CASE \/ \E t \in Tasks : \/ Escalate(t) \/ WriteAsk(t) \/ ReadAnswer(t) \/ DropStale(t)
                               \/ ReadNothing(t) \/ LookAtClock(t)
           \/ \E c \in Calls : \/ \E kind \in {"look", "post"} : CallReads(c, kind)
                               \/ LookAtAnswer(c) \/ CallChecks(c) \/ CallWrites(c)
           \/ Halt \/ Tick \/ UNCHANGED hitlVars
  <2>1. CASE \E t \in Tasks : \/ Escalate(t) \/ WriteAsk(t) \/ ReadAnswer(t) \/ DropStale(t)
                            \/ ReadNothing(t) \/ LookAtClock(t)
    BY <2>1 DEF Escalate, WriteAsk, ReadAnswer, DropStale, ReadNothing, LookAtClock
  <2>2. CASE \E c \in Calls : \/ \E kind \in {"look", "post"} : CallReads(c, kind)
                            \/ LookAtAnswer(c) \/ CallChecks(c) \/ CallWrites(c)
    BY <2>2 DEF CallReads, LookAtAnswer, CallChecks, CallWrites
  <2>3. CASE Halt \/ Tick \/ UNCHANGED hitlVars
    BY <2>3 DEF Halt, Tick, hitlVars
  <2> QED
    BY <1>3, <2>1, <2>2, <2>3
<1> QED
  BY <1>1, <1>2, <1>3 DEF HitlNext

\* A task acts on the answer to its own question, whatever is written, removed or read late.
THEOREM TasksUseTheirAnswer == HitlSpec => []AnswerIsOwn
<1>1. HitlInit => HitlTypeOK /\ AnswerIsOwn
  BY HitlTypeInit DEF HitlInit, AnswerIsOwn
<1>2. HitlTypeOK /\ AnswerIsOwn /\ [HitlNext]_hitlVars => (HitlTypeOK /\ AnswerIsOwn)'
  BY HitlTypeStep, OwnStep
<1> QED
  BY <1>1, <1>2, PTL DEF HitlSpec

-----------------------------------------------------------------------------
(* AnsweredInTime: an answer taken in time stays on the disk, for its task  *)
(* and not late, until that task has it or somebody removes it; the task    *)
(* holds the mutex all the while, so nobody else's question removes it.     *)
(* While its waiter is between a read and the clock it may be there unread. *)
Waits(t) == /\ Asking(t) /\ answer.for = t /\ <<t, "wait">> \notin answer.late
            /\ esc[t].st \in {"empty", "giving"} => t \in unread
Settled(t) == esc[t].st = "done" /\ (outcome[t] # "timeout" \/ t \in unread)

InTimeInv == \A t \in posted \ robbed : Waits(t) \/ Settled(t)

\* A step that leaves the answer, its stages and the outcomes.
LEMMA InTimeKept ==
  ASSUME HitlTypeOK, InTimeInv, UNCHANGED <<answer, outcome, posted, unread>>, robbed \subseteq robbed',
         \A t \in Tasks : /\ Asking(t) => Asking(t)'
                          /\ answer # NoAnswer /\ esc'[t].st \in {"empty", "giving"} =>
                               esc[t].st \in {"empty", "giving"}
                          /\ esc[t].st = "done" => esc'[t].st = "done"
  PROVE  InTimeInv'
<1> SUFFICES ASSUME NEW t \in posted, t \notin robbed PROVE Waits(t)' \/ Settled(t)'
  BY DEF InTimeInv
<1>1. t \in Tasks /\ t # NoTask /\ (Waits(t) \/ Settled(t))
  BY Parts, NoTaskApart DEF InTimeInv
<1>2. CASE Waits(t)
  BY <1>1, <1>2 DEF Waits, NoAnswer
<1>3. CASE Settled(t)
  BY <1>1, <1>3 DEF Settled
<1> QED
  BY <1>1, <1>2, <1>3

\* Who removes another task's answer in time is on record.
LEMMA InTimeRemoved ==
  ASSUME HitlTypeOK, InTimeInv, NEW own \in SUBSET Tasks, RemoveAnswer(own), UNCHANGED <<posted, unread>>,
         \A t \in Tasks : esc[t].st = "done" => esc'[t].st = "done" /\ outcome'[t] = outcome[t],
         \A t \in own : Waits(t) => Settled(t)'
  PROVE  InTimeInv'
<1> SUFFICES ASSUME NEW t \in posted, t \notin robbed' PROVE Settled(t)'
  BY DEF InTimeInv
<1>1. t \in Tasks /\ t \notin robbed
  BY Parts, RemoveType
<1>2. Waits(t) \/ Settled(t)
  BY <1>1 DEF InTimeInv
<1>3. CASE Settled(t)
  BY <1>1, <1>3 DEF Settled
<1>4. CASE Waits(t)
  <2>1. t \in own
    BY <1>4 DEF Waits, RemoveAnswer
  <2> QED
    BY <1>4, <2>1
<1> QED
  BY <1>2, <1>3, <1>4

LEMMA InTimeStep == HitlTypeOK /\ InTimeInv /\ [HitlNext]_hitlVars => InTimeInv'
<1> SUFFICES ASSUME HitlTypeOK, InTimeInv, [HitlNext]_hitlVars PROVE InTimeInv'
  OBVIOUS
<1>p. /\ esc \in [Tasks -> Escs] /\ answer \in AnswerFiles /\ posted \subseteq Tasks
      /\ \A t, u \in Owners : t = u
  BY Parts
<1>n. ASSUME NEW t \in Tasks, Waits(t) PROVE answer # NoAnswer /\ t \in Owners
  BY <1>n, NoTaskApart DEF Waits, NoAnswer, Owners
<1>1. ASSUME NEW t \in Tasks, Escalate(t) \/ WriteAsk(t) \/ ReadAnswer(t) PROVE InTimeInv'
  <2>1. UNCHANGED <<answer, outcome, posted, robbed, unread>>
    BY <1>1 DEF Escalate, WriteAsk, ReadAnswer
  <2>2. \A u \in Tasks : /\ Asking(u) => Asking(u)'
                         /\ esc'[u].st \in {"empty", "giving"} => esc[u].st \in {"empty", "giving"}
                         /\ esc[u].st = "done" => esc'[u].st = "done"
    BY <1>1, <1>p DEF Escalate, WriteAsk, ReadAnswer, Asking, Escs
  <2> QED
    BY <2>1, <2>2, InTimeKept
<1>2. ASSUME NEW t \in Tasks, TakeSlotFor(t) PROVE InTimeInv'
  <2>1. Owners = {} /\ esc[t].st = "queued" /\ UNCHANGED <<posted, unread>> /\ robbed \subseteq robbed'
    BY <1>2 DEF TakeSlotFor, SlotTaken, RemoveAnswer
  <2>2. \A u \in posted \ robbed : Settled(u)
    BY <1>n, <1>p, <2>1 DEF InTimeInv
  <2>3. \A u \in Tasks : esc[u].st = "done" => esc'[u].st = "done" /\ outcome'[u] = outcome[u]
    <3>1. CASE halted
      BY <1>2, <2>1, <3>1, Resolved DEF TakeSlotFor
    <3>2. CASE ~ halted
      BY <1>2, <1>p, <2>1, <3>2 DEF TakeSlotFor, Escs
    <3> QED
      BY <3>1, <3>2
  <2> QED
    BY <1>p, <2>1, <2>2, <2>3 DEF InTimeInv, Settled
<1>3. ASSUME NEW t \in Tasks, UseAnswer(t) PROVE InTimeInv'
  <2>1. esc[t].st = "read" /\ UNCHANGED <<posted, unread>>
    BY <1>3 DEF UseAnswer
  <2>2. CASE <<t, "wait">> \in answer.late
    <3>1. ClearFiles({t}) /\ Resolve(t, "timeout", NoTask)
      BY <1>3, <2>2 DEF UseAnswer
    <3>2. ~ Waits(t)
      BY <2>2 DEF Waits
    <3> QED
      BY <2>1, <3>1, <3>2, Resolved, InTimeRemoved DEF ClearFiles
  <2>3. CASE <<t, "wait">> \notin answer.late /\ Matches(t)
    <3>1. ClearFiles({t}) /\ Resolve(t, "answered", esc[t].read)
      BY <1>3, <2>3 DEF UseAnswer
    <3>2. Settled(t)'
      BY <3>1, Resolved DEF Settled
    <3>3. \A u \in Tasks : esc[u].st = "done" => esc'[u].st = "done" /\ outcome'[u] = outcome[u]
      BY <2>1, <3>1, Resolved
    <3> QED
      BY <2>1, <3>1, <3>2, <3>3, InTimeRemoved DEF ClearFiles
  <2>4. CASE <<t, "wait">> \notin answer.late /\ ~ Matches(t)
    <3>1. esc' = [esc EXCEPT ![t].st = "stale"] /\ UNCHANGED <<answer, outcome, robbed>>
      BY <1>3, <2>4 DEF UseAnswer
    <3>2. \A u \in Tasks : /\ Asking(u) => Asking(u)'
                           /\ esc'[u].st \in {"empty", "giving"} => esc[u].st \in {"empty", "giving"}
                           /\ esc[u].st = "done" => esc'[u].st = "done"
      BY <1>p, <2>1, <3>1 DEF Asking, Escs
    <3> QED
      BY <2>1, <3>1, <3>2, InTimeKept
  <2> QED
    BY <2>2, <2>3, <2>4
<1>4. ASSUME NEW t \in Tasks, DropStale(t) PROVE InTimeInv'
  <2>1. RemoveAnswer({}) /\ UNCHANGED <<posted, outcome, unread>>
    BY <1>4 DEF DropStale
  <2>2. \A u \in Tasks : esc[u].st = "done" => esc'[u].st = "done"
    BY <1>4, <1>p DEF DropStale, Escs
  <2> QED
    BY <2>1, <2>2, InTimeRemoved
<1>5. ASSUME NEW t \in Tasks, GiveUp(t) PROVE InTimeInv'
  <2>1. /\ ClearFiles({t}) /\ Resolve(t, "timeout", NoTask)
        /\ UNCHANGED <<posted, unread>> /\ esc[t].st = "giving"
    BY <1>5 DEF GiveUp
  <2>2. Waits(t) => Settled(t)'
    BY <2>1, Resolved DEF Waits, Settled
  <2>3. \A u \in Tasks : esc[u].st = "done" => esc'[u].st = "done" /\ outcome'[u] = outcome[u]
    BY <2>1, Resolved
  <2> QED
    BY <2>1, <2>2, <2>3, InTimeRemoved DEF ClearFiles
<1>51. ASSUME NEW t \in Tasks, ReadNothing(t) PROVE InTimeInv'
  <2>1. UNCHANGED <<answer, outcome, posted, robbed, unread>> /\ answer = NoAnswer
    BY <1>51 DEF ReadNothing
  <2>2. \A u \in Tasks : (Asking(u) => Asking(u)') /\ (esc[u].st = "done" => esc'[u].st = "done")
    BY <1>51, <1>p DEF ReadNothing, Asking, Escs
  <2> QED
    BY <2>1, <2>2, InTimeKept
<1>52. ASSUME NEW t \in Tasks, LookAtClock(t) PROVE InTimeInv'
  <2>1. UNCHANGED <<answer, outcome, posted, robbed>> /\ esc[t].st = "empty"
    BY <1>52 DEF LookAtClock
  <2>2. CASE esc[t].wait = 0
    <3>1. UNCHANGED unread /\ esc' = [esc EXCEPT ![t].st = "giving"]
      BY <1>52, <2>2 DEF LookAtClock
    <3>2. \A u \in Tasks : /\ Asking(u) => Asking(u)'
                           /\ esc'[u].st \in {"empty", "giving"} => esc[u].st \in {"empty", "giving"}
                           /\ esc[u].st = "done" => esc'[u].st = "done"
      BY <1>p, <2>1, <3>1 DEF Asking, Escs
    <3> QED
      BY <2>1, <3>1, <3>2, InTimeKept
  <2>3. CASE esc[t].wait # 0
    <3>1. unread' = unread \ {t} /\ esc' = [esc EXCEPT ![t].st = "waiting"]
      BY <1>52, <2>3 DEF LookAtClock
    <3>2. \A u \in Tasks : esc'[u].st = IF u = t THEN "waiting" ELSE esc[u].st
      BY <1>p, <3>1 DEF Escs
    <3>3. ASSUME NEW u \in posted \ robbed PROVE Waits(u)' \/ Settled(u)'
      <4>1. u \in Tasks /\ (Waits(u) \/ Settled(u))
        BY <1>p, <3>3 DEF InTimeInv
      <4>2. CASE Waits(u)
        BY <2>1, <3>1, <3>2, <4>1, <4>2 DEF Waits, Asking
      <4>3. CASE Settled(u)
        BY <2>1, <3>1, <3>2, <4>1, <4>3 DEF Settled
      <4> QED
        BY <4>1, <4>2, <4>3
    <3> QED
      BY <2>1, <3>3 DEF InTimeInv
  <2> QED
    BY <2>2, <2>3
<1>6. ASSUME NEW t \in Tasks, WaitCanceled(t) PROVE InTimeInv'
  <2>1. ClearFiles(Tasks) /\ Resolve(t, "canceled", NoTask) /\ UNCHANGED <<posted, unread>> /\ esc[t].st = "waiting"
    BY <1>6 DEF WaitCanceled
  <2>2. Settled(t)'
    BY <2>1, Resolved DEF Settled
  <2>3. \A u \in Tasks : Waits(u) => u = t
    BY <1>n, <1>p, <2>1 DEF Owners, Asking
  <2>4. \A u \in Tasks : esc[u].st = "done" => esc'[u].st = "done" /\ outcome'[u] = outcome[u]
    BY <2>1, Resolved
  <2> QED
    BY <2>1, <2>2, <2>3, <2>4, InTimeRemoved DEF ClearFiles
<1>7. ASSUME NEW c \in Calls,
             (\E kind \in {"look", "post"} : CallReads(c, kind)) \/ LookAtAnswer(c) \/ CallChecks(c)
      PROVE  InTimeInv'
  <2>1. UNCHANGED <<esc, outcome, posted, unread>>
    BY <1>7 DEF CallReads, LookAtAnswer, CallChecks
  <2>2. UNCHANGED <<answer, robbed>> \/ RemoveAnswer({})
    BY <1>7 DEF CallReads, LookAtAnswer, CallChecks, ClearFiles
  <2>3. CASE UNCHANGED <<answer, robbed>>
    BY <2>1, <2>3 DEF InTimeInv, Waits, Settled, Asking
  <2>4. CASE RemoveAnswer({})
    BY <2>1, <2>4, InTimeRemoved
  <2> QED
    BY <2>2, <2>3, <2>4
<1>8. ASSUME NEW c \in Calls, CallWrites(c) PROVE InTimeInv'
  <2>0. PICK a \in Tasks : a = call[c].ask
    BY <1>8, Parts DEF CallWrites
  <2>1. UNCHANGED <<esc, outcome, robbed>>
    BY <1>8 DEF CallWrites
  <2>2. CASE answer # NoAnswer
    BY <1>8, <2>1, <2>2 DEF CallWrites, InTimeInv, Waits, Settled, Asking
  <2>3. CASE answer = NoAnswer
    <3>1. \A u \in posted \ robbed : Settled(u)
      BY <1>n, <1>p, <2>3 DEF InTimeInv
    <3>2. /\ answer' = [for |-> a, late |-> Missed(a)]
          /\ posted' = IF InTime(a) THEN posted \cup {a} ELSE posted
          /\ unread' = IF InTime(a) /\ esc[a].st \in {"empty", "giving"} THEN unread \cup {a} ELSE unread
      BY <1>8, <2>0, <2>3 DEF CallWrites
    <3>3. InTime(a) => <<a, "wait">> \notin Missed(a)
      BY <1>p DEF Missed, Escs, InTime
    <3>4. InTime(a) => Waits(a)'
      BY <2>1, <3>2, <3>3 DEF Waits, Asking, InTime
    <3> QED
      BY <2>1, <3>1, <3>2, <3>4 DEF InTimeInv, Settled
  <2> QED
    BY <2>2, <2>3
<1>9. CASE Halt \/ UNCHANGED hitlVars
  BY <1>9 DEF Halt, hitlVars, InTimeInv, Waits, Settled, Asking
<1>10. CASE Tick
  <2>1. UNCHANGED <<answer, outcome, posted, robbed, unread>>
    BY <1>10 DEF Tick
  <2>2. \A t \in Tasks : esc'[t].st = esc[t].st
    BY <1>10, <1>p DEF Tick, Escs
  <2> QED
    BY <2>1, <2>2, InTimeKept DEF Asking
<1> QED
  BY <1>1, <1>2, <1>3, <1>4, <1>5, <1>51, <1>52, <1>6, <1>7, <1>8, <1>9, <1>10 DEF HitlNext

\* No question ends before its escalation does.
Open == \A t \in Tasks : esc[t].st # "done" => outcome[t] = "none"

LEMMA OpenStep == HitlTypeOK /\ Open /\ [HitlNext]_hitlVars => Open'
<1> SUFFICES ASSUME HitlTypeOK, Open, [HitlNext]_hitlVars PROVE Open'
  OBVIOUS
<1>p. esc \in [Tasks -> Escs]
  BY Parts
<1>1. ASSUME NEW t \in Tasks, NEW how, NEW whose, Resolve(t, how, whose) PROVE Open'
  BY <1>1, Resolved DEF Open
<1>2. ASSUME UNCHANGED outcome, \A t \in Tasks : esc[t].st = "done" => esc'[t].st = "done" PROVE Open'
  BY <1>2 DEF Open
<1>3. ASSUME NEW t \in Tasks,
             \/ Escalate(t) \/ WriteAsk(t) \/ ReadAnswer(t) \/ DropStale(t)
             \/ TakeSlotFor(t) \/ UseAnswer(t) \/ GiveUp(t) \/ WaitCanceled(t)
             \/ ReadNothing(t) \/ LookAtClock(t)
      PROVE  Open'
  <2>1. \/ \E how, whose : Resolve(t, how, whose)
        \/ /\ UNCHANGED outcome /\ esc[t].st # "done"
           /\ \E e : esc' = [esc EXCEPT ![t] = e]
    BY <1>3 DEF Escalate, WriteAsk, ReadAnswer, DropStale, TakeSlotFor, UseAnswer, GiveUp, WaitCanceled,
         ReadNothing, LookAtClock
  <2> QED
    BY <1>1, <1>2, <1>p, <2>1
<1>4. CASE \/ \E c \in Calls : \/ \E kind \in {"look", "post"} : CallReads(c, kind)
                               \/ LookAtAnswer(c) \/ CallChecks(c) \/ CallWrites(c)
           \/ Halt \/ UNCHANGED hitlVars
  <2>1. UNCHANGED <<esc, outcome>>
    BY <1>4 DEF CallReads, LookAtAnswer, CallChecks, CallWrites, Halt, hitlVars
  <2> QED
    BY <1>2, <2>1
<1>5. CASE Tick
  <2>1. UNCHANGED outcome /\ \A t \in Tasks : esc'[t].st = esc[t].st
    BY <1>5, <1>p DEF Tick, Escs
  <2> QED
    BY <1>2, <2>1
<1> QED
  BY <1>3, <1>4, <1>5 DEF HitlNext

\* An answer taken in time is acted on, unless somebody else removed it meanwhile, or it
\* came between the waiter's last read and a deadline the waiter then found past.
THEOREM TimelyAnswersCount == HitlSpec => []AnsweredInTime
<1>1. HitlInit => HitlTypeOK /\ InTimeInv /\ Open
  BY HitlTypeInit DEF HitlInit, InTimeInv, Open
<1>2. HitlTypeOK /\ InTimeInv /\ Open /\ [HitlNext]_hitlVars => (HitlTypeOK /\ InTimeInv /\ Open)'
  BY HitlTypeStep, InTimeStep, OpenStep
<1>3. HitlTypeOK /\ InTimeInv /\ Open => AnsweredInTime
  <2> SUFFICES ASSUME HitlTypeOK, InTimeInv, Open, NEW t \in posted \ (robbed \cup unread)
               PROVE  outcome[t] # "timeout"
    BY DEF AnsweredInTime
  <2>1. t \in Tasks
    BY Parts
  <2> QED
    BY <2>1 DEF InTimeInv, Waits, Settled, Open, Asking
<1> QED
  BY <1>1, <1>2, <1>3, PTL DEF HitlSpec

-----------------------------------------------------------------------------
(* McpClient *)
\* Queues of lines: what is in one, and that no reply is in it twice.

Has(s, y) == \E i \in DOMAIN s : s[i] = y
Once(s) == \A i, j \in DOMAIN s : s[i] = s[j] /\ s[i] \in Reqs => i = j

LEMMA EmptyQueue == Once(<<>>) /\ \A y : ~ Has(<<>>, y)
  BY DEF Once, Has

LEMMA AppendHas ==
  ASSUME NEW S, NEW s \in Seq(S), NEW x \in S
  PROVE  /\ \A y : Has(Append(s, x), y) <=> Has(s, y) \/ y = x
         /\ Once(s) /\ (x \in Reqs => ~ Has(s, x)) => Once(Append(s, x))
<1>1. /\ Append(s, x) \in Seq(S) /\ Len(Append(s, x)) = Len(s) + 1
      /\ \A i \in 1 .. Len(s) : Append(s, x)[i] = s[i]
      /\ Append(s, x)[Len(s) + 1] = x
  BY AppendProperties
<1>2. DOMAIN s = 1 .. Len(s) /\ DOMAIN Append(s, x) = 1 .. Len(s) + 1 /\ Len(s) \in Nat
  BY <1>1, LenProperties
<1>3. DOMAIN Append(s, x) = DOMAIN s \cup {Len(s) + 1} /\ Len(s) + 1 \notin DOMAIN s
  BY <1>2
<1>4. \A y : Has(Append(s, x), y) <=> Has(s, y) \/ y = x
  BY <1>1, <1>2, <1>3 DEF Has
<1>5. ASSUME Once(s), x \in Reqs => ~ Has(s, x) PROVE Once(Append(s, x))
  BY <1>1, <1>2, <1>3, <1>5 DEF Has, Once
<1> QED
  BY <1>4, <1>5

LEMMA TailHas ==
  ASSUME NEW S, NEW s \in Seq(S), s # <<>>
  PROVE  /\ \A y : Has(s, y) <=> Has(Tail(s), y) \/ y = Head(s)
         /\ Once(s) => Once(Tail(s)) /\ (Head(s) \in Reqs => ~ Has(Tail(s), Head(s)))
<1>1. /\ Tail(s) \in Seq(S) /\ Len(Tail(s)) = Len(s) - 1
      /\ \A i \in 1 .. Len(Tail(s)) : Tail(s)[i] = s[i + 1]
      /\ Head(s) = s[1]
  BY HeadTailProperties
<1>2. DOMAIN s = 1 .. Len(s) /\ DOMAIN Tail(s) = 1 .. Len(s) - 1 /\ Len(s) \in Nat \ {0}
  BY <1>1, LenProperties, EmptySeq
<1>3. \A y : Has(Tail(s), y) \/ y = Head(s) => Has(s, y)
  BY <1>1, <1>2 DEF Has
<1>4. ASSUME NEW y, Has(s, y) PROVE Has(Tail(s), y) \/ y = Head(s)
  <2>1. PICK i \in 1 .. Len(s) : s[i] = y
    BY <1>2, <1>4 DEF Has
  <2>2. CASE i = 1
    BY <1>1, <2>1, <2>2
  <2>3. CASE i # 1
    <3>1. i - 1 \in 1 .. Len(Tail(s)) /\ Tail(s)[i - 1] = y
      BY <1>1, <1>2, <2>1, <2>3
    <3> QED
      BY <1>1, <1>2, <3>1 DEF Has
  <2> QED
    BY <2>2, <2>3
<1>5. ASSUME Once(s) PROVE Once(Tail(s)) /\ (Head(s) \in Reqs => ~ Has(Tail(s), Head(s)))
  <2>1. ASSUME NEW i \in 1 .. Len(s) - 1, NEW j \in 1 .. Len(s) - 1,
               Tail(s)[i] = Tail(s)[j], Tail(s)[i] \in Reqs
        PROVE  i = j
    <3>1. i + 1 \in DOMAIN s /\ j + 1 \in DOMAIN s /\ s[i + 1] = s[j + 1] /\ s[i + 1] \in Reqs
      BY <1>1, <1>2, <2>1
    <3> QED
      BY <1>5, <3>1 DEF Once
  <2>2. ASSUME Head(s) \in Reqs, NEW i \in 1 .. Len(s) - 1, Tail(s)[i] = Head(s) PROVE FALSE
    <3>1. i + 1 \in DOMAIN s /\ 1 \in DOMAIN s /\ s[i + 1] = s[1] /\ s[1] \in Reqs /\ i + 1 # 1
      BY <1>1, <1>2, <2>2
    <3> QED
      BY <1>5, <3>1 DEF Once
  <2> QED
    BY <1>2, <2>1, <2>2 DEF Once, Has
<1> QED
  BY <1>3, <1>4, <1>5

-----------------------------------------------------------------------------
(* A server that runs has room for what it prints: only its end is written  *)
(* to a full pipe.                                                          *)
PipeInv == McpTypeOK /\ (alive => Len(stdout) <= PipeCap)

LEMMA PipeInit == McpInit => PipeInv
<1> SUFFICES ASSUME McpInit PROVE PipeInv
  OBVIOUS
<1>1. Note \in Answers /\ 0 \in 0 .. MaxNotes
  BY McpCaps DEF Answers
<1>2. <<>> \in Seq(Reqs) /\ <<>> \in Seq(Lines) /\ <<>> \in Seq(Answers) /\ Len(<<>>) = 0
  BY EmptySeq
<1>3. stdin \in Seq(Reqs) /\ stdout \in Seq(Lines) /\ lines \in Seq(Answers)
  BY <1>2 DEF McpInit
<1>4. Len(stdin) = 0 /\ Len(stdout) = 0 /\ Len(lines) = 0
  BY <1>2 DEF McpInit
<1>5. Len(stdin) <= PipeCap /\ Len(stdout) <= PipeCap /\ Len(stdout) <= PipeCap + 1 /\ Len(lines) <= LinesCap
  BY <1>4, McpCaps
<1>6. rq \in [Reqs -> {"none", "queued", "writing", "waiting", "done"}] /\ reply \in [Reqs -> Answers]
  BY <1>1 DEF McpInit
<1> QED
  BY <1>1, <1>3, <1>5, <1>6 DEF McpInit, PipeInv, McpTypeOK

LEMMA Appended ==
  ASSUME NEW S, NEW s \in Seq(S), NEW x \in S
  PROVE  Append(s, x) \in Seq(S) /\ Len(Append(s, x)) = Len(s) + 1 /\ Len(s) \in Nat
  BY AppendProperties, LenProperties

LEMMA Dropped ==
  ASSUME NEW S, NEW s \in Seq(S), s # <<>>
  PROVE  Tail(s) \in Seq(S) /\ Head(s) \in S /\ Len(Tail(s)) = Len(s) - 1 /\ Len(s) \in Nat
  BY HeadTailProperties, LenProperties

LEMMA PipeStep == PipeInv /\ [McpNext]_mcpVars => PipeInv'
<1> SUFFICES ASSUME PipeInv, [McpNext]_mcpVars PROVE PipeInv'
  OBVIOUS
<1> USE DEF server, reader, PipeInv, McpTypeOK
<1>a. PipeCap \in Nat \ {0} /\ LinesCap \in Nat \ {0} /\ MaxNotes \in Nat
  BY McpCaps
<1>l. Reqs \subseteq Lines /\ Note \in Lines /\ Broken \in Lines /\ Lines = Answers \cup {Broken}
      /\ Reqs \subseteq Answers /\ Note \in Answers
  BY DEF Lines, Answers
<1>1. ASSUME NEW r \in Reqs, CallTool(r) \/ LockClient(r) PROVE PipeInv'
  <2>1. PICK st \in {"queued", "writing"} : rq' = [rq EXCEPT ![r] = st]
    BY <1>1 DEF CallTool, LockClient
  <2>2. UNCHANGED <<reply, gaveUp, server, reader, shut>>
    BY <1>1 DEF CallTool, LockClient
  <2> QED
    BY <2>1, <2>2
<1>2. ASSUME NEW r \in Reqs, WriteRequest(r) PROVE PipeInv'
  <2>1. stdin' = stdin \/ (Len(stdin) < PipeCap /\ stdin' = Append(stdin, r))
    BY <1>2 DEF WriteRequest
  <2>2. Append(stdin, r) \in Seq(Reqs) /\ Len(Append(stdin, r)) = Len(stdin) + 1 /\ Len(stdin) \in Nat
    BY Appended
  <2>3. stdin' \in Seq(Reqs) /\ Len(stdin') <= PipeCap
    <3>1. CASE stdin' = stdin
      BY <3>1
    <3>2. CASE Len(stdin) < PipeCap /\ stdin' = Append(stdin, r)
      <4>1. Len(stdin) + 1 <= PipeCap
        BY <1>a, <2>2, <3>2
      <4> QED
        BY <2>2, <3>2, <4>1
    <3> QED
      BY <2>1, <3>1, <3>2
  <2> QED
    BY <1>2, <2>3 DEF WriteRequest
<1>3. ASSUME NEW r \in Reqs, TakeLine(r) PROVE PipeInv'
  <2>1. lines' \in Seq(Answers) /\ Len(lines') <= LinesCap /\ Head(lines) \in Answers
    BY <1>3, <1>a, Dropped DEF TakeLine
  <2> QED
    BY <1>3, <2>1 DEF TakeLine
<1>4. ASSUME NEW r \in Reqs, TakeReadErr(r) \/ Abandon(r) PROVE PipeInv'
  <2>1. EndsEmpty(r) /\ readErr' \in BOOLEAN
    BY <1>4 DEF TakeReadErr, Abandon
  <2> QED
    BY <2>1 DEF EndsEmpty
<1>5. CASE PumpReads
  <2>1. stdout' \in Seq(Lines) /\ Head(stdout) \in Lines /\ Len(stdout') = Len(stdout) - 1 /\ Len(stdout) \in Nat
    BY <1>5, Dropped DEF PumpReads
  <2> QED
    BY <1>5, <1>a, <1>l, <2>1 DEF PumpReads
<1>6. CASE PumpSends
  <2>1. hand \in Answers
    BY <1>6 DEF PumpSends
  <2>2. lines' \in Seq(Answers) /\ Len(lines') <= LinesCap
    BY <1>6, <1>a, <2>1, Appended DEF PumpSends
  <2> QED
    BY <1>6, <2>2 DEF PumpSends
<1>7. CASE PumpReports \/ PumpQuits \/ CloseClient
  <2>1. CASE PumpReports
    BY <2>1 DEF PumpReports
  <2>2. CASE PumpQuits
    BY <2>2 DEF PumpQuits
  <2>3. CASE CloseClient
    BY <2>3 DEF CloseClient
  <2> QED
    BY <1>7, <2>1, <2>2, <2>3
<1>8. CASE ServerReads
  <2>1. stdin' \in Seq(Reqs) /\ Head(stdin) \in Reqs /\ Len(stdin') = Len(stdin) - 1 /\ Len(stdin) \in Nat
    BY <1>8, Dropped DEF ServerReads
  <2> QED
    BY <1>8, <1>a, <2>1 DEF ServerReads
<1>9. ASSUME NEW r \in Reqs, ServerAnswers(r) PROVE PipeInv'
  <2>1. stdout' \in Seq(Lines) /\ Len(stdout') <= PipeCap
    BY <1>9, <1>a, <1>l, Appended DEF ServerAnswers, ServerPrints
  <2> QED
    BY <1>9, <1>a, <2>1 DEF ServerAnswers
<1>10. CASE ServerLogs
  <2>1. stdout' \in Seq(Lines) /\ Len(stdout') <= PipeCap
    BY <1>10, <1>a, <1>l, Appended DEF ServerLogs, ServerPrints
  <2>2. notes' \in 0 .. MaxNotes
    BY <1>10, <1>a DEF ServerLogs
  <2> QED
    BY <1>10, <1>a, <2>1, <2>2 DEF ServerLogs
<1>11. ASSUME NEW exits \in BOOLEAN, ServerBreaks(exits) PROVE PipeInv'
  <2>1. stdout' \in Seq(Lines) /\ Len(stdout') = Len(stdout) + 1 /\ Len(stdout) \in Nat /\ Len(stdout) <= PipeCap
    BY <1>11, <1>l, Appended DEF ServerBreaks
  <2>2. alive' \in BOOLEAN /\ (alive' => Len(stdout) < PipeCap)
    BY <1>11, Zenon DEF ServerBreaks
  <2>3. Len(stdout') <= PipeCap + 1 /\ (alive' => Len(stdout') <= PipeCap)
    <3>1. Len(stdout') <= PipeCap + 1
      BY <1>a, <2>1
    <3>2. Len(stdout) < PipeCap => Len(stdout') <= PipeCap
      BY <1>a, <2>1
    <3> QED
      BY <2>2, <3>1, <3>2
  <2> QED
    BY <1>11, <2>1, <2>2, <2>3 DEF ServerBreaks
<1>12. CASE UNCHANGED mcpVars
  BY <1>12 DEF mcpVars
<1> QED
  BY <1>1, <1>2, <1>3, <1>4, <1>5, <1>6, <1>7, <1>8, <1>9, <1>10, <1>11, <1>12 DEF McpNext

(* The client and its server keep their types; the channel and the pipes   *)
(* stay within their capacities, whatever the server prints.                *)
THEOREM McpTypeCorrect == McpSpec => []McpTypeOK
<1>1. PipeInv => McpTypeOK
  BY DEF PipeInv
<1> QED
  BY <1>1, PipeInit, PipeStep, PTL DEF McpSpec

-----------------------------------------------------------------------------
(* Every request that was written has one reply at most, and that reply is  *)
(* in one place; the client's lock lets one request write and wait at a     *)
(* time.  A reply under way whose own request is over means that somebody   *)
(* gave up: the request itself, or the one whose reply it was left with.    *)

Taken(q) == \E r \in Reqs : reply[r] = q
Flight(q) == Has(stdin, q) \/ q \in owed \/ Has(stdout, q) \/ hand = q \/ Has(lines, q)
Unwritten(q) == rq[q] \in {"none", "queued", "writing"}

OnePlace(q) ==
  /\ Has(stdin, q) => q \notin owed /\ ~ Has(stdout, q) /\ hand # q /\ ~ Has(lines, q)
  /\ q \in owed => ~ Has(stdout, q) /\ hand # q /\ ~ Has(lines, q)
  /\ Has(stdout, q) => hand # q /\ ~ Has(lines, q)
  /\ hand = q => ~ Has(lines, q)
  /\ Flight(q) => ~ Taken(q)

QueuesInv == /\ Once(stdin) /\ Once(stdout) /\ Once(lines)
             /\ \A q \in Reqs : OnePlace(q) /\ (Unwritten(q) => ~ Flight(q) /\ ~ Taken(q))

LockInv == \A r, q \in Reqs : /\ rq[r] \in {"writing", "waiting"} /\ rq[q] \in {"writing", "waiting"} => r = q
                              /\ rq[r] # "done" => reply[r] = Note

ReplyInv == \A r, q \in Reqs :
  /\ reply[r] # Note /\ reply[q] = reply[r] => q = r
  /\ r # q /\ reply[r] = q => rq[q] = "done"
  /\ rq[q] = "done" /\ reply[q] # q /\ (Flight(q) \/ Taken(q)) => gaveUp # {}

MixInv == PipeInv /\ QueuesInv /\ LockInv /\ ReplyInv

LEMMA MixInit == McpInit => MixInv
<1> SUFFICES ASSUME McpInit PROVE MixInv
  OBVIOUS
<1>1. stdin = <<>> /\ stdout = <<>> /\ lines = <<>> /\ owed = {} /\ hand = Broken
      /\ \A r \in Reqs : rq[r] = "none" /\ reply[r] = Note
  BY DEF McpInit
<1>2. \A q \in Reqs : ~ Flight(q) /\ ~ Taken(q)
  BY <1>1, EmptyQueue, LinesApart DEF Flight, Taken
<1>3. QueuesInv
  BY <1>1, <1>2, EmptyQueue DEF QueuesInv, OnePlace, Flight
<1>4. LockInv /\ ReplyInv
  BY <1>1, <1>2, LinesApart DEF LockInv, ReplyInv
<1> QED
  BY <1>3, <1>4, PipeInit DEF MixInv

\* What moves no line leaves the queues as they are.
LEMMA QueuesKept ==
  ASSUME MixInv, UNCHANGED <<stdin, stdout, owed, hand, lines, reply>>,
         \A q \in Reqs : Unwritten(q)' => Unwritten(q)
  PROVE  QueuesInv' /\ \A q \in Reqs : (Flight(q) <=> Flight(q)') /\ (Taken(q) <=> Taken(q)')
<1>1. \A q \in Reqs : (Flight(q) <=> Flight(q)') /\ (Taken(q) <=> Taken(q)') /\ (OnePlace(q) <=> OnePlace(q)')
  BY DEF Flight, Taken, OnePlace
<1> QED
  BY <1>1 DEF MixInv, QueuesInv

\* A line that moves on: nothing comes into flight, and no request is concerned.
LEMMA MixMoves ==
  ASSUME MixInv, UNCHANGED <<rq, reply, gaveUp>>,
         Once(stdin'), Once(stdout'), Once(lines'),
         \A q \in Reqs : OnePlace(q)' /\ (Flight(q)' => Flight(q))
  PROVE  QueuesInv' /\ LockInv' /\ ReplyInv'
<1>1. \A q \in Reqs : (Taken(q)' <=> Taken(q)) /\ (Unwritten(q)' <=> Unwritten(q))
  BY DEF Taken, Unwritten
<1>2. QueuesInv'
  BY <1>1 DEF MixInv, QueuesInv
<1>3. LockInv' /\ ReplyInv'
  BY <1>1 DEF MixInv, LockInv, ReplyInv
<1> QED
  BY <1>2, <1>3

LEMMA MixStep == MixInv /\ [McpNext]_mcpVars => MixInv'
<1> SUFFICES ASSUME MixInv, [McpNext]_mcpVars PROVE MixInv'
  OBVIOUS
<1>p. PipeInv /\ PipeInv'
  BY PipeStep DEF MixInv
<1>t. /\ rq \in [Reqs -> {"none", "queued", "writing", "waiting", "done"}]
      /\ reply \in [Reqs -> Answers] /\ gaveUp \subseteq Reqs /\ stdin \in Seq(Reqs) /\ stdout \in Seq(Lines)
      /\ hand \in Answers \cup {Broken} /\ lines \in Seq(Answers) /\ owed \subseteq Reqs
  BY <1>p DEF PipeInv, McpTypeOK
<1>l. Note \notin Reqs /\ Broken \notin Reqs /\ Note # Broken /\ Lines = Reqs \cup {Note, Broken}
      /\ Answers = Reqs \cup {Note}
  BY LinesApart DEF Lines, Answers
<1> USE DEF server, reader
<1>1. ASSUME NEW r \in Reqs, CallTool(r) PROVE QueuesInv' /\ LockInv' /\ ReplyInv'
  <2>1. UNCHANGED <<stdin, stdout, owed, hand, lines, reply, gaveUp>> /\ rq' = [rq EXCEPT ![r] = "queued"]
        /\ rq[r] = "none"
    BY <1>1 DEF CallTool
  <2>2. \A q \in Reqs : Unwritten(q)' => Unwritten(q)
    BY <1>t, <2>1 DEF Unwritten
  <2>3. QueuesInv' /\ \A q \in Reqs : (Flight(q) <=> Flight(q)') /\ (Taken(q) <=> Taken(q)')
    BY <2>1, <2>2, QueuesKept
  <2> QED
    BY <1>t, <2>1, <2>3 DEF MixInv, LockInv, ReplyInv
<1>2. ASSUME NEW r \in Reqs, LockClient(r) PROVE QueuesInv' /\ LockInv' /\ ReplyInv'
  <2>1. UNCHANGED <<stdin, stdout, owed, hand, lines, reply, gaveUp>> /\ rq' = [rq EXCEPT ![r] = "writing"]
        /\ rq[r] = "queued" /\ \A q \in Reqs : rq[q] \notin {"writing", "waiting"}
    BY <1>2 DEF LockClient, Locked
  <2>2. \A q \in Reqs : Unwritten(q)' => Unwritten(q)
    BY <1>t, <2>1 DEF Unwritten
  <2>3. QueuesInv' /\ \A q \in Reqs : (Flight(q) <=> Flight(q)') /\ (Taken(q) <=> Taken(q)')
    BY <2>1, <2>2, QueuesKept
  <2> QED
    BY <1>t, <2>1, <2>3 DEF MixInv, LockInv, ReplyInv
<1>3. ASSUME NEW r \in Reqs, WriteRequest(r) PROVE QueuesInv' /\ LockInv' /\ ReplyInv'
  <2>r. rq[r] = "writing" /\ ~ Flight(r) /\ ~ Taken(r) /\ UNCHANGED <<stdout, owed, hand, lines, reply, gaveUp>>
    BY <1>3 DEF WriteRequest, MixInv, QueuesInv, Unwritten
  <2>1. CASE rq' = [rq EXCEPT ![r] = "done"] /\ UNCHANGED stdin
    <3>1. \A q \in Reqs : Unwritten(q)' => Unwritten(q)
      BY <1>t, <2>1 DEF Unwritten
    <3>2. QueuesInv' /\ \A q \in Reqs : (Flight(q) <=> Flight(q)') /\ (Taken(q) <=> Taken(q)')
      BY <2>r, <2>1, <3>1, QueuesKept
    <3> QED
      BY <1>t, <2>r, <2>1, <3>2 DEF MixInv, LockInv, ReplyInv
  <2>2. CASE rq' = [rq EXCEPT ![r] = "waiting"] /\ stdin' = Append(stdin, r)
    <3>1. Once(stdin') /\ \A q : Has(stdin', q) <=> Has(stdin, q) \/ q = r
      BY <1>t, <2>r, <2>2, AppendHas DEF Flight, MixInv, QueuesInv
    <3>2. \A q \in Reqs : Taken(q)' <=> Taken(q)
      BY <2>r DEF Taken
    <3>3. \A q \in Reqs : Flight(q)' <=> Flight(q) \/ q = r
      BY <2>r, <3>1 DEF Flight
    <3>4. \A q \in Reqs : OnePlace(q)'
      BY <2>r, <3>1, <3>2, <3>3 DEF MixInv, QueuesInv, OnePlace, Flight
    <3>5. \A q \in Reqs : Unwritten(q)' => Unwritten(q) /\ q # r
      BY <1>t, <2>2 DEF Unwritten
    <3>6. QueuesInv'
      BY <2>r, <3>1, <3>2, <3>3, <3>4, <3>5 DEF MixInv, QueuesInv
    <3> QED
      BY <1>t, <2>r, <2>2, <3>2, <3>3, <3>6 DEF MixInv, LockInv, ReplyInv
  <2> QED
    BY <1>3, <2>1, <2>2 DEF WriteRequest
<1>4. ASSUME NEW r \in Reqs, TakeLine(r) PROVE QueuesInv' /\ LockInv' /\ ReplyInv'
  <2> DEFINE x == Head(lines)
  <2>1. rq[r] = "waiting" /\ lines # <<>> /\ lines' = Tail(lines)
        /\ UNCHANGED <<stdin, stdout, owed, hand, gaveUp>>
    BY <1>4 DEF TakeLine
  <2>2. /\ \A q : Has(lines, q) <=> Has(lines', q) \/ q = x
        /\ Once(lines') /\ (x \in Reqs => ~ Has(lines', x)) /\ x \in Answers
    BY <1>t, <2>1, TailHas, Dropped DEF MixInv, QueuesInv
  <2>3. CASE x = Note /\ UNCHANGED <<rq, reply>>
    <3>1. \A q \in Reqs : (Flight(q)' <=> Flight(q)) /\ (Taken(q)' <=> Taken(q))
      BY <1>l, <2>1, <2>2, <2>3 DEF Flight, Taken
    <3>2. \A q \in Reqs : OnePlace(q)'
      BY <1>l, <2>1, <2>2, <2>3, <3>1 DEF MixInv, QueuesInv, OnePlace
    <3>3. Once(stdin') /\ Once(stdout') /\ Once(lines')
      BY <2>1, <2>2 DEF MixInv, QueuesInv
    <3> QED
      BY <2>1, <2>3, <3>1, <3>2, <3>3, MixMoves
  <2>4. CASE x # Note /\ rq' = [rq EXCEPT ![r] = "done"] /\ reply' = [reply EXCEPT ![r] = x]
    <3>1. x \in Reqs /\ Flight(x) /\ ~ Taken(x) /\ reply[r] = Note
      BY <1>l, <2>1, <2>2, <2>4 DEF MixInv, QueuesInv, OnePlace, LockInv, Flight
    <3>2. \A q \in Reqs : Taken(q)' <=> Taken(q) \/ q = x
      BY <1>t, <1>l, <2>4, <3>1 DEF Taken
    <3>3. \A q \in Reqs : Flight(q)' <=> Flight(q) /\ q # x
      BY <2>1, <2>2, <3>1 DEF Flight, MixInv, QueuesInv, OnePlace
    <3>4. \A q \in Reqs : OnePlace(q)'
      BY <2>1, <2>2, <3>1, <3>2, <3>3 DEF MixInv, QueuesInv, OnePlace
    <3>5. \A q \in Reqs : Unwritten(q)' => Unwritten(q)
      BY <1>t, <2>1, <2>4 DEF Unwritten
    <3>6. QueuesInv'
      BY <2>1, <2>2, <3>1, <3>2, <3>3, <3>4, <3>5 DEF MixInv, QueuesInv
    <3>7. LockInv'
      BY <1>t, <2>1, <2>4 DEF MixInv, LockInv
    <3>8. x # r => rq[x] = "done" /\ gaveUp # {}
      <4> SUFFICES ASSUME x # r PROVE rq[x] = "done" /\ gaveUp # {}
        OBVIOUS
      <4>1. ~ Unwritten(x)
        BY <3>1 DEF MixInv, QueuesInv
      <4>2. rq[x] # "waiting"
        BY <2>1, <3>1 DEF MixInv, LockInv
      <4>3. rq[x] = "done"
        BY <1>t, <3>1, <4>1, <4>2 DEF Unwritten
      <4>4. reply[x] # x
        BY <3>1 DEF Taken
      <4> QED
        BY <3>1, <4>3, <4>4 DEF MixInv, ReplyInv
    <3>9. ReplyInv'
      <4> SUFFICES ASSUME NEW u \in Reqs, NEW q \in Reqs
                   PROVE  /\ reply'[u] # Note /\ reply'[q] = reply'[u] => q = u
                          /\ u # q /\ reply'[u] = q => rq'[q] = "done"
                          /\ rq'[q] = "done" /\ reply'[q] # q /\ (Flight(q) \/ Taken(q))' => gaveUp # {}
        BY <2>1 DEF ReplyInv
      <4>1. reply'[u] = (IF u = r THEN x ELSE reply[u]) /\ reply'[q] = (IF q = r THEN x ELSE reply[q])
            /\ rq'[q] = (IF q = r THEN "done" ELSE rq[q])
        BY <1>t, <2>4
      <4>2. reply[u] # x /\ reply[q] # x
        BY <3>1 DEF Taken
      <4>3. reply'[u] # Note /\ reply'[q] = reply'[u] => q = u
        BY <4>1, <4>2 DEF MixInv, ReplyInv
      <4>4. u # q /\ reply'[u] = q => rq'[q] = "done"
        BY <3>8, <4>1 DEF MixInv, ReplyInv
      <4>5. rq'[q] = "done" /\ reply'[q] # q /\ (Flight(q) \/ Taken(q))' => gaveUp # {}
        <5>1. CASE q = r
          BY <3>8, <4>1, <5>1
        <5>2. CASE q # r
          BY <3>1, <3>2, <3>3, <4>1, <5>2 DEF MixInv, ReplyInv
        <5> QED
          BY <5>1, <5>2
      <4> QED
        BY <4>3, <4>4, <4>5
    <3> QED
      BY <3>6, <3>7, <3>9
  <2> QED
    BY <1>4, <2>3, <2>4 DEF TakeLine
<1>5. ASSUME NEW r \in Reqs, TakeReadErr(r) \/ Abandon(r) PROVE QueuesInv' /\ LockInv' /\ ReplyInv'
  <2>1. rq[r] = "waiting" /\ rq' = [rq EXCEPT ![r] = "done"] /\ gaveUp' = gaveUp \cup {r}
        /\ UNCHANGED <<stdin, stdout, owed, hand, lines, reply>>
    BY <1>5 DEF TakeReadErr, Abandon, EndsEmpty
  <2>2. \A q \in Reqs : Unwritten(q)' => Unwritten(q)
    BY <1>t, <2>1 DEF Unwritten
  <2>3. QueuesInv' /\ \A q \in Reqs : (Flight(q) <=> Flight(q)') /\ (Taken(q) <=> Taken(q)')
    BY <2>1, <2>2, QueuesKept
  <2> QED
    BY <1>t, <2>1, <2>3 DEF MixInv, LockInv, ReplyInv
<1>6. ASSUME PumpReads PROVE QueuesInv' /\ LockInv' /\ ReplyInv'
  <2>1. UNCHANGED <<rq, reply, gaveUp, stdin, owed, lines>>
    BY <1>6 DEF PumpReads
  <2>2. /\ hand = Broken /\ hand' = Head(stdout) /\ Once(stdout')
        /\ \A q : Has(stdout, q) <=> Has(stdout', q) \/ q = hand'
        /\ hand' \in Reqs => ~ Has(stdout', hand')
    BY <1>6, <1>t, <1>l, TailHas DEF PumpReads, MixInv, QueuesInv
  <2>3. \A q \in Reqs : (Flight(q)' => Flight(q)) /\ (Taken(q)' <=> Taken(q))
    BY <1>l, <2>1, <2>2 DEF Flight, Taken
  <2>4. \A q \in Reqs : OnePlace(q)'
    BY <1>l, <2>1, <2>2, <2>3 DEF MixInv, QueuesInv, OnePlace
  <2>5. Once(stdin') /\ Once(stdout') /\ Once(lines')
    BY <2>1, <2>2 DEF MixInv, QueuesInv
  <2> QED
    BY <2>1, <2>3, <2>4, <2>5, MixMoves
<1>7. ASSUME PumpSends PROVE QueuesInv' /\ LockInv' /\ ReplyInv'
  <2>1. UNCHANGED <<rq, reply, gaveUp, stdin, stdout, owed>>
    BY <1>7 DEF PumpSends, OnePlace
  <2>2. /\ hand' = Broken /\ hand # Broken /\ Once(lines')
        /\ \A q : Has(lines', q) <=> Has(lines, q) \/ q = hand
    BY <1>7, <1>t, <1>l, AppendHas DEF PumpSends, OnePlace, MixInv, QueuesInv
  <2>3. \A q \in Reqs : (Flight(q)' => Flight(q)) /\ (Taken(q)' <=> Taken(q))
    BY <1>l, <2>1, <2>2 DEF Flight, Taken
  <2>4. \A q \in Reqs : OnePlace(q)'
    BY <1>l, <2>1, <2>2, <2>3 DEF MixInv, QueuesInv, OnePlace
  <2>5. Once(stdin') /\ Once(stdout') /\ Once(lines')
    BY <2>1, <2>2 DEF MixInv, QueuesInv
  <2> QED
    BY <2>1, <2>3, <2>4, <2>5, MixMoves
<1>8. ASSUME PumpQuits PROVE QueuesInv' /\ LockInv' /\ ReplyInv'
  <2>1. UNCHANGED <<rq, reply, gaveUp, stdin, stdout, owed, lines>>
    BY <1>8 DEF PumpQuits
  <2>2. hand' = Broken
    BY <1>8, <1>t, <1>l, LinesApart DEF PumpQuits, MixInv, QueuesInv
  <2>3. \A q \in Reqs : (Flight(q)' => Flight(q)) /\ (Taken(q)' <=> Taken(q))
    BY <1>l, <2>1, <2>2 DEF Flight, Taken
  <2>4. \A q \in Reqs : OnePlace(q)'
    BY <1>l, <2>1, <2>2, <2>3 DEF MixInv, QueuesInv, OnePlace
  <2>5. Once(stdin') /\ Once(stdout') /\ Once(lines')
    BY <2>1, <2>2 DEF MixInv, QueuesInv
  <2> QED
    BY <2>1, <2>3, <2>4, <2>5, MixMoves
<1>9. ASSUME PumpReports \/ CloseClient PROVE QueuesInv' /\ LockInv' /\ ReplyInv'
  <2>1. UNCHANGED <<rq, reply, gaveUp, stdin, stdout, owed, hand, lines>>
    BY <1>9 DEF PumpReports, CloseClient
  <2>2. \A q \in Reqs : (Flight(q)' <=> Flight(q)) /\ (OnePlace(q)' <=> OnePlace(q))
    BY <2>1 DEF Flight, OnePlace, Taken
  <2> QED
    BY <2>1, <2>2, MixMoves DEF MixInv, QueuesInv
<1>10. ASSUME ServerReads PROVE QueuesInv' /\ LockInv' /\ ReplyInv'
  <2>1. UNCHANGED <<rq, reply, gaveUp, stdout, hand, lines>>
    BY <1>10 DEF ServerReads
  <2>2. /\ owed' = owed \cup {Head(stdin)} /\ Once(stdin')
        /\ \A q : Has(stdin, q) <=> Has(stdin', q) \/ q = Head(stdin)
        /\ Head(stdin) \in Reqs /\ ~ Has(stdin', Head(stdin))
    BY <1>10, <1>t, <1>l, TailHas, Dropped DEF ServerReads, MixInv, QueuesInv
  <2>3. \A q \in Reqs : (Flight(q)' => Flight(q)) /\ (Taken(q)' <=> Taken(q))
    BY <1>l, <2>1, <2>2 DEF Flight, Taken
  <2>4. \A q \in Reqs : OnePlace(q)'
    BY <1>l, <2>1, <2>2, <2>3 DEF MixInv, QueuesInv, OnePlace
  <2>5. Once(stdin') /\ Once(stdout') /\ Once(lines')
    BY <2>1, <2>2 DEF MixInv, QueuesInv
  <2> QED
    BY <2>1, <2>3, <2>4, <2>5, MixMoves
<1>11. ASSUME NEW r \in Reqs, ServerAnswers(r) PROVE QueuesInv' /\ LockInv' /\ ReplyInv'
  <2>1. UNCHANGED <<rq, reply, gaveUp, stdin, hand, lines>>
    BY <1>11 DEF ServerAnswers, ServerPrints, OnePlace
  <2>2. /\ r \in owed /\ owed' = owed \ {r} /\ Once(stdout')
        /\ \A q : Has(stdout', q) <=> Has(stdout, q) \/ q = r
    BY <1>11, <1>t, <1>l, AppendHas DEF ServerAnswers, ServerPrints, OnePlace, MixInv, QueuesInv
  <2>3. \A q \in Reqs : (Flight(q)' => Flight(q)) /\ (Taken(q)' <=> Taken(q))
    BY <1>l, <2>1, <2>2 DEF Flight, Taken
  <2>4. \A q \in Reqs : OnePlace(q)'
    BY <1>l, <2>1, <2>2, <2>3 DEF MixInv, QueuesInv, OnePlace
  <2>5. Once(stdin') /\ Once(stdout') /\ Once(lines')
    BY <2>1, <2>2 DEF MixInv, QueuesInv
  <2> QED
    BY <2>1, <2>3, <2>4, <2>5, MixMoves
<1>12. ASSUME ServerLogs \/ (\E exits \in BOOLEAN : ServerBreaks(exits)) PROVE QueuesInv' /\ LockInv' /\ ReplyInv'
  <2>1. UNCHANGED <<rq, reply, gaveUp, stdin, owed, hand, lines>>
    BY <1>12 DEF ServerLogs, ServerBreaks, ServerPrints
  <2>2. Once(stdout') /\ \A q \in Reqs : Has(stdout', q) <=> Has(stdout, q)
    <3>1. PICK x \in {Note, Broken} : stdout' = Append(stdout, x)
      BY <1>12 DEF ServerLogs, ServerBreaks, ServerPrints
    <3>2. x \in Lines /\ x \notin Reqs /\ Once(stdout)
      BY <1>l DEF MixInv, QueuesInv
    <3> QED
      BY <1>t, <3>1, <3>2, AppendHas
  <2>3. \A q \in Reqs : (Flight(q)' => Flight(q)) /\ (Taken(q)' <=> Taken(q))
    BY <1>l, <2>1, <2>2 DEF Flight, Taken
  <2>4. \A q \in Reqs : OnePlace(q)'
    BY <1>l, <2>1, <2>2, <2>3 DEF MixInv, QueuesInv, OnePlace
  <2>5. Once(stdin') /\ Once(stdout') /\ Once(lines')
    BY <2>1, <2>2 DEF MixInv, QueuesInv
  <2> QED
    BY <2>1, <2>3, <2>4, <2>5, MixMoves
<1>13. ASSUME UNCHANGED mcpVars PROVE QueuesInv' /\ LockInv' /\ ReplyInv'
  <2>1. UNCHANGED <<rq, reply, gaveUp, stdin, stdout, owed, hand, lines>>
    BY <1>13 DEF mcpVars
  <2>2. \A q \in Reqs : (Flight(q)' <=> Flight(q)) /\ (OnePlace(q)' <=> OnePlace(q))
    BY <2>1 DEF Flight, OnePlace, Taken
  <2> QED
    BY <2>1, <2>2, MixMoves DEF MixInv, QueuesInv
<1> QED
  BY <1>p, <1>1, <1>2, <1>3, <1>4, <1>5, <1>6, <1>7, <1>8, <1>9, <1>10, <1>11, <1>12, <1>13
  DEF McpNext, MixInv

(* A reply goes to one request at most, and a request ends with the reply   *)
(* of another one only after some request was given up: for as long as none *)
(* is, the client's order under its lock matches replies to requests.       *)
THEOREM RepliesMixOnlyAfterGivingUp == McpSpec => []MixedOnlyAfterGivingUp
<1>1. MixInv => MixedOnlyAfterGivingUp
  <2> SUFFICES ASSUME MixInv, NEW r \in Reqs, NEW q \in Reqs, r # q, reply[r] = q
               PROVE  rq[q] = "done" /\ reply[q] # q /\ gaveUp # {}
    BY DEF MixedOnlyAfterGivingUp
  <2>1. rq[q] = "done" /\ reply[q] # q
    BY LinesApart DEF MixInv, ReplyInv
  <2>2. Taken(q)
    BY DEF Taken
  <2> QED
    BY <2>1, <2>2 DEF MixInv, ReplyInv
<1> QED
  BY <1>1, MixInit, MixStep, PTL DEF McpSpec
=============================================================================

-------------------------- MODULE Studio_proofs --------------------------
(***************************************************************************)
(* Proofs about Studio's server side.  ServerRun: for any number of runs,  *)
(* any options to start them with and any a user may save.  EventStream:   *)
(* for any number of emits, connections and events, sizes of the ring and  *)
(* the channels and choice of the token deltas, while the server is not    *)
(* started again (StreamRestart is the run that shows what a restart does).*)
(***************************************************************************)
EXTENDS EventStream, ServerRun, SequenceTheorems, FiniteSetTheorems, TLAPS

\* The slot: what holds it is the newest run, and a run that is to come kept nothing.
SlotInv ==
  /\ OneRunAtATime
  /\ \A r \in Runs : r > gen => run[r] = "none" /\ saved[r] = <<>>

LEMMA OptionsHold == ASSUME RunTypeOK, NEW r \in Runs PROVE Kept(r) \in Options
<1>1. saved[r] = <<>> \/ \E o \in Options : saved[r] = <<o>>
  BY DEF RunTypeOK
<1>2. CASE saved[r] = <<>>
  BY <1>2 DEF Kept, RunTypeOK
<1>3. ASSUME NEW o \in Options, saved[r] = <<o>> PROVE Kept(r) \in Options
  BY <1>3 DEF Kept
<1> QED
  BY <1>1, <1>2, <1>3

\* One more event of the log: the log keeps its type, and the view stays inside it.
LEMMA LogGrows ==
  ASSUME RunTypeOK, NEW k \in {"run_start", "run_end", "run_stop"}, NEW r \in 0 .. MaxRuns
  PROVE  LET more == Append(log, <<k, r>>)
         IN /\ more \in Seq({"run_start", "run_end", "run_stop"} \X (0 .. MaxRuns))
            /\ since \in 0 .. Len(more) + 1
<1>1. Len(log) \in Nat /\ Len(Append(log, <<k, r>>)) = Len(log) + 1
  BY DEF RunTypeOK
<1> QED
  BY <1>1 DEF RunTypeOK

LEMMA RunTypeInit == RunInit => RunTypeOK
<1> SUFFICES ASSUME RunInit PROVE RunTypeOK
  OBVIOUS
<1>1. Len(log) = 0 /\ log \in Seq({"run_start", "run_end", "run_stop"} \X (0 .. MaxRuns))
  BY DEF RunInit
<1>2. Base \in Options /\ "none" \in Stages
  BY DEF Options, Stages
<1>3. saved \in [Runs -> {<<>>} \cup {<<o>> : o \in Options}]
  BY DEF RunInit
<1>4. run \in [Runs -> Stages] /\ canceled \subseteq Runs
  BY <1>2 DEF RunInit
<1>5. gen \in 0 .. MaxRuns /\ since \in 0 .. Len(log) + 1
  BY <1>1, MaxRunsNat DEF RunInit
<1> QED
  BY <1>1, <1>2, <1>3, <1>4, <1>5 DEF RunInit, RunTypeOK

LEMMA RunTypeStep == RunTypeOK /\ SlotInv /\ [RunNext]_runVars => RunTypeOK'
<1> SUFFICES ASSUME RunTypeOK, SlotInv, [RunNext]_runVars PROVE RunTypeOK'
  OBVIOUS
<1> USE MaxRunsNat
<1>1. ASSUME NEW resume \in BOOLEAN, Begin(resume) PROVE RunTypeOK'
  <2>1. gen + 1 \in Runs /\ gen' \in 0 .. MaxRuns
    BY <1>1 DEF Begin, RunTypeOK, Runs
  <2>2. Len(log) \in Nat /\ since' \in 0 .. Len(log') + 1
    BY <1>1 DEF Begin, RunTypeOK, ViewFrom
  <2>3. run' \in [Runs -> Stages]
    BY <1>1, <2>1 DEF Begin, RunTypeOK, Stages
  <2> QED
    BY <1>1, <2>1, <2>2, <2>3 DEF Begin, RunTypeOK, optionVars
<1>2. ASSUME NEW r \in Runs, NEW over \in Overs \cup {NoOver}, Apply(r, over) PROVE RunTypeOK'
  <2>1. cfg' \in Options /\ cfg \in Options
    BY <1>2 DEF Apply, RunTypeOK, Options
  <2>2. \A s \in Runs : saved'[s] \in {<<>>} \cup {<<o>> : o \in Options}
    BY <1>2, <2>1 DEF Apply, RunTypeOK
  <2>3. run' \in [Runs -> Stages]
    BY <1>2 DEF Apply, RunTypeOK, Stages
  <2> QED
    BY <1>2, <2>1, <2>2, <2>3 DEF Apply, RunTypeOK, slotVars
<1>3. ASSUME NEW r \in Runs, Launch(r) PROVE RunTypeOK'
  <2>1. run' \in [Runs -> Stages]
    BY <1>3 DEF Launch, RunTypeOK, Stages
  <2> QED
    BY <1>3, <2>1, LogGrows DEF Launch, RunTypeOK, slotVars, optionVars, Runs
<1>4. ASSUME NEW r \in Runs, Release(r) PROVE RunTypeOK'
  <2>1. run' \in [Runs -> Stages]
    BY <1>4 DEF Release, RunTypeOK, Stages
  <2> QED
    BY <1>4, <2>1 DEF Release, RunTypeOK, optionVars
<1>5. ASSUME NEW r \in Runs, Restore(r) PROVE RunTypeOK'
  <2>1. run' \in [Runs -> Stages]
    BY <1>5 DEF Restore, RunTypeOK, Stages
  <2> QED
    BY <1>5, <2>1, OptionsHold DEF Restore, RunTypeOK, slotVars
<1>6. ASSUME NEW r \in Runs, End(r) PROVE RunTypeOK'
  <2>1. run' \in [Runs -> Stages]
    BY <1>6 DEF End, RunTypeOK, Stages
  <2> QED
    BY <1>6, <2>1, LogGrows DEF End, RunTypeOK, slotVars, optionVars, Runs
<1>7. CASE StopEngine
  BY <1>7 DEF StopEngine, RunTypeOK, optionVars
<1>8. CASE StopMark
  <2>1. running => gen \in Runs
    BY DEF SlotInv, OneRunAtATime, Holding
  <2> QED
    BY <1>8, <2>1 DEF StopMark, RunTypeOK, optionVars, Runs
<1>9. CASE StopEvent
  BY <1>9, LogGrows DEF StopEvent, RunTypeOK, slotVars, optionVars
<1>10. CASE PutCheck
  BY <1>10 DEF PutCheck, RunTypeOK, slotVars, optionVars
<1>11. CASE PutOther
  BY <1>11 DEF PutOther, RunTypeOK, slotVars
<1>12. ASSUME NEW v \in Puts, PutWrite(v) PROVE RunTypeOK'
  BY <1>12 DEF PutWrite, RunTypeOK, slotVars, Options
<1>13. CASE UNCHANGED runVars
  BY <1>13 DEF runVars, slotVars, optionVars, RunTypeOK
<1> QED
  BY <1>1, <1>2, <1>3, <1>4, <1>5, <1>6, <1>7, <1>8, <1>9, <1>10, <1>11, <1>12, <1>13 DEF RunNext

LEMMA SlotInit == RunInit => SlotInv
  BY DEF RunInit, SlotInv, OneRunAtATime, Holding

LEMMA SlotStep == RunTypeOK /\ SlotInv /\ [RunNext]_runVars => SlotInv'
<1> SUFFICES ASSUME RunTypeOK, SlotInv, [RunNext]_runVars PROVE SlotInv'
  OBVIOUS
<1> USE DEF SlotInv, OneRunAtATime, Holding
<1>1. ASSUME NEW resume \in BOOLEAN, Begin(resume) PROVE SlotInv'
  <2>1. gen \in Nat /\ gen + 1 \in Runs
    BY <1>1, MaxRunsNat DEF Begin, RunTypeOK, Runs
  <2>2. Holding = {} /\ Holding' = {gen + 1}
    BY <1>1, <2>1 DEF Begin, Taken, RunTypeOK
  <2>3. \A r \in Runs : r > gen' => run'[r] = "none" /\ saved'[r] = <<>>
    BY <1>1, <2>1 DEF Begin, RunTypeOK, Runs
  <2> QED
    BY <1>1, <2>2, <2>3 DEF Begin
<1>2. ASSUME NEW r \in Runs, NEW over \in Overs \cup {NoOver}, Apply(r, over) PROVE SlotInv'
  <2>1. Holding' = Holding /\ r \in Holding
    BY <1>2 DEF Apply, RunTypeOK
  <2> QED
    BY <1>2, <2>1, MaxRunsNat DEF Apply, slotVars, RunTypeOK, Runs
<1>3. ASSUME NEW r \in Runs, Launch(r) PROVE SlotInv'
  <2>1. Holding' = Holding /\ r \in Holding
    BY <1>3 DEF Launch, RunTypeOK
  <2> QED
    BY <1>3, <2>1, MaxRunsNat DEF Launch, slotVars, RunTypeOK, Runs
<1>4. ASSUME NEW r \in Runs, Release(r) PROVE SlotInv'
  <2>1. r = gen /\ Holding = {r} /\ Holding' = {}
    BY <1>4 DEF Release, RunTypeOK
  <2> QED
    BY <1>4, <2>1, MaxRunsNat DEF Release, RunTypeOK, Runs
<1>5. ASSUME NEW r \in Runs, Restore(r) PROVE SlotInv'
  <2>1. Holding' = Holding
    BY <1>5 DEF Restore, RunTypeOK
  <2> QED
    BY <1>5, <2>1 DEF Restore, slotVars, RunTypeOK
<1>6. ASSUME NEW r \in Runs, End(r) PROVE SlotInv'
  <2>1. Holding' = Holding
    BY <1>6 DEF End, RunTypeOK
  <2> QED
    BY <1>6, <2>1 DEF End, slotVars, RunTypeOK
<1>7. CASE StopEngine \/ StopMark \/ StopEvent
  BY <1>7 DEF StopEngine, StopMark, StopEvent, slotVars
<1>8. CASE PutCheck \/ PutOther \/ \E v \in Puts : PutWrite(v)
  BY <1>8 DEF PutCheck, PutOther, PutWrite, slotVars
<1>9. CASE UNCHANGED runVars
  BY <1>9 DEF runVars, slotVars
<1> QED
  BY <1>1, <1>2, <1>3, <1>4, <1>5, <1>6, <1>7, <1>8, <1>9 DEF RunNext

\* The two facts together are inductive: that a stop marks a run needs a run in the slot.
LEMMA SlotAlways == RunSpec => [](RunTypeOK /\ SlotInv)
<1>1. RunInit => RunTypeOK /\ SlotInv
  BY RunTypeInit, SlotInit
<1>2. RunTypeOK /\ SlotInv /\ [RunNext]_runVars => (RunTypeOK /\ SlotInv)'
  BY RunTypeStep, SlotStep
<1> QED
  BY <1>1, <1>2, PTL DEF RunSpec

\* Every variable of the run slot keeps its type, for any number of runs.
THEOREM RunTypeCorrect == RunSpec => []RunTypeOK
  BY SlotAlways, PTL

\* server.go:79-84: at most one run holds the slot, it is the current generation, and
\* running says so: a second run cannot begin while one unwinds after a stop.
THEOREM OneRunHoldsTheSlot == RunSpec => []OneRunAtATime
<1>1. SlotInv => OneRunAtATime
  BY DEF SlotInv
<1> QED
  BY <1>1, SlotAlways, PTL

-----------------------------------------------------------------------------
(***************************************************************************)
(* The options.  While no call falls into another's gap there is one run   *)
(* with something to do; it keeps the user's choice for as long as the     *)
(* shared config holds its own, and no save is under way meanwhile.        *)
(***************************************************************************)
KeepsTheChoice(r) ==
  /\ run[r] \in {"begun", "restored"} => cfg = user
  /\ run[r] = "begun" => saved[r] = <<>>
  /\ run[r] \in {"applied", "started", "released"} =>
       saved[r] = <<user>> \/ (saved[r] = <<>> /\ cfg = user)

OptionsInv ==
  ~ overlap =>
    /\ disk = user
    /\ Unfinished = {} => cfg = user
    /\ put = "checked" => Unfinished = {}
    /\ \A r, s \in Unfinished : r = s
    /\ \A r \in Unfinished : KeepsTheChoice(r)

LEMMA OptionsInit == RunInit => OptionsInv
  BY DEF RunInit, OptionsInv, Unfinished

LEMMA OptionsStep ==
  RunTypeOK /\ SlotInv /\ OptionsInv /\ [RunNext]_runVars => OptionsInv'
<1> SUFFICES ASSUME RunTypeOK, SlotInv, OptionsInv, [RunNext]_runVars, ~ overlap' PROVE OptionsInv'
  BY DEF OptionsInv
<1>0. ~ overlap
  BY DEF RunNext, Begin, Apply, Launch, Release, Restore, End, StopEngine, StopMark, StopEvent,
         PutCheck, PutOther, PutWrite, runVars
<1> USE DEF Unfinished, KeepsTheChoice
<1>1. ASSUME NEW resume \in BOOLEAN, Begin(resume) PROVE OptionsInv'
  <2>1. gen + 1 \in Runs /\ gen + 1 > gen
    BY <1>1, MaxRunsNat DEF Begin, RunTypeOK, Runs
  <2>2. Unfinished = {} /\ put # "checked" /\ saved[gen + 1] = <<>>
    BY <1>1, <2>1 DEF Begin, SlotInv
  <2>3. Unfinished' = {gen + 1}
    BY <1>1, <2>1, <2>2 DEF Begin, RunTypeOK
  <2>4. cfg' = user' /\ disk' = user' /\ saved'[gen + 1] = <<>>
    BY <1>0, <1>1, <2>2 DEF Begin, optionVars, OptionsInv
  <2> QED
    BY <1>1, <2>2, <2>3, <2>4 DEF OptionsInv, Begin
<1>2. ASSUME NEW r \in Runs, NEW over \in Overs \cup {NoOver}, Apply(r, over) PROVE OptionsInv'
  <2>1. r \in Unfinished /\ Unfinished' = Unfinished /\ cfg = user
    BY <1>0, <1>2 DEF Apply, RunTypeOK, OptionsInv
  <2>2. saved'[r] = <<user>> /\ run'[r] = "applied"
    BY <1>2, <2>1 DEF Apply, RunTypeOK
  <2> QED
    BY <1>0, <1>2, <2>1, <2>2 DEF Apply, OptionsInv
<1>3. ASSUME NEW r \in Runs, Launch(r) PROVE OptionsInv'
  <2>1. r \in Unfinished /\ Unfinished' = Unfinished /\ run'[r] = "started"
    BY <1>3 DEF Launch, RunTypeOK
  <2> QED
    BY <1>0, <1>3, <2>1 DEF Launch, optionVars, OptionsInv
<1>4. ASSUME NEW r \in Runs, Release(r) PROVE OptionsInv'
  <2>1. r = gen
    BY <1>4 DEF Release, SlotInv, OneRunAtATime, Holding
  <2>2. r \in Unfinished /\ Unfinished' = Unfinished /\ run'[r] = "released"
    BY <1>4, <2>1 DEF Release, RunTypeOK
  <2> QED
    BY <1>0, <1>4, <2>2 DEF Release, optionVars, OptionsInv
<1>5. ASSUME NEW r \in Runs, Restore(r) PROVE OptionsInv'
  <2>1. r \in Unfinished /\ Unfinished' = Unfinished /\ run'[r] = "restored"
    BY <1>5 DEF Restore, RunTypeOK
  <2>2. Kept(r) = user
    BY <1>0, <1>5, <2>1 DEF Restore, Kept, OptionsInv
  <2> QED
    BY <1>0, <1>5, <2>1, <2>2 DEF Restore, OptionsInv
<1>6. ASSUME NEW r \in Runs, End(r) PROVE OptionsInv'
  <2>1. r \in Unfinished /\ Unfinished' = Unfinished \ {r} /\ cfg = user
    BY <1>0, <1>6 DEF End, RunTypeOK, OptionsInv
  <2> QED
    BY <1>0, <1>6, <2>1 DEF End, optionVars, OptionsInv
<1>7. CASE StopEngine \/ StopMark \/ StopEvent
  BY <1>0, <1>7 DEF StopEngine, StopMark, StopEvent, slotVars, optionVars, OptionsInv
<1>8. CASE PutCheck
  BY <1>0, <1>8 DEF PutCheck, slotVars, optionVars, OptionsInv
<1>9. CASE PutOther
  BY <1>0, <1>9 DEF PutOther, slotVars, OptionsInv
<1>10. ASSUME NEW v \in Puts, PutWrite(v) PROVE OptionsInv'
  BY <1>0, <1>10 DEF PutWrite, slotVars, OptionsInv
<1>11. CASE UNCHANGED runVars
  BY <1>0, <1>11 DEF runVars, slotVars, optionVars, OptionsInv
<1> QED
  BY <1>1, <1>2, <1>3, <1>4, <1>5, <1>6, <1>7, <1>8, <1>9, <1>10, <1>11 DEF RunNext

\* server.go:1114-1116: a run's options go with it.  Once no run is under way, the options
\* in force are those the user chose last, and the saved file never held a run's, unless
\* one call fell into the gap of another.
THEOREM OptionsReturn == RunSpec => []OptionsComeBack
<1>1. RunInit => OptionsInv
  BY OptionsInit
<1>2. RunTypeOK /\ SlotInv /\ OptionsInv /\ [RunNext]_runVars => OptionsInv'
  BY OptionsStep
<1>3. OptionsInv => OptionsComeBack
  BY DEF OptionsInv, OptionsComeBack
<1> QED
  BY <1>1, <1>2, <1>3, SlotAlways, PTL DEF RunSpec

-----------------------------------------------------------------------------
(***************************************************************************)
(* The view of the latest run.  While no call falls into another's gap,    *)
(* only the current generation has something to do; an end in the view is  *)
(* its own, so it has nothing to say after it.                             *)
(***************************************************************************)
InView == {i \in DOMAIN log : i >= since}

ViewInv ==
  ~ overlap =>
    /\ Unfinished \subseteq {gen}
    /\ \A i \in InView : log[i][2] \in {0, gen}
    /\ \A i \in InView : log[i][1] = "run_end" =>
         /\ gen \notin Unfinished
         /\ \A j \in DOMAIN log : j > i => log[j][1] = "run_stop"

LEMMA ViewInit == RunInit => ViewInv
  BY DEF RunInit, ViewInv, Unfinished, InView

\* One more event at the end of the log.
LEMMA LogAppend ==
  ASSUME RunTypeOK, NEW e, log' = Append(log, e), UNCHANGED since
  PROVE  /\ DOMAIN log' = DOMAIN log \cup {Len(log) + 1} /\ log'[Len(log) + 1] = e
         /\ \A i \in DOMAIN log : log'[i] = log[i] /\ i <= Len(log)
         /\ DOMAIN log \subseteq Nat /\ Len(log) \in Nat
         /\ Len(log) + 1 \in InView'
         /\ InView' = InView \cup {Len(log) + 1}
<1>1. /\ log \in Seq({"run_start", "run_end", "run_stop"} \X (0 .. MaxRuns))
      /\ since \in 0 .. Len(log) + 1 /\ Len(log) \in Nat
  BY DEF RunTypeOK
<1>2. /\ DOMAIN log = 1 .. Len(log) /\ DOMAIN log' = 1 .. Len(log) + 1
      /\ log'[Len(log) + 1] = e /\ \A i \in DOMAIN log : log'[i] = log[i]
  BY <1>1
<1>3. DOMAIN log' = DOMAIN log \cup {Len(log) + 1} /\ Len(log) + 1 >= since
  BY <1>1, <1>2
<1> QED
  BY <1>1, <1>2, <1>3 DEF InView

LEMMA ViewStep == RunTypeOK /\ SlotInv /\ ViewInv /\ [RunNext]_runVars => ViewInv'
<1> SUFFICES ASSUME RunTypeOK, SlotInv, ViewInv, [RunNext]_runVars, ~ overlap' PROVE ViewInv'
  BY DEF ViewInv
<1>0. ~ overlap
  BY DEF RunNext, Begin, Apply, Launch, Release, Restore, End, StopEngine, StopMark, StopEvent,
         PutCheck, PutOther, PutWrite, runVars
<1>1. ASSUME NEW resume \in BOOLEAN, Begin(resume) PROVE ViewInv'
  <2>1. gen \in Nat /\ gen + 1 \in Runs
    BY <1>1, MaxRunsNat DEF Begin, RunTypeOK, Runs
  <2>u. Unfinished = {}
    BY <1>1 DEF Begin
  <2>2. Unfinished' = {gen + 1} /\ gen' = gen + 1
    BY <1>1, <2>1, <2>u DEF Begin, RunTypeOK, Unfinished
  <2>3. InView' = {}
    <3>1. log \in Seq({"run_start", "run_end", "run_stop"} \X (0 .. MaxRuns)) /\ log' = log
            /\ since' = Len(log) + 1
      BY <1>1 DEF Begin, ViewFrom, RunTypeOK
    <3>2. DOMAIN log' = 1 .. Len(log) /\ Len(log) \in Nat
      BY <3>1
    <3>3. \A i \in DOMAIN log' : ~ (i >= since')
      BY <3>1, <3>2
    <3> QED
      BY <3>3 DEF InView
  <2> QED
    BY <2>2, <2>3 DEF ViewInv
<1>2. ASSUME NEW r \in Runs, (\E over \in Overs \cup {NoOver} : Apply(r, over)) \/ Restore(r) PROVE ViewInv'
  <2>1. r \in Unfinished /\ Unfinished' = Unfinished /\ UNCHANGED <<gen, log, since>>
    BY <1>2 DEF Apply, Restore, Unfinished, RunTypeOK, slotVars
  <2> QED
    BY <1>0, <2>1 DEF ViewInv, InView
<1>3. ASSUME NEW r \in Runs, Release(r) PROVE ViewInv'
  <2>1. r \in Unfinished /\ Unfinished' \subseteq Unfinished /\ UNCHANGED <<gen, log, since>>
    BY <1>3 DEF Release, Unfinished, RunTypeOK
  <2> QED
    BY <1>0, <2>1 DEF ViewInv, InView
<1>4. ASSUME NEW r \in Runs, Launch(r) PROVE ViewInv'
  <2>1. /\ r \in Unfinished /\ Unfinished' = Unfinished /\ UNCHANGED <<gen, since>>
        /\ log' = Append(log, <<"run_start", r>>)
    BY <1>4 DEF Launch, Unfinished, RunTypeOK, slotVars
  <2>2. r = gen /\ \A i \in InView : log[i][1] # "run_end"
    BY <1>0, <2>1 DEF ViewInv
  <2>3. \A i \in InView' : log'[i][2] \in {0, gen} /\ log'[i][1] # "run_end"
    BY <1>0, <2>1, <2>2, LogAppend DEF ViewInv, InView
  <2> QED
    BY <1>0, <2>1, <2>3 DEF ViewInv
<1>5. ASSUME NEW r \in Runs, End(r) PROVE ViewInv'
  <2>1. /\ r \in Unfinished /\ Unfinished' = Unfinished \ {r} /\ UNCHANGED <<gen, since>>
        /\ log' = Append(log, <<"run_end", r>>)
    BY <1>5 DEF End, Unfinished, RunTypeOK, slotVars
  <2>2. r = gen /\ gen \notin Unfinished' /\ \A i \in InView : log[i][1] # "run_end"
    BY <1>0, <2>1 DEF ViewInv
  <2>3. \A i \in InView' : log'[i][2] \in {0, gen} /\ (log'[i][1] = "run_end" => i = Len(log) + 1)
    BY <1>0, <2>1, <2>2, LogAppend DEF ViewInv, InView
  <2>4. \A j \in DOMAIN log' : ~ (j > Len(log) + 1)
    BY <2>1, LogAppend
  <2> QED
    BY <1>0, <2>1, <2>2, <2>3, <2>4 DEF ViewInv
<1>6. CASE StopEvent
  <2>1. UNCHANGED <<gen, since, run>> /\ log' = Append(log, <<"run_stop", 0>>)
    BY <1>6 DEF StopEvent, slotVars
  <2>2. Unfinished' = Unfinished
    BY <2>1 DEF Unfinished
  <2>3. \A i \in InView' : log'[i][2] \in {0, gen}
    BY <1>0, <2>1, LogAppend DEF ViewInv, InView
  <2>4. ASSUME NEW i \in InView', log'[i][1] = "run_end"
        PROVE  gen \notin Unfinished /\ \A j \in DOMAIN log' : j > i => log'[j][1] = "run_stop"
    <3>1. i \in InView /\ log[i][1] = "run_end"
      BY <2>1, <2>4, LogAppend DEF InView
    <3> QED
      BY <1>0, <2>1, <3>1, LogAppend DEF ViewInv
  <2> QED
    BY <1>0, <2>1, <2>2, <2>3, <2>4 DEF ViewInv
<1>7. CASE \/ StopEngine \/ StopMark \/ PutCheck \/ PutOther \/ (\E v \in Puts : PutWrite(v))
           \/ UNCHANGED runVars
  <2>1. UNCHANGED <<gen, since, run, log>>
    BY <1>7 DEF StopEngine, StopMark, PutCheck, PutOther, PutWrite, runVars, slotVars
  <2> QED
    BY <1>0, <2>1 DEF ViewInv, InView, Unfinished
<1> QED
  BY <1>1, <1>2, <1>3, <1>4, <1>5, <1>6, <1>7 DEF RunNext

\* server.go:1194-1197: what the latest run's view shows is of that run, and its end comes
\* last but for a stop's event, unless one call fell into the gap of another.
THEOREM TheViewIsTheRuns == RunSpec => []LatestIsItsOwn
<1>1. RunInit => ViewInv
  BY ViewInit
<1>2. RunTypeOK /\ SlotInv /\ ViewInv /\ [RunNext]_runVars => ViewInv'
  BY ViewStep
<1>3. ViewInv => LatestIsItsOwn
  BY DEF ViewInv, LatestIsItsOwn, InView
<1> QED
  BY <1>1, <1>2, <1>3, SlotAlways, PTL DEF RunSpec
-----------------------------------------------------------------------------
(* EventStream, while the server is not started again. *)

SubStates == [st : {"new", "top", "select", "gone"}, ch : Seq(Nat), shut : BOOLEAN, lagged : BOOLEAN, last : Nat]
Sendings == [seq : Nat, left : SUBSET Conns, full : SUBSET Conns]
Tabs == [seen : SUBSET Nat, top : Nat, got : SUBSET ({0} \X Nat)]

\* One subscriber, or one emitter, of a function moves to another value of its type.
LEMMA OneMoves ==
  ASSUME NEW S, NEW T, NEW f \in [S -> T], NEW k \in S, NEW v \in T,
         NEW g, g = [f EXCEPT ![k] = v]
  PROVE  g \in [S -> T] /\ g[k] = v /\ \A c \in S : c # k => g[c] = f[c]
OBVIOUS

\* A subscriber's step changes its place in the loop and what the step names, no more.
LEMMA SubTurns ==
  ASSUME NEW s \in SubStates, NEW st \in {"new", "top", "select", "gone"}
  PROVE  LET r == [s EXCEPT !.st = st] IN
         r \in SubStates /\ r.ch = s.ch /\ r.last = s.last /\ r.lagged = s.lagged /\ r.shut = s.shut
BY DEF SubStates

LEMMA SubReplays ==
  ASSUME NEW s \in SubStates, NEW top \in Nat
  PROVE  LET r == [s EXCEPT !.st = "select", !.lagged = FALSE, !.last = top] IN
         r \in SubStates /\ r.ch = s.ch /\ r.last = top /\ r.shut = s.shut
BY DEF SubStates

LEMMA SubShuts ==
  ASSUME NEW s \in SubStates
  PROVE  LET r == [s EXCEPT !.shut = TRUE] IN
         r \in SubStates /\ r.ch = s.ch /\ r.last = s.last /\ r.lagged = s.lagged /\ r.shut
BY DEF SubStates

LEMMA SubReads ==
  ASSUME NEW s \in SubStates, NEW rest \in Seq(Nat), NEW n \in Nat
  PROVE  LET q == [s EXCEPT !.st = "top", !.ch = rest]
             r == [s EXCEPT !.st = "top", !.ch = rest, !.last = n]
         IN /\ q \in SubStates /\ q.ch = rest /\ q.shut = s.shut /\ q.lagged = s.lagged
            /\ r \in SubStates /\ r.ch = rest /\ r.shut = s.shut /\ r.lagged = s.lagged
BY DEF SubStates

StreamTypes ==
  /\ ring \in Seq(Nat) /\ seq \in Nat /\ boot = 0 /\ closed \in BOOLEAN /\ crashed \in BOOLEAN
  /\ subs \subseteq Conns /\ cur \in Conns \cup {NoConn}
  /\ sub \in [Conns -> SubStates]
  /\ sending \in [Emitters -> Sendings]
  /\ tab \in Tabs
  /\ told \subseteq {0} \X Nat /\ overtaken \subseteq {0} \X Nat

\* What rolled out of the ring under a tab that could ask for it.
Under == {n \in RolledOut : <<0, n>> \notin unseen}

LEMMA UnderStays == ASSUME UNCHANGED <<ring, seq, unseen>> PROVE Under' = Under
BY DEF Under, RolledOut, ToSet

\* The numbers grow along the ring, and what rolled out of it under a tab is
\* older than all it holds.
RingInv ==
  /\ \A i, j \in DOMAIN ring : i < j => ring[i] < ring[j]
  /\ \A n \in ToSet(ring) : n > 0 /\ n <= seq
  /\ Under # {} => tab.top > 0 /\ ring # <<>>
  /\ \A n \in Under : \A m \in ToSet(ring) : n < m

\* The tab and the writer of its connection stand at the same number, and no
\* number is ahead of the server's.
TabInv ==
  /\ tab.top <= seq
  /\ \A n \in tab.seen : <<0, n>> \in tab.got
  /\ \A e \in Emitters : sending[e].seq <= seq /\ \A j, k \in sending[e].full : j = k
  /\ \A k \in Conns : \A n \in ToSet(sub[k].ch) : n <= seq
  /\ \A k \in Conns : cur = k => sub[k].last = tab.top /\ (k \in subs \/ sub[k].shut)

\* The events the two properties speak of, and the emits that still owe one to a subscriber.
Relevant == ToSet(ring) \cup Under
Owed(n, k) == \E e \in Emitters : sending[e].seq = n /\ k \in sending[e].left \cup sending[e].full

\* An event ahead of the tab is in the channel, owed, or left to the next
\* resynchronisation, and the channel is in order but for what was overtaken.
Ahead(n, k) ==
  /\ \/ sub[k].shut \/ sub[k].lagged \/ Accounted(n)
     \/ n \in ToSet(sub[k].ch) \/ Owed(n, k)
  /\ \A j \in DOMAIN sub[k].ch : n < sub[k].ch[j] =>
       \/ sub[k].lagged \/ Accounted(n)
       \/ \E i \in DOMAIN sub[k].ch : i < j /\ sub[k].ch[i] = n

\* What the tab is past it knows of; what is ahead of it is on the way.
WayInv ==
  /\ \A n \in Relevant : n <= tab.top => Accounted(n)
  /\ \A k \in Conns : cur = k => \A n \in Relevant : n > tab.top => Ahead(n, k)

StreamInv == StreamTypes /\ RingInv /\ TabInv /\ WayInv

USE DEF SubStates, Sendings, Tabs

\* A set of numbers has a least one.
LEMMA LeastNat ==
  ASSUME NEW Q, Q \subseteq Nat, Q # {}
  PROVE  \E m \in Q : \A k \in Q : m <= k
<1>1. PICK R : R = OpToRel(<, Nat)
  OBVIOUS
<1>2. IsWellFoundedOn(R, Nat)
  BY <1>1, NatLessThanWellFounded
<1>3. \E m \in Q : \A k \in Q : ~ (<<k, m>> \in R)
  BY <1>2, WFMin
<1>4. \A k, m \in Nat : k < m => <<k, m>> \in R
  BY <1>1 DEF OpToRel
<1>5. PICK m \in Q : \A k \in Q : ~ (<<k, m>> \in R)
  BY <1>3
<1>6. ASSUME NEW k \in Q PROVE m <= k
  <2>1. k \in Nat /\ m \in Nat /\ ~ (k < m)
    BY <1>4, <1>5
  <2> QED BY <2>1
<1> QED BY <1>6
\* What evictOldest leaves of a buffer: one position is gone, a token delta's
\* or else the first.
LEMMA EvictedIs ==
  ASSUME NEW buf \in Seq(Nat), Len(buf) > 1
  PROVE  \E p \in 1 .. Len(buf) :
           /\ buf[p] \in Tokens \/ p = 1
           /\ Evicted(buf) \in Seq(Nat)
           /\ Len(Evicted(buf)) = Len(buf) - 1
           /\ \A i \in 1 .. Len(buf) - 1 : Evicted(buf)[i] = IF i < p THEN buf[i] ELSE buf[i + 1]
<1>1. PICK L \in Nat : L = Len(buf) /\ L > 1
  OBVIOUS
<1>2. PICK I : I = {i \in 1 .. L : buf[i] \in Tokens}
  OBVIOUS
<1>3. PICK t : t = SelectInSeq(buf, LAMBDA x : x \in Tokens)
  OBVIOUS
<1>4. t = IF I # {} THEN Min(I) ELSE 0
  BY <1>1, <1>2, <1>3 DEF SelectInSeq
<1>5. Evicted(buf) = IF t > 0 THEN RemoveAt(buf, t) ELSE Tail(buf)
  BY <1>3 DEF Evicted
<1>6. CASE I # {}
  <2>1. t \in I
    <3>1. PICK N : N = L
      OBVIOUS
    <3>2. \E m \in I : \A k \in I : m <= k
      <4>1. I \subseteq Nat
        BY <1>2
      <4> QED BY <4>1, <1>6, LeastNat
    <3> QED BY <3>2, <1>4, <1>6 DEF Min
  <2>2. t \in 1 .. L /\ buf[t] \in Tokens /\ t > 0
    BY <2>1, <1>1, <1>2
  <2>3. PICK u, v : u = SubSeq(buf, 1, t - 1) /\ v = SubSeq(buf, t + 1, L)
    OBVIOUS
  <2>4. \A i \in 1 .. t - 1 : buf[i] \in Nat
    BY <2>2, <1>1
  <2>5. \A i \in t + 1 .. L : buf[i] \in Nat
    BY <2>2, <1>1
  <2>6. u \in Seq(Nat) /\ Len(u) = t - 1 /\ \A i \in 1 .. t - 1 : u[i] = buf[i]
    BY <2>2, <2>3, <2>4, <1>1, SubSeqProperties
  <2>7. v \in Seq(Nat) /\ Len(v) = L - t /\ \A i \in 1 .. L - t : v[i] = buf[t + i]
    <3>1. t + 1 \in Int /\ L \in Int
      BY <2>2, <1>1
    <3>2. /\ v \in Seq(Nat) /\ Len(v) = IF t + 1 <= L THEN L - (t + 1) + 1 ELSE 0
          /\ \A i \in 1 .. L - (t + 1) + 1 : v[i] = buf[(t + 1) + i - 1]
      BY <3>1, <2>3, <2>5, SubSeqProperties
    <3> QED BY <3>2, <2>2, <1>1
  <2>8. Evicted(buf) = u \o v
    BY <1>1, <1>5, <2>2, <2>3 DEF RemoveAt
  <2>9. /\ u \o v \in Seq(Nat) /\ Len(u \o v) = L - 1
        /\ \A i \in 1 .. L - 1 : (u \o v)[i] = IF i <= t - 1 THEN u[i] ELSE v[i - (t - 1)]
    <3>1. /\ u \o v \in Seq(Nat) /\ Len(u \o v) = Len(u) + Len(v)
          /\ \A i \in 1 .. Len(u) + Len(v) : (u \o v)[i] = IF i <= Len(u) THEN u[i] ELSE v[i - Len(u)]
      BY <2>6, <2>7, ConcatProperties
    <3>2. Len(u) + Len(v) = L - 1
      BY <2>2, <2>6, <2>7, <1>1
    <3> QED BY <3>1, <3>2, <2>6
  <2>10. \A i \in 1 .. L - 1 : Evicted(buf)[i] = IF i < t THEN buf[i] ELSE buf[i + 1]
    <3>1. ASSUME NEW i \in 1 .. L - 1 PROVE (u \o v)[i] = IF i < t THEN buf[i] ELSE buf[i + 1]
      <4>1. CASE i < t
        <5>1. i \in 1 .. t - 1
          BY <4>1, <2>2
        <5> QED BY <5>1, <4>1, <2>6, <2>9
      <4>2. CASE ~ (i < t)
        <5>1. i - (t - 1) \in 1 .. L - t /\ ~ (i <= t - 1) /\ t + (i - (t - 1)) = i + 1
          BY <4>2, <2>2, <1>1
        <5>2. (u \o v)[i] = v[i - (t - 1)]
          BY <5>1, <2>9
        <5> QED BY <5>1, <5>2, <4>2, <2>7
      <4> QED BY <4>1, <4>2
    <3> QED BY <3>1, <2>8
  <2> QED BY <2>2, <2>8, <2>9, <2>10, <1>1
<1>7. CASE I = {}
  <2>1. Evicted(buf) = Tail(buf)
    BY <1>4, <1>5, <1>7
  <2>2. buf # <<>>
    BY <1>1
  <2>3. /\ Tail(buf) \in Seq(Nat) /\ Len(Tail(buf)) = L - 1
        /\ \A i \in 1 .. L - 1 : Tail(buf)[i] = buf[i + 1]
    BY <2>2, <1>1, HeadTailProperties
  <2>4. 1 \in 1 .. Len(buf) /\ \A i \in 1 .. L - 1 : ~ (i < 1)
    BY <1>1
  <2> QED BY <2>1, <2>3, <2>4, <1>1
<1>. QED BY <1>6, <1>7
-----------------------------------------------------------------------------
\* What emit does to the ring: the numbers still grow along it, nothing but the
\* new event is added, and a structural event goes only as the oldest of them.
LEMMA BufferedIs ==
  ASSUME NEW N \in Nat, ring \in Seq(Nat),
         \A i, j \in DOMAIN ring : i < j => ring[i] < ring[j],
         \A n \in ToSet(ring) : n < N
  PROVE  LET R == Buffered(N) IN
         /\ R \in Seq(Nat) /\ R # <<>>
         /\ \A i, j \in DOMAIN R : i < j => R[i] < R[j]
         /\ ToSet(R) \subseteq ToSet(ring) \cup {N}
         /\ \A n \in ToSet(ring) \ (ToSet(R) \cup Tokens) : \A m \in ToSet(R) : n < m
         /\ N \in ToSet(R) \cup Tokens
<1>1. PICK L \in Nat : L = Len(ring) /\ DOMAIN ring = 1 .. L
  OBVIOUS
<1>2. PICK buf : buf = Append(ring, N)
  OBVIOUS
<1>3. /\ buf \in Seq(Nat) /\ Len(buf) = L + 1 /\ DOMAIN buf = 1 .. L + 1
      /\ buf[L + 1] = N /\ \A i \in 1 .. L : buf[i] = ring[i]
  BY <1>1, <1>2
<1>4. \A i \in 1 .. L : ring[i] \in Nat /\ ring[i] < N
  BY <1>1 DEF ToSet
<1>5. \A i, j \in 1 .. L + 1 : i < j => buf[i] < buf[j]
  <2> SUFFICES ASSUME NEW i \in 1 .. L + 1, NEW j \in 1 .. L + 1, i < j PROVE buf[i] < buf[j]
    OBVIOUS
  <2>1. i \in 1 .. L
    BY <1>1
  <2>2. CASE j \in 1 .. L
    BY <2>1, <2>2, <1>1, <1>3
  <2>3. CASE j \notin 1 .. L
    <3>1. j = L + 1
      BY <2>3, <1>1
    <3> QED BY <3>1, <2>1, <1>3, <1>4
  <2> QED BY <2>2, <2>3
<1>6. \A i \in 1 .. L + 1 : buf[i] \in ToSet(ring) \cup {N}
  <2> SUFFICES ASSUME NEW i \in 1 .. L + 1 PROVE buf[i] \in ToSet(ring) \cup {N}
    OBVIOUS
  <2>1. CASE i \in 1 .. L
    BY <2>1, <1>1, <1>3 DEF ToSet
  <2>2. CASE i \notin 1 .. L
    <3>1. i = L + 1
      BY <2>2, <1>1
    <3> QED BY <3>1, <1>3
  <2> QED BY <2>1, <2>2
<1>7. CASE L + 1 > RingSize
  <2>1. Len(buf) > 1
    BY <1>1, <1>3, <1>7, StreamSizes
  <2>2. PICK R : R = Evicted(buf)
    OBVIOUS
  <2>3. PICK p \in 1 .. L + 1 :
          /\ buf[p] \in Tokens \/ p = 1
          /\ R \in Seq(Nat) /\ Len(R) = L
          /\ \A i \in 1 .. L : R[i] = IF i < p THEN buf[i] ELSE buf[i + 1]
    <3>1. \E p \in 1 .. Len(buf) :
            /\ buf[p] \in Tokens \/ p = 1
            /\ R \in Seq(Nat) /\ Len(R) = Len(buf) - 1
            /\ \A i \in 1 .. Len(buf) - 1 : R[i] = IF i < p THEN buf[i] ELSE buf[i + 1]
      BY <2>1, <2>2, <1>3, EvictedIs, Zenon
    <3>2. Len(buf) = L + 1 /\ Len(buf) - 1 = L
      BY <1>1, <1>3
    <3> QED BY <3>1, <3>2
  <2>4. L >= 1 /\ DOMAIN R = 1 .. L
    BY <2>1, <2>3, <1>1, <1>3
  <2>5. R # <<>>
    BY <2>3, <2>4
  <2>6. \A i, j \in 1 .. L : i < j => R[i] < R[j]
    <3> SUFFICES ASSUME NEW i \in 1 .. L, NEW j \in 1 .. L, i < j PROVE R[i] < R[j]
      OBVIOUS
    <3>1. PICK a, b : a = (IF i < p THEN i ELSE i + 1) /\ b = (IF j < p THEN j ELSE j + 1)
      OBVIOUS
    <3>2. a \in 1 .. L + 1 /\ b \in 1 .. L + 1 /\ a < b
      BY <3>1, <1>1
    <3>3. R[i] = buf[a] /\ R[j] = buf[b]
      BY <3>1, <2>3
    <3> QED BY <3>2, <3>3, <1>5
  <2>7. \A i \in 1 .. L : R[i] \in ToSet(ring) \cup {N}
    <3> SUFFICES ASSUME NEW i \in 1 .. L PROVE R[i] \in ToSet(ring) \cup {N}
      OBVIOUS
    <3>1. i \in 1 .. L + 1 /\ i + 1 \in 1 .. L + 1
      BY <1>1
    <3>2. R[i] = buf[i] \/ R[i] = buf[i + 1]
      BY <2>3
    <3> QED BY <3>1, <3>2, <1>6
  <2>8. ASSUME NEW q \in 1 .. L, ring[q] \notin Tokens, ring[q] \notin ToSet(R), NEW i \in 1 .. L
        PROVE  ring[q] < R[i]
    <3>1. q = p
      <4>1. ASSUME q < p PROVE FALSE
        <5>1. R[q] = ring[q]
          BY <4>1, <2>3, <1>3
        <5> QED BY <5>1, <2>4, <2>8 DEF ToSet
      <4>2. ASSUME p < q PROVE FALSE
        <5>1. q - 1 \in 1 .. L /\ ~ (q - 1 < p) /\ q - 1 + 1 = q
          BY <4>2, <1>1
        <5>2. R[q - 1] = ring[q]
          BY <5>1, <2>3, <1>3
        <5> QED BY <5>1, <5>2, <2>4, <2>8 DEF ToSet
      <4> QED BY <4>1, <4>2, <1>1
    <3>2. p = 1
      BY <3>1, <2>3, <2>8, <1>3
    <3>3. R[i] = buf[i + 1] /\ i + 1 \in 1 .. L + 1 /\ 1 < i + 1 /\ 1 \in 1 .. L + 1
      BY <3>2, <2>3, <1>1
    <3> QED BY <3>1, <3>2, <3>3, <1>3, <1>5
  <2>9. \A n \in ToSet(ring) \ (ToSet(R) \cup Tokens) : \A m \in ToSet(R) : n < m
    BY <2>4, <2>8, <1>1 DEF ToSet
  <2>10. Buffered(N) = R
    BY <1>2, <1>3, <1>7, <2>2 DEF Buffered
  <2>11. ToSet(R) \subseteq ToSet(ring) \cup {N}
    BY <2>4, <2>7 DEF ToSet
  <2>12. N \in ToSet(R) \cup Tokens
    <3>1. CASE p = L + 1
      BY <3>1, <2>3, <2>4, <1>3
    <3>2. CASE p # L + 1
      <4>1. L \in 1 .. L /\ ~ (L < p)
        BY <3>2, <2>4, <1>1
      <4>2. R[L] = N
        BY <4>1, <2>3, <1>3
      <4> QED BY <4>1, <4>2, <2>4 DEF ToSet
    <3> QED BY <3>1, <3>2
  <2> QED BY <2>3, <2>4, <2>5, <2>6, <2>9, <2>10, <2>11, <2>12
<1>8. CASE ~ (L + 1 > RingSize)
  <2>1. Buffered(N) = buf
    BY <1>2, <1>3, <1>8 DEF Buffered
  <2>2. buf # <<>>
    BY <1>1, <1>3
  <2>3. ToSet(buf) \subseteq ToSet(ring) \cup {N}
    BY <1>3, <1>6 DEF ToSet
  <2>4. ToSet(ring) \subseteq ToSet(buf)
    <3>1. \A i \in 1 .. L : i \in 1 .. L + 1
      BY <1>1
    <3> QED BY <3>1, <1>1, <1>3 DEF ToSet
  <2>5. N \in ToSet(buf)
    <3>1. L + 1 \in 1 .. L + 1
      BY <1>1
    <3> QED BY <3>1, <1>3 DEF ToSet
  <2> QED BY <2>1, <2>2, <2>3, <2>4, <2>5, <1>3, <1>5
<1> QED BY <1>7, <1>8
-----------------------------------------------------------------------------
\* The highest of some numbers and an old one is one of them, and no less than any.
LEMMA LastOfIs ==
  ASSUME NEW N \in Nat, NEW ns \in SUBSET (0 .. N), NEW old \in 0 .. N
  PROVE  /\ LastOf(ns, old) \in ns \cup {old}
         /\ \A x \in ns \cup {old} : x <= LastOf(ns, old)
<1>1. PICK S : S = ns \cup {old}
  OBVIOUS
<1>2. PICK Q : Q = {d \in Nat : N - d \in S}
  OBVIOUS
<1>3. S \subseteq 0 .. N /\ old \in S
  BY <1>1
<1>4. \A x \in S : N - x \in Q
  <2> SUFFICES ASSUME NEW x \in S PROVE N - x \in Q
    OBVIOUS
  <2>1. x \in Nat /\ x <= N
    BY <1>3
  <2>2. N - x \in Nat /\ N - (N - x) = x
    BY <2>1
  <2> QED BY <2>2, <1>2
<1>5. Q \subseteq Nat /\ Q # {}
  BY <1>2, <1>3, <1>4
<1>6. PICK d \in Q : \A c \in Q : d <= c
  BY <1>5, LeastNat
<1>7. N - d \in S /\ d \in Nat
  BY <1>2
<1>8. \A x \in S : N - d >= x
  BY <1>3, <1>4, <1>6, <1>7
<1>9. Max(S) \in S /\ \A x \in S : Max(S) >= x
  BY <1>7, <1>8 DEF Max
<1>10. \A x \in S : x <= Max(S)
  <2>1. S \subseteq Nat
    BY <1>3
  <2> QED BY <2>1, <1>9
<1> QED BY <1>1, <1>9, <1>10 DEF LastOf

\* The least number of the ring is its head.
LEMMA HeadIsLeast ==
  ASSUME StreamTypes, RingInv, ring # <<>>
  PROVE  Head(ring) \in ToSet(ring) /\ \A n \in ToSet(ring) : Head(ring) <= n
<1>1. 1 \in DOMAIN ring /\ Head(ring) = ring[1] /\ DOMAIN ring = 1 .. Len(ring)
  BY DEF StreamTypes
<1>2. \A i \in DOMAIN ring : ring[i] \in Nat /\ (i = 1 \/ 1 < i)
  BY <1>1 DEF StreamTypes
<1>3. \A i \in DOMAIN ring : ring[1] <= ring[i]
  BY <1>1, <1>2 DEF RingInv
<1> QED BY <1>1, <1>3 DEF ToSet

\* What a replay from the ring covers: every event newer than the tab's number is
\* written or announced, and afterwards none is ahead of the tab.
LEMMA ReplayCovers ==
  ASSUME StreamTypes, RingInv, TabInv
  PROVE  LET ns == Since(tab.top)
             top == LastOf(ns, tab.top)
         IN /\ ns \subseteq ToSet(ring) /\ ns \subseteq Nat
            /\ GapSince(tab.top) \subseteq Nat
            /\ top \in Nat /\ top <= seq
            /\ \A n \in Relevant : n <= top
            /\ \A n \in Relevant : n > tab.top => n \in ns \/ n \in GapSince(tab.top)
<1>1. PICK ns : ns = Since(tab.top)
  OBVIOUS
<1>2. PICK s \in Nat : s = seq
  BY DEF StreamTypes
<1>3. PICK t \in Nat : t = tab.top /\ t <= s
  BY <1>2 DEF StreamTypes, TabInv
<1>4. PICK R : R = ToSet(ring) /\ \A n \in R : n \in 0 .. s
  <2>1. ToSet(ring) \subseteq Nat
    BY DEF StreamTypes, ToSet
  <2> QED BY <2>1, <1>2 DEF RingInv
<1>5. ns = {n \in R : n > t}
  BY <1>1, <1>3, <1>4 DEF Since
<1>6. PICK top : top = LastOf(ns, t)
  OBVIOUS
<1>7. top \in ns \cup {t} /\ \A x \in ns \cup {t} : x <= top
  <2>1. ns \in SUBSET (0 .. s) /\ t \in 0 .. s
    BY <1>3, <1>4, <1>5
  <2> QED BY <2>1, <1>6, LastOfIs
<1>8. top \in Nat /\ top <= s
  BY <1>3, <1>4, <1>5, <1>7
<1>9. \A n \in R : n <= top
  <2> SUFFICES ASSUME NEW n \in R PROVE n <= top
    OBVIOUS
  <2>1. CASE n > t
    BY <2>1, <1>5, <1>7
  <2>2. CASE ~ (n > t)
    BY <2>2, <1>3, <1>4, <1>7, <1>8
  <2> QED BY <2>1, <2>2
<1>10. ASSUME NEW n \in Under
       PROVE  n <= top /\ (n > t => n \in GapSince(tab.top))
  <2>0. n \in Nat
    BY <1>2, <1>10 DEF Under, RolledOut
  <2>1. t > 0 /\ ring # <<>>
    BY <1>3, <1>10 DEF RingInv
  <2>2. PICK h \in R : h = Head(ring)
    BY <2>1, <1>4, HeadIsLeast
  <2>3. n < h
    BY <2>2, <1>4, <1>10 DEF RingInv
  <2>4. n <= top
    BY <2>0, <2>2, <2>3, <1>4, <1>8, <1>9
  <2>5. ASSUME n > t PROVE n \in GapSince(tab.top)
    <3>1. h > t + 1 /\ n \in t + 1 .. h - 1
      BY <2>0, <2>2, <2>3, <2>5, <1>3, <1>4
    <3> QED BY <3>1, <2>1, <2>2, <1>3 DEF GapSince
  <2> QED BY <2>4, <2>5
<1>11. GapSince(tab.top) \subseteq Nat
  <2>1. CASE ring # <<>>
    <3>1. PICK h \in Nat : h = Head(ring)
      BY <2>1, <1>4, HeadIsLeast
    <3>2. t + 1 .. h - 1 \subseteq Nat
      BY <1>3
    <3> QED BY <3>1, <3>2, <1>3 DEF GapSince
  <2>2. CASE ring = <<>>
    BY <2>2 DEF GapSince
  <2> QED BY <2>1, <2>2
<1>12. Relevant = R \cup Under
  BY <1>4 DEF Relevant
<1>13. ns \subseteq R /\ R \subseteq Nat
  BY <1>4, <1>5
<1>14. \A n \in Relevant : n <= top
  BY <1>9, <1>10, <1>12
<1>15. \A n \in Relevant : n > t => n \in ns \/ n \in GapSince(tab.top)
  BY <1>5, <1>10, <1>12
<1>16. ns \subseteq Nat
  BY <1>13
<1> QED BY ONLY <1>1, <1>2, <1>3, <1>4, <1>6, <1>8, <1>11, <1>13, <1>14, <1>15, <1>16

\* A resynchronisation of the tab's own connection leaves nothing ahead of the tab
\* and nothing behind it that it does not know of.
LEMMA WriteCatchesUp ==
  ASSUME StreamTypes, RingInv, TabInv, WayInv, NEW k \in Conns, cur' = k,
         Write(k, GapSince(tab.top), Since(tab.top)),
         UNCHANGED <<ring, seq, boot, unseen, overtaken>>
  PROVE  /\ tab' \in Tabs
         /\ told' \subseteq {0} \X Nat
         /\ tab'.top = LastOf(Since(tab.top), tab.top) /\ tab'.top <= seq
         /\ tab.top > 0 => tab'.top > 0
         /\ \A n \in tab'.seen : <<0, n>> \in tab'.got
         /\ \A n \in Relevant : n <= tab'.top /\ Accounted(n)'
<1>1. PICK ns : ns = Since(tab.top)
  OBVIOUS
<1>2. PICK gap : gap = GapSince(tab.top)
  OBVIOUS
<1>3. PICK top : top = LastOf(ns, tab.top)
  OBVIOUS
<1>4. /\ ns \subseteq Nat /\ gap \subseteq Nat /\ top \in Nat /\ top <= seq
      /\ \A n \in Relevant : n <= top
      /\ \A n \in Relevant : n > tab.top => n \in ns \/ n \in gap
  BY <1>1, <1>2, <1>3, ReplayCovers
<1>5. PICK seen, got, old : tab = [seen |-> seen, top |-> old, got |-> got] /\ seen \subseteq Nat /\ got \subseteq {0} \X Nat /\ old \in Nat
  BY DEF StreamTypes
<1>6. boot = 0 /\ boot' = 0
  BY DEF StreamTypes
<1>7. /\ told' = told \cup {<<0, n>> : n \in gap}
      /\ tab' = [seen |-> seen \cup ns, top |-> top, got |-> got \cup {<<0, n>> : n \in ns \ seen}]
  BY <1>1, <1>2, <1>3, <1>5, <1>6 DEF Write
<1>8. tab' \in Tabs
  <2>1. seen \cup ns \in SUBSET Nat
    BY <1>4, <1>5
  <2>2. got \cup {<<0, n>> : n \in ns \ seen} \in SUBSET ({0} \X Nat)
    BY <1>4, <1>5
  <2> QED BY <2>1, <2>2, <1>4, <1>7
<1>9. told' \subseteq {0} \X Nat
  BY <1>4, <1>7 DEF StreamTypes
<1>10. \A n \in tab'.seen : <<0, n>> \in tab'.got
  BY <1>5, <1>7 DEF TabInv
<1>11. ASSUME NEW n \in Relevant PROVE n <= tab'.top /\ Accounted(n)'
  <2>1. n <= tab'.top
    BY <1>4, <1>7, <1>11
  <2>2. n \in Nat
    BY DEF Relevant, Under, RolledOut, StreamTypes, ToSet
  <2>3. CASE n <= tab.top
    <3>1. <<0, n>> \in tab.got \cup told \cup overtaken
      BY <2>3, <1>6 DEF WayInv, Accounted
    <3>2. <<0, n>> \in tab'.got \cup told' \cup overtaken'
      BY <3>1, <1>5, <1>7
    <3> QED BY <3>2, <2>1, <1>6 DEF Accounted
  <2>4. CASE n > tab.top
    <3>1. n \in ns \/ n \in gap
      BY <2>4, <1>4
    <3>2. n \in seen => <<0, n>> \in got
      BY <1>5 DEF TabInv
    <3>3. <<0, n>> \in tab'.got \cup told'
      BY <3>1, <3>2, <1>7
    <3> QED BY <3>3, <2>1, <1>6 DEF Accounted
  <2>5. n <= tab.top \/ n > tab.top
    BY <2>2, <1>5
  <2> QED BY <2>3, <2>4, <2>5
<1>12. tab.top > 0 => tab'.top > 0
  <2>1. CASE ns = {}
    <3>1. PICK s \in Nat : s = seq /\ old <= s
      BY <1>5 DEF StreamTypes, TabInv
    <3>2. ns \in SUBSET (0 .. s) /\ old \in 0 .. s
      BY <2>1, <3>1, <1>5
    <3>3. top = old
      BY <3>2, <2>1, <1>3, <1>5, LastOfIs
    <3> QED BY <3>3, <1>5, <1>7
  <2>2. CASE ns # {}
    <3>1. PICK n \in ns : n \in ToSet(ring) /\ n > old
      BY <2>2, <1>1, <1>5 DEF Since
    <3>2. n \in Relevant /\ n \in Nat
      BY <3>1, <1>4 DEF Relevant
    <3>3. n <= top /\ n > 0
      BY <3>1, <3>2, <1>4, <1>5
    <3> QED BY <3>2, <3>3, <1>4, <1>7
  <2> QED BY <2>1, <2>2
<1> QED BY <1>1, <1>3, <1>4, <1>5, <1>7, <1>8, <1>9, <1>10, <1>11, <1>12
-----------------------------------------------------------------------------
\* The steps.  Each lemma says what one of them does to the ring and to the tab's
\* knowledge, in the order of the conjuncts of StreamInv.

LEMMA StreamStarts == StreamInit => StreamInv
<1> SUFFICES ASSUME StreamInit PROVE StreamInv
  OBVIOUS
<1>1. sub = [k \in Conns |-> NewSub] /\ sending = [e \in Emitters |-> Idle] /\ ring = <<>>
  BY DEF StreamInit, Booted
<1>2. StreamTypes
  <2>1. NewSub \in SubStates
    <3>1. <<>> \in Seq(Nat)
      OBVIOUS
    <3> QED BY <3>1 DEF NewSub
  <2>2. Idle \in Sendings
    BY DEF Idle
  <2>3. ring \in Seq(Nat)
    BY DEF StreamInit, Booted
  <2>4. tab \in Tabs
    BY DEF StreamInit
  <2>5. sub \in [Conns -> SubStates] /\ sending \in [Emitters -> Sendings]
    BY <2>1, <2>2, <1>1
  <2>6. /\ seq = 0 /\ boot = 0 /\ closed = FALSE /\ crashed = FALSE /\ subs = {} /\ cur = NoConn
        /\ told = {} /\ overtaken = {}
    BY DEF StreamInit, Booted
  <2> QED BY <2>3, <2>4, <2>5, <2>6 DEF StreamTypes
<1>3. ToSet(ring) = {}
  BY <1>1 DEF ToSet
<1>4. Under = {} /\ RingInv
  <2>1. 1 .. 0 = {}
    OBVIOUS
  <2>2. Under = {}
    BY <2>1 DEF StreamInit, Booted, Under, RolledOut
  <2> QED BY <2>2, <1>1, <1>3 DEF StreamInit, RingInv
<1>5. \A k \in Conns : sub[k].ch = <<>> /\ ToSet(sub[k].ch) = {}
  BY <1>1 DEF NewSub, ToSet
<1>6. \A e \in Emitters : sending[e].seq = 0 /\ sending[e].full = {}
  BY <1>1 DEF Idle
<1>7. \A k \in Conns : cur # k
  BY StreamActors DEF StreamInit, Conns
<1>8. TabInv
  BY <1>5, <1>6, <1>7 DEF StreamInit, Booted, TabInv
<1>9. WayInv
  BY <1>3, <1>4, <1>7 DEF StreamInit, WayInv, Relevant
<1> QED BY <1>2, <1>4, <1>8, <1>9 DEF StreamInv

\* emit under the mutex: the new event is owed to every subscriber.
LEMMA EmitKeeps == ASSUME StreamInv, NEW e \in Emitters, Emit(e) PROVE StreamInv'
<1> USE DEF StreamInv, Ahead
<1>1. PICK s \in Nat : s = seq /\ seq' = s + 1
  BY DEF StreamTypes, Emit
<1>2. PICK R : R = ring' /\ R = Buffered(s + 1)
  BY <1>1 DEF Emit
<1>3. /\ R \in Seq(Nat) /\ R # <<>>
      /\ \A i, j \in DOMAIN R : i < j => R[i] < R[j]
      /\ ToSet(R) \subseteq ToSet(ring) \cup {s + 1}
      /\ \A n \in ToSet(ring) \ (ToSet(R) \cup Tokens) : \A m \in ToSet(R) : n < m
      /\ s + 1 \in ToSet(R) \cup Tokens
  <2>1. ToSet(ring) \subseteq Nat
    BY DEF StreamTypes, ToSet
  <2>2. \A n \in ToSet(ring) : n < s + 1
    BY <2>1, <1>1 DEF RingInv
  <2>3. s + 1 \in Nat /\ ring \in Seq(Nat) /\ \A i, j \in DOMAIN ring : i < j => ring[i] < ring[j]
    BY DEF StreamTypes, RingInv
  <2> QED BY <2>2, <2>3, <1>2, BufferedIs
<1>4. /\ boot = 0 /\ boot' = 0 /\ tab' = tab /\ cur' = cur /\ sub' = sub /\ subs' = subs
      /\ told' = told /\ overtaken' = overtaken /\ closed' = closed /\ crashed' = crashed
  BY DEF Emit, StreamTypes
<1>5. PICK gone : gone = ToSet(ring) \ (ToSet(R) \cup Tokens)
  OBVIOUS
<1>6. \A n \in Under' : n \in Nat /\ (n \in Under \/ (n \in gone /\ tab.top > 0))
  <2> SUFFICES ASSUME NEW n \in Under' PROVE n \in Nat /\ (n \in Under \/ (n \in gone /\ tab.top > 0))
    OBVIOUS
  <2>1. n \in 1 .. s + 1 /\ n \notin ToSet(R) \cup Tokens /\ <<0, n>> \notin unseen'
    BY <1>1, <1>2 DEF Under, RolledOut, ToSet
  <2>2. n \in 1 .. s
    BY <2>1, <1>1, <1>3
  <2>3. unseen' = unseen \cup {<<0, m>> : m \in {q \in gone : tab.top = 0}}
    BY <1>2, <1>4, <1>5 DEF Emit
  <2>4. CASE n \in ToSet(ring)
    <3>1. n \in gone /\ tab.top # 0
      BY <2>1, <2>3, <2>4, <1>5
    <3> QED BY <3>1, <2>2 DEF StreamTypes
  <2>5. CASE n \notin ToSet(ring)
    BY <2>1, <2>2, <2>3, <2>5, <1>1 DEF Under, RolledOut
  <2> QED BY <2>4, <2>5
<1>7. gone \subseteq ToSet(ring) /\ ToSet(ring) \subseteq Nat /\ ToSet(R) \subseteq Nat
  BY <1>3, <1>5 DEF StreamTypes, ToSet
<1>8. /\ sending' = [sending EXCEPT ![e] = Owing(s + 1, subs, {})] /\ sending[e] = Idle
      /\ sending \in [Emitters -> Sendings] /\ subs \subseteq Conns
  BY <1>1 DEF Emit, Free, StreamTypes
<1>9. sending' \in [Emitters -> Sendings]
  <2>1. Owing(s + 1, subs, {}) \in Sendings
    BY <1>1, <1>8 DEF Owing, Idle
  <2> QED BY <2>1, <1>8
<1>11. StreamTypes'
  BY <1>1, <1>2, <1>3, <1>4, <1>9 DEF StreamTypes
<1>12. \A n \in ToSet(R) : n > 0 /\ n <= s + 1
  <2>1. \A n \in ToSet(ring) : n > 0 /\ n <= s + 1
    BY <1>1, <1>7 DEF RingInv
  <2> QED BY <2>1, <1>1, <1>3
<1>13. ASSUME NEW n \in Under' PROVE tab.top > 0 /\ \A m \in ToSet(R) : n < m
  <2>1. CASE n \in Under
    <3>1. \A m \in ToSet(ring) : n < m
      BY <2>1 DEF RingInv
    <3>2. tab.top > 0 /\ ring # <<>>
      BY <2>1 DEF RingInv
    <3>3. PICK h \in ToSet(ring) : h = Head(ring)
      BY <3>2, HeadIsLeast
    <3>4. n < s + 1
      BY <3>1, <3>3, <1>1, <1>6, <1>7, <1>13 DEF RingInv
    <3> QED BY <3>1, <3>2, <3>4, <1>3
  <2>2. CASE n \notin Under
    <3>1. n \in gone /\ tab.top > 0
      BY <2>2, <1>6, <1>13
    <3> QED BY <3>1, <1>3, <1>5
  <2> QED BY <2>1, <2>2
<1>14. RingInv'
  <2>1. \A i, j \in DOMAIN ring' : i < j => ring'[i] < ring'[j]
    BY <1>2, <1>3
  <2>2. \A n \in ToSet(ring') : n > 0 /\ n <= seq'
    BY <1>1, <1>2, <1>12
  <2>3. \A n \in Under' : \A m \in ToSet(ring') : n < m
    BY <1>2, <1>13
  <2>4. Under' # {} => tab'.top > 0 /\ ring' # <<>>
    BY <1>2, <1>3, <1>4, <1>13
  <2> QED BY <2>1, <2>2, <2>3, <2>4 DEF RingInv, ToSet
<1>15. TabInv'
  <2>1. tab'.top <= seq' /\ \A n \in tab'.seen : <<0, n>> \in tab'.got
    BY <1>1, <1>4 DEF TabInv, StreamTypes
  <2>2. \A d \in Emitters : sending'[d].seq <= seq' /\ \A j, k \in sending'[d].full : j = k
    <3> SUFFICES ASSUME NEW d \in Emitters PROVE sending'[d].seq <= seq' /\ \A j, k \in sending'[d].full : j = k
      OBVIOUS
    <3>1. CASE d = e
      BY <3>1, <1>1, <1>8 DEF Owing, Idle
    <3>2. CASE d # e
      BY <3>2, <1>1, <1>8 DEF TabInv
    <3> QED BY <3>1, <3>2
  <2>3. \A k \in Conns : \A n \in ToSet(sub'[k].ch) : n <= seq'
    <3>1. \A k \in Conns : ToSet(sub[k].ch) \subseteq Nat
      BY DEF StreamTypes, ToSet
    <3> QED BY <3>1, <1>1, <1>4 DEF TabInv
  <2>4. \A k \in Conns : cur' = k => sub'[k].last = tab'.top /\ (k \in subs' \/ sub'[k].shut)
    BY <1>4 DEF TabInv
  <2> QED BY <2>1, <2>2, <2>3, <2>4 DEF TabInv, ToSet
<1>16. ASSUME NEW n \in Nat, n \in Relevant'
       PROVE  n \in Relevant \/ n = s + 1
  <2>1. n \in ToSet(R) \/ n \in Under'
    BY <1>2, <1>16 DEF Relevant, ToSet
  <2>2. n \in ToSet(R) => n \in ToSet(ring) \/ n = s + 1
    BY <1>3
  <2>3. n \in Under' => n \in Under \/ n \in ToSet(ring)
    BY <1>6, <1>7
  <2> QED BY <2>1, <2>2, <2>3 DEF Relevant
<1>17. Relevant' \subseteq Nat
  BY <1>2, <1>6, <1>7 DEF Relevant, ToSet
<1>18. \A n \in Nat : Accounted(n)' <=> Accounted(n)
  BY <1>4 DEF Accounted
<1>19. \A n \in Nat, k \in Conns : Owed(n, k) => Owed(n, k)'
  <2> SUFFICES ASSUME NEW n \in Nat, NEW k \in Conns, Owed(n, k) PROVE Owed(n, k)'
    OBVIOUS
  <2>1. PICK d \in Emitters : sending[d].seq = n /\ k \in sending[d].left \cup sending[d].full
    BY DEF Owed
  <2>2. d # e
    BY <2>1, <1>8 DEF Idle
  <2>3. sending'[d] = sending[d]
    BY <2>2, <1>8
  <2> QED BY <2>1, <2>3 DEF Owed
<1>20. \A k \in subs : Owed(s + 1, k)'
  <2> SUFFICES ASSUME NEW k \in subs PROVE Owed(s + 1, k)'
    OBVIOUS
  <2>1. sending'[e].seq = s + 1 /\ k \in sending'[e].left
    BY <1>8 DEF Owing
  <2> QED BY <2>1 DEF Owed
<1>21. \A n \in Relevant' : n <= tab'.top => Accounted(n)'
  <2>1. s + 1 > tab.top
    BY <1>1 DEF TabInv, StreamTypes
  <2>2. ~ (s + 1 <= tab.top)
    BY <2>1, <1>1 DEF StreamTypes
  <2> QED BY <2>2, <1>4, <1>16, <1>17, <1>18 DEF WayInv
<1>22. ASSUME NEW k \in Conns, cur' = k, NEW n \in Relevant', n > tab'.top
       PROVE  Ahead(n, k)'
  <2>1. n \in Nat
    BY <1>17
  <2>2. CASE n \in Relevant
    <3>1. Ahead(n, k)
      BY <2>2, <1>4, <1>22 DEF WayInv
    <3> QED BY <3>1, <2>1, <1>4, <1>18, <1>19
  <2>3. CASE n = s + 1
    <3>1. k \in subs \/ sub[k].shut
      BY <1>4, <1>22 DEF TabInv
    <3>2. Owed(n, k)' \/ sub'[k].shut
      BY <3>1, <2>3, <1>4, <1>20
    <3>3. ASSUME NEW j \in DOMAIN sub[k].ch PROVE ~ (n < sub[k].ch[j])
      <4>1. sub[k].ch[j] \in ToSet(sub[k].ch) /\ sub[k].ch[j] \in Nat
        BY DEF StreamTypes, ToSet
      <4>2. sub[k].ch[j] <= s
        BY <4>1, <1>1 DEF TabInv
      <4> QED BY <4>1, <4>2, <2>3
    <3> QED BY <3>2, <3>3, <1>4
  <2> QED BY <2>1, <2>2, <2>3, <1>16
<1>23. WayInv'
  BY <1>21, <1>22 DEF WayInv
<1> QED BY <1>11, <1>14, <1>15, <1>23 DEF StreamInv

\* The send into the channel, or the channel found full.
LEMMA SendKeeps == ASSUME StreamInv, NEW e \in Emitters, NEW k \in Conns, Send(e, k) PROVE StreamInv'
<1> USE DEF StreamInv, Ahead
<1>1. PICK N : N = sending[e].seq
  OBVIOUS
<1>2. PICK ch : ch = sub[k].ch
  OBVIOUS
<1>3. /\ ring' = ring /\ seq' = seq /\ boot' = boot /\ boot = 0 /\ tab' = tab /\ cur' = cur /\ subs' = subs
      /\ told' = told /\ unseen' = unseen /\ closed' = closed
  BY DEF Send, StreamTypes
<1>4. /\ sending \in [Emitters -> Sendings]
      /\ sub \in [Conns -> SubStates]
      /\ N \in Nat /\ ch \in Seq(Nat)
  BY <1>1, <1>2 DEF StreamTypes
<1>5. Relevant' = Relevant
  BY <1>3 DEF Relevant, Under, RolledOut, ToSet
<1>6. RingInv'
  BY <1>3, UnderStays DEF RingInv, ToSet
<1>7. ASSUME sub[k].shut PROVE StreamInv'
  <2>1. crashed' = TRUE /\ UNCHANGED <<sub, sending, overtaken>>
    BY <1>7 DEF Send
  <2>2. StreamTypes'
    BY <2>1, <1>3 DEF StreamTypes
  <2>3. TabInv'
    BY <2>1, <1>3 DEF TabInv, ToSet
  <2>4. WayInv'
    BY <2>1, <1>3, <1>5 DEF WayInv, ToSet, Accounted, Owed
  <2> QED BY <2>2, <2>3, <2>4, <1>6
<1>8. ASSUME ~ sub[k].shut PROVE StreamInv'
  <2>1. PICK late : late = {p \in Emitters : k \in sending[p].left \cup sending[p].full /\ sending[p].seq < N}
    OBVIOUS
  <2>2. overtaken' = overtaken \cup {<<0, sending[o].seq>> : o \in late} /\ crashed' = crashed
    BY <2>1, <1>1, <1>3, <1>8 DEF Send
  <2>3. overtaken' \subseteq {0} \X Nat /\ overtaken \subseteq overtaken'
    <3>1. \A o \in late : sending[o].seq \in Nat
      BY <2>1, <1>4
    <3> QED BY <3>1, <2>2 DEF StreamTypes
  <2>4. \A n \in Nat : Accounted(n) => Accounted(n)'
    BY <2>3, <1>3 DEF Accounted
  <2>5. ASSUME NEW n \in Nat, Owed(n, k), n < N PROVE Accounted(n)'
    <3>1. PICK o \in Emitters : sending[o].seq = n /\ k \in sending[o].left \cup sending[o].full
      BY <2>5 DEF Owed
    <3>2. o \in late
      BY <3>1, <2>1, <2>5
    <3>3. <<0, n>> \in overtaken'
      BY <3>1, <3>2, <2>2
    <3> QED BY <3>3, <1>3 DEF Accounted
  <2>6. Relevant \subseteq Nat
    BY DEF Relevant, Under, RolledOut, StreamTypes, ToSet
  <2>7. \A n \in Relevant' : n <= tab'.top => Accounted(n)'
    BY <2>4, <2>6, <1>3, <1>5 DEF WayInv
  <2>8. CASE Len(ch) < ChanSize
    <3>1. /\ sub' = [sub EXCEPT ![k].ch = Append(@, N)]
          /\ sending' = [sending EXCEPT ![e] = Owing(N, @.left \ {k}, {})] /\ sending[e].full = {}
      BY <2>8, <1>1, <1>2, <1>8 DEF Send
    <3>2. /\ sub'[k].ch = Append(ch, N)
          /\ \A c \in Conns : /\ sub'[c].shut = sub[c].shut /\ sub'[c].lagged = sub[c].lagged
                              /\ sub'[c].last = sub[c].last
                              /\ c # k => sub'[c].ch = sub[c].ch
      BY <3>1, <1>2, <1>4
    <3>3. Append(ch, N) \in Seq(Nat)
      BY <1>4
    <3>4. /\ sub' \in [Conns -> SubStates]
      BY <3>1, <3>3, <1>2, <1>4
    <3>5. Owing(N, sending[e].left \ {k}, {}) \in Sendings
      BY <1>4 DEF Owing, Idle
    <3>6. StreamTypes'
      BY <3>1, <3>4, <3>5, <2>2, <2>3, <1>3, <1>4 DEF StreamTypes
    <3>7. \A n \in ToSet(Append(ch, N)) : n \in ToSet(ch) \/ n = N
      BY <1>4 DEF ToSet
    <3>8. \A n \in ToSet(ch) \cup {N} : n \in ToSet(Append(ch, N))
      <4>1. DOMAIN Append(ch, N) = 1 .. Len(ch) + 1 /\ DOMAIN ch = 1 .. Len(ch) /\ Len(ch) \in Nat
        BY <1>4
      <4>2. \A i \in 1 .. Len(ch) : i \in 1 .. Len(ch) + 1 /\ Append(ch, N)[i] = ch[i]
        BY <1>4
      <4>3. Append(ch, N)[Len(ch) + 1] = N /\ Len(ch) + 1 \in 1 .. Len(ch) + 1
        BY <1>4
      <4> QED BY <4>1, <4>2, <4>3 DEF ToSet
    <3>9. TabInv'
      <4>1. \A c \in Conns : \A n \in ToSet(sub'[c].ch) : n <= seq'
        <5> SUFFICES ASSUME NEW c \in Conns, NEW n \in ToSet(sub'[c].ch) PROVE n <= seq'
          OBVIOUS
        <5>1. CASE c # k
          BY <5>1, <3>2, <1>3 DEF TabInv
        <5>2. CASE c = k
          BY <5>2, <3>2, <3>7, <1>1, <1>2, <1>3 DEF TabInv
        <5> QED BY <5>1, <5>2
      <4>2. \A d \in Emitters : sending'[d].seq <= seq' /\ \A i, j \in sending'[d].full : i = j
        <5> SUFFICES ASSUME NEW d \in Emitters PROVE sending'[d].seq <= seq' /\ \A i, j \in sending'[d].full : i = j
          OBVIOUS
        <5>1. CASE d = e
          BY <5>1, <3>1, <1>1, <1>3, <1>4 DEF Owing, Idle, TabInv, StreamTypes
        <5>2. CASE d # e
          BY <5>2, <3>1, <1>3, <1>4 DEF TabInv
        <5> QED BY <5>1, <5>2
      <4>3. \A c \in Conns : cur' = c => sub'[c].last = tab'.top /\ (c \in subs' \/ sub'[c].shut)
        BY <3>2, <1>3 DEF TabInv
      <4> QED BY <4>1, <4>2, <4>3, <1>3 DEF TabInv, ToSet
    <3>10. ASSUME NEW n \in Nat, NEW c \in Conns, Owed(n, c) PROVE Owed(n, c)' \/ (c = k /\ n = N)
      <4>1. PICK d \in Emitters : sending[d].seq = n /\ c \in sending[d].left \cup sending[d].full
        BY <3>10 DEF Owed
      <4>2. CASE d # e
        <5>1. sending'[d] = sending[d]
          BY <4>2, <3>1, <1>4
        <5> QED BY <4>1, <5>1 DEF Owed
      <4>3. CASE d = e /\ c # k
        <5>1. c \in sending[e].left \ {k} /\ n = N
          BY <4>1, <4>3, <3>1, <1>1
        <5>2. sending'[e].seq = n /\ c \in sending'[e].left
          BY <5>1, <3>1, <1>4 DEF Owing
        <5> QED BY <5>2 DEF Owed
      <4>4. CASE d = e /\ c = k
        BY <4>1, <4>4, <1>1
      <4> QED BY <4>2, <4>3, <4>4
    <3>11. ASSUME NEW c \in Conns, cur' = c, NEW n \in Relevant', n > tab'.top
           PROVE  Ahead(n, c)'
      <4>1. n \in Nat /\ n \in Relevant
        BY <2>6, <1>5
      <4>2. Ahead(n, c)
        BY <4>1, <3>11, <1>3 DEF WayInv
      <4>3. CASE c # k
        <5>1. Owed(n, c) => Owed(n, c)'
          BY <4>1, <4>3, <3>10
        <5> QED BY <4>1, <4>2, <4>3, <5>1, <3>2, <2>4
      <4>4. CASE c = k
        <5>1. \/ sub'[k].shut \/ sub'[k].lagged \/ Accounted(n)'
              \/ n \in ToSet(Append(ch, N)) \/ Owed(n, k)'
          BY <4>1, <4>2, <4>4, <3>2, <3>8, <3>10, <2>4, <1>2
        <5>2. ASSUME NEW j \in DOMAIN Append(ch, N), n < Append(ch, N)[j]
              PROVE  \/ sub'[k].lagged \/ Accounted(n)'
                     \/ \E i \in DOMAIN Append(ch, N) : i < j /\ Append(ch, N)[i] = n
          <6>1. /\ DOMAIN Append(ch, N) = 1 .. Len(ch) + 1 /\ DOMAIN ch = 1 .. Len(ch) /\ Len(ch) \in Nat
                /\ \A i \in 1 .. Len(ch) : Append(ch, N)[i] = ch[i]
                /\ Append(ch, N)[Len(ch) + 1] = N
            BY <1>4
          <6>2. CASE j \in DOMAIN ch
            <7>1. \/ sub[k].lagged \/ Accounted(n)
                  \/ \E i \in DOMAIN ch : i < j /\ ch[i] = n
              BY <6>1, <6>2, <5>2, <4>2, <4>4, <1>2
            <7>2. \A i \in DOMAIN ch : i \in DOMAIN Append(ch, N) /\ Append(ch, N)[i] = ch[i]
              BY <6>1
            <7> QED BY <7>1, <7>2, <4>1, <3>2, <2>4
          <6>3. CASE j \notin DOMAIN ch
            <7>1. j = Len(ch) + 1 /\ n < N
              BY <6>1, <6>3, <5>2
            <7>2. \A i \in DOMAIN ch : i \in DOMAIN Append(ch, N) /\ Append(ch, N)[i] = ch[i] /\ i < j
              BY <6>1, <7>1
            <7>3. n \in ToSet(ch) => \E i \in DOMAIN ch : ch[i] = n
              BY DEF ToSet
            <7> QED BY <7>1, <7>2, <7>3, <4>1, <4>2, <4>4, <3>2, <2>4, <2>5, <1>2, <1>8
          <6> QED BY <6>2, <6>3
        <5> QED BY <5>1, <5>2, <4>4, <3>2
      <4> QED BY <4>3, <4>4
    <3>12. WayInv'
      BY <3>11, <2>7 DEF WayInv
    <3> QED BY <3>6, <3>9, <3>12, <1>6
  <2>9. CASE ~ (Len(ch) < ChanSize)
    <3>1. /\ sub' = sub /\ sending[e].full = {} /\ k \in sending[e].left
          /\ sending' = [sending EXCEPT ![e] = Owing(N, @.left \ {k}, {k})]
      BY <2>9, <1>1, <1>2, <1>8 DEF Send
    <3>2. sending'[e] = [seq |-> N, left |-> sending[e].left \ {k}, full |-> {k}]
      BY <3>1, <1>4 DEF Owing
    <3>3. sending' \in [Emitters -> Sendings]
      <4>1. Owing(N, sending[e].left \ {k}, {k}) \in Sendings
        BY <1>4 DEF Owing, Idle
      <4> QED BY <4>1, <3>1, <1>4
    <3>4. StreamTypes'
      BY <3>1, <3>3, <2>2, <2>3, <1>3 DEF StreamTypes
    <3>5. TabInv'
      <4>1. \A d \in Emitters : sending'[d].seq <= seq' /\ \A i, j \in sending'[d].full : i = j
        <5> SUFFICES ASSUME NEW d \in Emitters PROVE sending'[d].seq <= seq' /\ \A i, j \in sending'[d].full : i = j
          OBVIOUS
        <5>1. CASE d = e
          BY <5>1, <3>2, <1>1, <1>3 DEF TabInv
        <5>2. CASE d # e
          BY <5>2, <3>1, <1>3, <1>4 DEF TabInv
        <5> QED BY <5>1, <5>2
      <4>2. tab' = tab /\ sub' = sub /\ cur' = cur /\ seq' = seq /\ subs' = subs
        BY <3>1, <1>3
      <4> QED BY <4>1, <4>2 DEF TabInv, ToSet
    <3>6. \A n \in Nat, c \in Conns : Owed(n, c) => Owed(n, c)'
      <4> SUFFICES ASSUME NEW n \in Nat, NEW c \in Conns, Owed(n, c) PROVE Owed(n, c)'
        OBVIOUS
      <4>1. PICK d \in Emitters : sending[d].seq = n /\ c \in sending[d].left \cup sending[d].full
        BY DEF Owed
      <4>2. sending'[d].seq = n /\ c \in sending'[d].left \cup sending'[d].full
        <5>1. CASE d = e
          BY <4>1, <5>1, <3>1, <3>2, <1>1
        <5>2. CASE d # e
          BY <4>1, <5>2, <3>1, <1>4
        <5> QED BY <5>1, <5>2
      <4> QED BY <4>2 DEF Owed
    <3>7. ASSUME NEW c \in Conns, cur' = c, NEW n \in Relevant', n > tab'.top
           PROVE  Ahead(n, c)'
      <4>1. n \in Nat /\ n \in Relevant
        BY <2>6, <1>5
      <4>2. Ahead(n, c)
        BY <4>1, <3>7, <1>3 DEF WayInv
      <4> QED BY <4>1, <4>2, <3>1, <3>6, <2>4
    <3>8. WayInv'
      BY <3>7, <2>7 DEF WayInv
    <3> QED BY <3>4, <3>5, <3>8, <1>6
  <2> QED BY <2>8, <2>9
<1>9. sub[k].shut \in BOOLEAN
  BY <1>4
<1> QED BY <1>7, <1>8, <1>9

\* The flag: what was owed to this subscriber is now left to its resynchronisation.
LEMMA FlagKeeps == ASSUME StreamInv, NEW e \in Emitters, NEW k \in Conns, Flag(e, k) PROVE StreamInv'
<1> USE DEF StreamInv, Ahead
<1>1. /\ ring' = ring /\ seq' = seq /\ boot' = boot /\ boot = 0 /\ tab' = tab /\ cur' = cur /\ subs' = subs
      /\ told' = told /\ unseen' = unseen /\ closed' = closed /\ overtaken' = overtaken /\ crashed' = crashed
  BY DEF Flag, StreamTypes, tabVars
<1>2. /\ sending \in [Emitters -> Sendings]
      /\ sub \in [Conns -> SubStates]
  BY DEF StreamTypes
<1>3. /\ sub' = [sub EXCEPT ![k].lagged = TRUE] /\ k \in sending[e].full
      /\ sending' = [sending EXCEPT ![e] = Owing(@.seq, @.left, {})]
  BY DEF Flag
<1>4. \A c \in Conns : /\ sub'[c].ch = sub[c].ch /\ sub'[c].last = sub[c].last /\ sub'[c].shut = sub[c].shut
                       /\ sub[c].lagged => sub'[c].lagged
  BY <1>2, <1>3
<1>5. sub'[k].lagged
  BY <1>2, <1>3
<1>6. StreamTypes'
  <2>1. Owing(sending[e].seq, sending[e].left, {}) \in Sendings
    BY <1>2 DEF Owing, Idle
  <2>2. sending' \in [Emitters -> Sendings]
    BY <2>1, <1>2, <1>3
  <2>3. sub' \in [Conns -> SubStates]
    BY <1>2, <1>3
  <2> QED BY <2>2, <2>3, <1>1 DEF StreamTypes
<1>7. RingInv'
  BY <1>1, UnderStays DEF RingInv, ToSet
<1>8. Relevant' = Relevant /\ Relevant \subseteq Nat
  BY <1>1 DEF Relevant, Under, RolledOut, ToSet, StreamTypes
<1>9. TabInv'
  <2>1. \A d \in Emitters : sending'[d].seq <= seq' /\ \A i, j \in sending'[d].full : i = j
    <3> SUFFICES ASSUME NEW d \in Emitters PROVE sending'[d].seq <= seq' /\ \A i, j \in sending'[d].full : i = j
      OBVIOUS
    <3>1. CASE d = e
      BY <3>1, <1>1, <1>2, <1>3 DEF Owing, Idle, TabInv, StreamTypes
    <3>2. CASE d # e
      BY <3>2, <1>1, <1>2, <1>3 DEF TabInv
    <3> QED BY <3>1, <3>2
  <2> QED BY <2>1, <1>1, <1>4 DEF TabInv, ToSet
<1>10. ASSUME NEW n \in Nat, NEW c \in Conns, Owed(n, c) PROVE Owed(n, c)' \/ c = k
  <2>1. PICK d \in Emitters : sending[d].seq = n /\ c \in sending[d].left \cup sending[d].full
    BY <1>10 DEF Owed
  <2>2. CASE d # e
    BY <2>1, <2>2, <1>2, <1>3 DEF Owed
  <2>3. CASE d = e /\ c \in sending[e].left
    <3>1. sending'[e].seq = n /\ c \in sending'[e].left
      BY <2>1, <2>3, <1>2, <1>3 DEF Owing
    <3> QED BY <3>1 DEF Owed
  <2>4. CASE d = e /\ c \notin sending[e].left
    BY <2>1, <2>4, <1>3 DEF TabInv
  <2> QED BY <2>2, <2>3, <2>4
<1>11. \A n \in Nat : Accounted(n)' <=> Accounted(n)
  BY <1>1 DEF Accounted
<1>12. ASSUME NEW c \in Conns, cur' = c, NEW n \in Relevant', n > tab'.top PROVE Ahead(n, c)'
  <2>1. n \in Nat /\ n \in Relevant
    BY <1>8
  <2>2. Ahead(n, c)
    BY <2>1, <1>1, <1>12 DEF WayInv
  <2>3. Owed(n, c) => Owed(n, c)' \/ sub'[c].lagged
    BY <2>1, <1>5, <1>10
  <2> QED BY <2>1, <2>2, <2>3, <1>4, <1>11
<1>13. WayInv'
  BY <1>1, <1>8, <1>11, <1>12 DEF WayInv
<1> QED BY <1>6, <1>7, <1>9, <1>13

\* A step that writes nothing to the tab and takes nothing from its channel.
LEMMA QuietKeeps ==
  ASSUME StreamInv, StreamTypes',
         UNCHANGED <<ring, seq, sending, boot, tab, told, unseen, overtaken>>,
         \A c \in Conns : sub'[c].ch \in {sub[c].ch, <<>>},
         \A c \in Conns : cur' = c =>
           /\ cur = c /\ sub'[c].ch = sub[c].ch /\ sub'[c].last = sub[c].last
           /\ sub[c].lagged => sub'[c].lagged
           /\ sub[c].shut => sub'[c].shut
           /\ c \in subs => c \in subs' \/ sub'[c].shut
  PROVE  StreamInv'
<1> USE DEF StreamInv, Ahead
<1>1. RingInv'
  BY UnderStays DEF RingInv, ToSet
<1>2. Relevant' = Relevant /\ Relevant \subseteq Nat
  BY DEF Relevant, Under, RolledOut, ToSet, StreamTypes
<1>3. TabInv'
  <2>1. ToSet(<<>>) = {}
    BY DEF ToSet
  <2>2. \A c \in Conns : \A n \in ToSet(sub'[c].ch) : n <= seq'
    BY <2>1 DEF TabInv
  <2> QED BY <2>2 DEF TabInv, ToSet
<1>4. \A n \in Nat : Accounted(n)' <=> Accounted(n)
  BY DEF Accounted
<1>5. \A n \in Nat, c \in Conns : Owed(n, c)' <=> Owed(n, c)
  BY DEF Owed
<1>6. ASSUME NEW c \in Conns, cur' = c, NEW n \in Relevant', n > tab'.top PROVE Ahead(n, c)'
  <2>1. n \in Nat /\ n \in Relevant
    BY <1>2
  <2>2. Ahead(n, c)
    BY <2>1, <1>6 DEF WayInv
  <2> QED BY <2>1, <2>2, <1>4, <1>5, <1>6
<1>7. WayInv'
  BY <1>2, <1>4, <1>6 DEF WayInv
<1> QED BY <1>1, <1>3, <1>7

\* A step that resynchronises the tab from the ring.
LEMMA ReplayKeeps ==
  ASSUME StreamInv, NEW k \in Conns, cur' = k, Write(k, GapSince(tab.top), Since(tab.top)),
         UNCHANGED <<ring, seq, sending, boot, closed, crashed, unseen, overtaken>>,
         subs' \subseteq Conns,
         sub' \in [Conns -> SubStates],
         \A c \in Conns : sub'[c].ch \in {sub[c].ch, <<>>},
         sub'[k].last = LastOf(Since(tab.top), tab.top), k \in subs' \/ sub'[k].shut
  PROVE  StreamInv'
<1> USE DEF StreamInv
<1>1. /\ tab' \in Tabs
      /\ told' \subseteq {0} \X Nat
      /\ tab'.top = LastOf(Since(tab.top), tab.top) /\ tab'.top <= seq
      /\ tab.top > 0 => tab'.top > 0
      /\ \A n \in tab'.seen : <<0, n>> \in tab'.got
      /\ \A n \in Relevant : n <= tab'.top /\ Accounted(n)'
  BY WriteCatchesUp
<1>2. StreamTypes'
  BY <1>1 DEF StreamTypes
<1>3. RingInv'
  BY <1>1, UnderStays DEF RingInv, ToSet
<1>4. TabInv'
  <2>1. ToSet(<<>>) = {}
    BY DEF ToSet
  <2>2. \A c \in Conns : \A n \in ToSet(sub'[c].ch) : n <= seq'
    BY <2>1 DEF TabInv
  <2>3. \A c \in Conns : cur' = c => sub'[c].last = tab'.top /\ (c \in subs' \/ sub'[c].shut)
    BY <1>1
  <2> QED BY <2>2, <2>3, <1>1 DEF TabInv, ToSet
<1>5. Relevant' = Relevant /\ Relevant \subseteq Nat
  BY DEF Relevant, Under, RolledOut, ToSet, StreamTypes
<1>6. \A n \in Relevant' : ~ (n > tab'.top) /\ Accounted(n)'
  <2>1. \A n \in Relevant : n \in Nat /\ n <= tab'.top /\ tab'.top \in Nat
    BY <1>1, <1>5
  <2> QED BY <2>1, <1>1, <1>5
<1>7. WayInv'
  BY <1>6 DEF WayInv
<1> QED BY <1>2, <1>3, <1>4, <1>7

LEMMA ConnectKeeps == ASSUME StreamInv, NEW k \in Conns, Connect(k) PROVE StreamInv'
<1>1. PICK top : top = LastOf(Since(tab.top), tab.top)
  OBVIOUS
<1>2. top \in Nat
  BY <1>1, ReplayCovers DEF StreamInv
<1>3. PICK new : new = [NewSub EXCEPT !.st = "top", !.last = top]
  OBVIOUS
<1>4. /\ sub' = [sub EXCEPT ![k] = new] /\ cur' = k /\ subs' = subs \cup {k}
      /\ Write(k, GapSince(tab.top), Since(tab.top))
      /\ UNCHANGED <<ring, seq, sending, boot, closed, crashed, unseen, overtaken>>
  BY <1>1, <1>3 DEF Connect
<1>5. /\ sub' \in [Conns -> SubStates]
      /\ \A c \in Conns : sub'[c].ch \in {sub[c].ch, <<>>}
      /\ sub'[k].last = top /\ subs' \subseteq Conns /\ k \in subs'
  <2>1. <<>> \in Seq(Nat)
    OBVIOUS
  <2>2. new \in SubStates
    BY <2>1, <1>2, <1>3 DEF NewSub
  <2>3. new.ch = <<>> /\ new.last = top
    BY <1>3 DEF NewSub
  <2> QED BY <2>2, <2>3, <1>4 DEF StreamInv, StreamTypes
<1> QED BY <1>1, <1>4, <1>5, ReplayKeeps

LEMMA LookKeeps == ASSUME StreamInv, NEW k \in Conns, Look(k) PROVE StreamInv'
<1>1. PICK base \in Nat : base = sub[k].last
  BY DEF StreamInv, StreamTypes
<1>2. /\ sub \in [Conns -> SubStates]
      /\ UNCHANGED <<ring, seq, closed, subs, sending, crashed, boot, unseen, overtaken>> /\ cur' = cur
  BY DEF Look, StreamInv, StreamTypes
<1>3. CASE sub[k].lagged /\ cur = k
  <2>1. base = tab.top /\ (k \in subs \/ sub[k].shut)
    BY <1>1, <1>3 DEF StreamInv, TabInv
  <2>2. PICK top : top = LastOf(Since(tab.top), tab.top)
    OBVIOUS
  <2>3. top \in Nat
    BY <2>2, ReplayCovers DEF StreamInv
  <2>4. /\ sub' = [sub EXCEPT ![k] = [sub[k] EXCEPT !.st = "select", !.lagged = FALSE, !.last = top]]
        /\ Write(k, GapSince(tab.top), Since(tab.top))
    BY <2>1, <2>2, <1>1, <1>3 DEF Look
  <2>5. /\ sub' \in [Conns -> SubStates]
        /\ \A c \in Conns : sub'[c].ch = sub[c].ch
        /\ sub'[k].last = top /\ sub'[k].shut = sub[k].shut
    <3>1. PICK new : new = [sub[k] EXCEPT !.st = "select", !.lagged = FALSE, !.last = top]
      OBVIOUS
    <3>2. new \in SubStates /\ new.ch = sub[k].ch /\ new.last = top /\ new.shut = sub[k].shut
      BY <3>1, <2>3, <1>2, SubReplays
    <3>3. sub' = [sub EXCEPT ![k] = new]
      BY <3>1, <2>4
    <3>4. sub' \in [Conns -> SubStates] /\ sub'[k] = new /\ \A c \in Conns : c # k => sub'[c] = sub[c]
      BY <1>2, <3>2, <3>3, OneMoves
    <3> QED BY <3>2, <3>4
  <2>6. subs' \subseteq Conns /\ (k \in subs' \/ sub'[k].shut)
    BY <2>1, <2>5, <1>2 DEF StreamInv, StreamTypes
  <2> QED BY <2>2, <2>4, <2>5, <2>6, <1>2, <1>3, ReplayKeeps
<1>4. CASE sub[k].lagged /\ cur # k
  <2>1. PICK top : top = LastOf(Since(base), base)
    OBVIOUS
  <2>2. /\ sub' = [sub EXCEPT ![k] = [sub[k] EXCEPT !.st = "select", !.lagged = FALSE, !.last = top]]
        /\ UNCHANGED <<tab, told>>
    BY <2>1, <1>1, <1>2, <1>4 DEF Look, Write
  <2>3. top \in Nat
    <3>1. PICK s \in Nat : /\ \A n \in ToSet(ring) : n \in 0 .. s
                           /\ base \in 0 .. s
      <4>1. PICK r \in Nat : r = seq
        BY DEF StreamInv, StreamTypes
      <4>2. \A n \in ToSet(ring) : n \in Nat /\ n <= r
        BY <4>1 DEF StreamInv, StreamTypes, RingInv, ToSet
      <4>3. r + base \in Nat /\ base \in 0 .. r + base /\ \A n \in ToSet(ring) : n \in 0 .. r + base
        BY <4>1, <4>2
      <4> QED BY <4>3
    <3>2. Since(base) \in SUBSET (0 .. s)
      BY <3>1 DEF Since
    <3>3. top \in Since(base) \cup {base}
      BY <3>1, <3>2, <2>1, LastOfIs
    <3> QED BY <3>1, <3>2, <3>3
  <2>4. /\ sub' \in [Conns -> SubStates]
        /\ \A c \in Conns : sub'[c].ch = sub[c].ch
        /\ \A c \in Conns : c # k => sub'[c] = sub[c]
    <3>1. PICK new : new = [sub[k] EXCEPT !.st = "select", !.lagged = FALSE, !.last = top]
      OBVIOUS
    <3>2. new \in SubStates /\ new.ch = sub[k].ch /\ new.last = top /\ new.shut = sub[k].shut
      BY <3>1, <2>3, <1>2, SubReplays
    <3>3. sub' = [sub EXCEPT ![k] = new]
      BY <3>1, <2>2
    <3>4. sub' \in [Conns -> SubStates] /\ sub'[k] = new /\ \A c \in Conns : c # k => sub'[c] = sub[c]
      BY <1>2, <3>2, <3>3, OneMoves
    <3> QED BY <3>2, <3>4
  <2>5. StreamTypes'
    BY <2>2, <2>4, <1>2 DEF StreamInv, StreamTypes
  <2> QED BY <2>2, <2>4, <2>5, <1>2, <1>4, QuietKeeps
<1>5. CASE ~ sub[k].lagged
  <2>1. sub' = [sub EXCEPT ![k] = [sub[k] EXCEPT !.st = "select"]] /\ UNCHANGED <<tab, told>>
    BY <1>5 DEF Look
  <2>2. /\ sub' \in [Conns -> SubStates]
        /\ \A c \in Conns : /\ sub'[c].ch = sub[c].ch /\ sub'[c].last = sub[c].last
                            /\ sub'[c].lagged = sub[c].lagged /\ sub'[c].shut = sub[c].shut
    <3>1. PICK new : new = [sub[k] EXCEPT !.st = "select"]
      OBVIOUS
    <3>2. /\ new \in SubStates /\ new.ch = sub[k].ch /\ new.last = sub[k].last
          /\ new.lagged = sub[k].lagged /\ new.shut = sub[k].shut
      BY <3>1, <1>2, SubTurns
    <3>3. sub' = [sub EXCEPT ![k] = new]
      BY <3>1, <2>1
    <3>4. sub' \in [Conns -> SubStates] /\ sub'[k] = new /\ \A c \in Conns : c # k => sub'[c] = sub[c]
      BY <1>2, <3>2, <3>3, OneMoves
    <3> QED BY <3>2, <3>4
  <2>3. StreamTypes'
    BY <2>1, <2>2, <1>2 DEF StreamInv, StreamTypes
  <2> QED BY <2>1, <2>2, <2>3, <1>2, QuietKeeps
<1> QED BY <1>3, <1>4, <1>5

LEMMA HeartbeatKeeps == ASSUME StreamInv, NEW k \in Conns, Heartbeat(k) PROVE StreamInv'
<1>1. /\ sub' = [sub EXCEPT ![k] = [sub[k] EXCEPT !.st = "top"]]
      /\ UNCHANGED <<ring, seq, closed, subs, sending, crashed, boot, cur, tab, told, unseen, overtaken>>
  BY DEF Heartbeat, tabVars
<1>2. /\ sub' \in [Conns -> SubStates]
      /\ \A c \in Conns : /\ sub'[c].ch = sub[c].ch /\ sub'[c].last = sub[c].last
                          /\ sub'[c].lagged = sub[c].lagged /\ sub'[c].shut = sub[c].shut
  <2>1. sub \in [Conns -> SubStates]
    BY DEF StreamInv, StreamTypes
  <2>2. PICK new : new = [sub[k] EXCEPT !.st = "top"]
    OBVIOUS
  <2>3. /\ new \in SubStates /\ new.ch = sub[k].ch /\ new.last = sub[k].last
        /\ new.lagged = sub[k].lagged /\ new.shut = sub[k].shut
    BY <2>1, <2>2, SubTurns
  <2>4. sub' = [sub EXCEPT ![k] = new]
    BY <2>2, <1>1
  <2>5. sub' \in [Conns -> SubStates] /\ sub'[k] = new /\ \A c \in Conns : c # k => sub'[c] = sub[c]
    BY <2>1, <2>3, <2>4, OneMoves
  <2> QED BY <2>3, <2>5
<1>3. StreamTypes'
  BY <1>1, <1>2 DEF StreamInv, StreamTypes
<1> QED BY <1>1, <1>2, <1>3, QuietKeeps

LEMMA LeaveKeeps == ASSUME StreamInv, NEW k \in Conns, Leave(k) PROVE StreamInv'
<1>1. PICK shut \in BOOLEAN : shut = (sub[k].shut \/ k \in subs)
  OBVIOUS
<1>2. /\ sub' = [sub EXCEPT ![k] = [NewSub EXCEPT !.st = "gone", !.shut = shut]]
      /\ subs' = subs \ {k} /\ cur' = (IF cur = k THEN NoConn ELSE cur)
      /\ UNCHANGED <<ring, seq, closed, sending, crashed, boot, tab, told, unseen, overtaken>>
  BY <1>1 DEF Leave
<1>3. /\ sub' \in [Conns -> SubStates]
      /\ sub'[k].ch = <<>> /\ \A c \in Conns : c # k => sub'[c] = sub[c]
  <2>1. <<>> \in Seq(Nat)
    OBVIOUS
  <2>2. PICK new : new = [NewSub EXCEPT !.st = "gone", !.shut = shut]
    OBVIOUS
  <2>3. new \in SubStates
    BY <2>1, <2>2 DEF NewSub
  <2>4. new.ch = <<>>
    BY <2>2 DEF NewSub
  <2> QED BY <2>2, <2>3, <2>4, <1>2 DEF StreamInv, StreamTypes
<1>4. \A c \in Conns : cur' = c => cur = c /\ c # k
  BY <1>2, StreamActors DEF Conns
<1>5. StreamTypes'
  BY <1>2, <1>3 DEF StreamInv, StreamTypes
<1> QED BY <1>2, <1>3, <1>4, <1>5, QuietKeeps

LEMMA CutKeeps == ASSUME StreamInv, Cut PROVE StreamInv'
<1>1. cur' = NoConn /\ UNCHANGED <<ring, seq, closed, subs, sub, sending, crashed, boot, tab, told, unseen, overtaken>>
  BY DEF Cut, serverVars
<1>2. \A c \in Conns : cur' # c
  BY <1>1, StreamActors DEF Conns
<1>3. StreamTypes'
  BY <1>1 DEF StreamInv, StreamTypes
<1> QED BY <1>1, <1>2, <1>3, QuietKeeps

LEMMA ShutdownKeeps == ASSUME StreamInv, Shutdown PROVE StreamInv'
<1>1. /\ sub' = [k \in Conns |-> IF k \in subs THEN [sub[k] EXCEPT !.shut = TRUE] ELSE sub[k]]
      /\ closed' = TRUE /\ subs' = {}
      /\ UNCHANGED <<ring, seq, sending, crashed, boot, cur, tab, told, unseen, overtaken>>
  BY DEF Shutdown, tabVars
<1>2. /\ sub' \in [Conns -> SubStates]
      /\ \A c \in Conns : /\ sub'[c].ch = sub[c].ch /\ sub'[c].last = sub[c].last
                          /\ sub'[c].lagged = sub[c].lagged
                          /\ c \in subs \/ sub[c].shut => sub'[c].shut
  <2>1. sub \in [Conns -> SubStates]
    BY DEF StreamInv, StreamTypes
  <2>2. ASSUME NEW c \in Conns
        PROVE  /\ sub'[c] \in SubStates /\ sub'[c].ch = sub[c].ch /\ sub'[c].last = sub[c].last
               /\ sub'[c].lagged = sub[c].lagged
               /\ c \in subs \/ sub[c].shut => sub'[c].shut
    <3>1. CASE c \in subs
      <4>1. sub'[c] = [sub[c] EXCEPT !.shut = TRUE] /\ sub[c] \in SubStates
        BY <3>1, <2>1, <1>1
      <4> QED BY ONLY <4>1, SubShuts
    <3>2. CASE c \notin subs
      <4>1. sub'[c] = sub[c] /\ sub[c] \in SubStates
        BY <3>2, <2>1, <1>1
      <4> QED BY <4>1, <3>2
    <3> QED BY <3>1, <3>2
  <2>3. sub' = [c \in Conns |-> sub'[c]]
    BY <1>1
  <2> QED BY <2>2, <2>3
<1>3. StreamTypes'
  BY <1>1, <1>2 DEF StreamInv, StreamTypes
<1> QED BY <1>1, <1>2, <1>3, QuietKeeps

\* One event from the channel: it is next but for what was overtaken.
LEMMA ReceiveKeeps == ASSUME StreamInv, NEW k \in Conns, Receive(k) PROVE StreamInv'
<1> USE DEF StreamInv, Ahead
<1>1. PICK ch : ch = sub[k].ch
  OBVIOUS
<1>2. PICK top \in Nat : top = tab.top /\ top = sub[k].last
  BY DEF Receive, StreamTypes, TabInv
<1>3. PICK n \in Nat : n = Head(ch) /\ n \in ToSet(ch) /\ n = ch[1] /\ 1 \in DOMAIN ch
  <2>1. ch # <<>> /\ ch \in Seq(Nat)
    BY <1>1 DEF Receive, StreamTypes
  <2>2. Head(ch) = ch[1] /\ 1 \in DOMAIN ch /\ ch[1] \in Nat
    BY <2>1
  <2> QED BY <2>2 DEF ToSet
<1>4. /\ cur = k /\ cur' = k /\ ~ crashed
      /\ UNCHANGED <<ring, seq, closed, subs, sending, crashed, boot, unseen>>
  BY DEF Receive
<1>5. /\ sub \in [Conns -> SubStates]
      /\ ch \in Seq(Nat) /\ ch # <<>> /\ boot = 0
  BY <1>1 DEF Receive, StreamTypes
<1>6. PICK rest : /\ rest = Tail(ch) /\ rest \in Seq(Nat) /\ Len(rest) = Len(ch) - 1 /\ Len(ch) \in Nat
                  /\ \A i \in 1 .. Len(rest) : rest[i] = ch[i + 1]
  <2>1. Len(Tail(ch)) = Len(ch) - 1 /\ \A i \in 1 .. Len(ch) - 1 : Tail(ch)[i] = ch[i + 1]
    BY <1>5, HeadTailProperties
  <2>2. Tail(ch) \in Seq(Nat) /\ Len(ch) \in Nat
    BY <1>5
  <2> QED BY <2>1, <2>2
<1>7. /\ \A m \in ToSet(rest) : m \in ToSet(ch)
      /\ \A m \in ToSet(ch) : m = n \/ m \in ToSet(rest)
  <2>1. DOMAIN ch = 1 .. Len(ch) /\ DOMAIN rest = 1 .. Len(rest)
    BY <1>5, <1>6
  <2>2. \A i \in 1 .. Len(rest) : i + 1 \in DOMAIN ch /\ rest[i] = ch[i + 1]
    BY <2>1, <1>6
  <2>3. ASSUME NEW i \in DOMAIN ch, i # 1 PROVE ch[i] \in ToSet(rest)
    <3>1. i - 1 \in 1 .. Len(rest) /\ (i - 1) + 1 = i
      BY <2>1, <2>3, <1>6
    <3>2. rest[i - 1] = ch[i]
      BY <3>1, <1>6
    <3> QED BY <3>1, <3>2, <2>1 DEF ToSet
  <2>4. \A m \in ToSet(rest) : m \in ToSet(ch)
    BY <2>1, <2>2 DEF ToSet
  <2>5. \A m \in ToSet(ch) : m = n \/ m \in ToSet(rest)
    <3>1. \A m \in ToSet(ch) : \E i \in DOMAIN ch : ch[i] = m
      BY DEF ToSet
    <3>2. ch[1] = n
      BY <1>3
    <3> QED BY <3>1, <3>2, <2>3
  <2> QED BY <2>4, <2>5
<1>8. Relevant' = Relevant /\ Relevant \subseteq Nat
  BY <1>4 DEF Relevant, Under, RolledOut, ToSet, StreamTypes
<1>9. /\ sub'[k].ch = rest /\ sub'[k].shut = sub[k].shut /\ sub'[k].lagged = sub[k].lagged
      /\ \A c \in Conns : c # k => sub'[c] = sub[c]
      /\ sub' \in [Conns -> SubStates]
  <2>a. PICK old \in SubStates : old = sub[k]
    BY <1>5
  <2>b. rest \in Seq(Nat) /\ n \in Nat
    BY <1>3, <1>6
  <2>1. CASE n <= top
    <3>1. sub' = [sub EXCEPT ![k] = [sub[k] EXCEPT !.st = "top", !.ch = rest]]
      BY <2>1, <1>1, <1>2, <1>3, <1>6 DEF Receive
    <3>2. PICK new : new = [old EXCEPT !.st = "top", !.ch = rest]
      OBVIOUS
    <3>3. new \in SubStates /\ new.ch = rest /\ new.shut = old.shut /\ new.lagged = old.lagged
      BY <3>2, <2>a, <2>b, SubReads
    <3>4. sub' = [sub EXCEPT ![k] = new]
      BY <3>1, <3>2, <2>a
    <3>5. sub' \in [Conns -> SubStates] /\ sub'[k] = new /\ \A c \in Conns : c # k => sub'[c] = sub[c]
      BY <1>5, <3>3, <3>4, OneMoves
    <3> QED BY <3>3, <3>5, <2>a
  <2>2. CASE ~ (n <= top)
    <3>1. sub' = [sub EXCEPT ![k] = [sub[k] EXCEPT !.st = "top", !.ch = rest, !.last = n]]
      BY <2>2, <1>1, <1>2, <1>3, <1>6 DEF Receive
    <3>2. PICK new : new = [old EXCEPT !.st = "top", !.ch = rest, !.last = n]
      OBVIOUS
    <3>3. new \in SubStates /\ new.ch = rest /\ new.shut = old.shut /\ new.lagged = old.lagged
      BY <3>2, <2>a, <2>b, SubReads
    <3>4. sub' = [sub EXCEPT ![k] = new]
      BY <3>1, <3>2, <2>a
    <3>5. sub' \in [Conns -> SubStates] /\ sub'[k] = new /\ \A c \in Conns : c # k => sub'[c] = sub[c]
      BY <1>5, <3>3, <3>4, OneMoves
    <3> QED BY <3>3, <3>5, <2>a
  <2> QED BY <2>1, <2>2
<1>10. \A m \in Nat, c \in Conns : Owed(m, c)' <=> Owed(m, c)
  BY <1>4 DEF Owed
\* What is ahead of the tab after the step was so before it, and is not the event taken.
<1>11. ASSUME NEW m \in Relevant, m > top, m # n, \A x \in Nat : Accounted(x) => Accounted(x)' PROVE Ahead(m, k)'
  <2>1. Ahead(m, k) /\ m \in Nat
    BY <1>2, <1>4, <1>8, <1>11 DEF WayInv
  <2>2. \/ sub'[k].shut \/ sub'[k].lagged \/ Accounted(m)'
        \/ m \in ToSet(rest) \/ Owed(m, k)'
    BY <2>1, <1>1, <1>7, <1>9, <1>10, <1>11
  <2>3. ASSUME NEW j \in DOMAIN rest, m < rest[j]
        PROVE  \/ sub'[k].lagged \/ Accounted(m)'
               \/ \E i \in DOMAIN rest : i < j /\ rest[i] = m
    <3>1. j \in 1 .. Len(rest) /\ DOMAIN ch = 1 .. Len(ch) /\ DOMAIN rest = 1 .. Len(rest)
      BY <1>5, <1>6
    <3>2. j + 1 \in DOMAIN ch /\ ch[j + 1] = rest[j]
      BY <3>1, <1>6
    <3>3. \/ sub[k].lagged \/ Accounted(m)
          \/ \E i \in DOMAIN ch : i < j + 1 /\ ch[i] = m
      BY <3>2, <2>1, <2>3, <1>1
    <3>4. ASSUME NEW i \in DOMAIN ch, i < j + 1, ch[i] = m PROVE \E q \in DOMAIN rest : q < j /\ rest[q] = m
      <4>1. i # 1
        BY <3>4, <1>3, <1>11
      <4>2. i - 1 \in 1 .. Len(rest) /\ (i - 1) + 1 = i /\ i - 1 < j
        BY <4>1, <3>1, <3>4, <1>6
      <4>3. rest[i - 1] = m
        BY <4>2, <3>4, <1>6
      <4> QED BY <4>2, <4>3, <3>1
    <3> QED BY <3>3, <3>4, <2>1, <1>9, <1>11
  <2> QED BY <2>2, <2>3, <1>9
<1>12. \A c \in Conns : \A m \in ToSet(sub'[c].ch) : m <= seq'
  <2>1. \A c \in Conns : \A m \in ToSet(sub[c].ch) : m <= seq
    BY DEF TabInv
  <2>2. \A m \in ToSet(rest) : m <= seq
    BY <2>1, <1>1, <1>7
  <2> QED BY <2>1, <2>2, <1>4, <1>9
<1>13. RingInv' \/ ~ (tab.top > 0 => tab'.top > 0)
  BY <1>4, UnderStays DEF RingInv, ToSet
<1>14. CASE n <= top
  <2>1. sub'[k].last = top /\ UNCHANGED <<tab, told, overtaken>>
    BY <1>14, <1>1, <1>2, <1>3, <1>5, <1>9 DEF Receive
  <2>2. StreamTypes'
    BY <2>1, <1>4, <1>9 DEF StreamTypes
  <2>3. TabInv'
    BY <2>1, <1>2, <1>4, <1>9, <1>12 DEF TabInv, ToSet
  <2>4. \A m \in Nat : Accounted(m)' <=> Accounted(m)
    BY <2>1, <1>4 DEF Accounted
  <2>5. \A m \in Relevant' : m <= tab'.top => Accounted(m)'
    BY <2>1, <2>4, <1>8 DEF WayInv
  <2>6. ASSUME NEW m \in Relevant', m > tab'.top PROVE Ahead(m, k)'
    <3>1. m \in Relevant /\ m \in Nat
      BY <1>8
    <3>2. tab' = tab /\ tab.top = top
      BY <2>1, <1>2
    <3>3. m > top
      BY <3>2, <2>6
    <3>4. m # n
      BY <3>1, <3>3, <1>2, <1>14
    <3> QED BY <3>1, <3>3, <3>4, <2>4, <1>11
  <2>7. WayInv'
    BY <2>5, <2>6, <1>4 DEF WayInv
  <2> QED BY <2>1, <2>2, <2>3, <2>7, <1>13
<1>15. CASE ~ (n <= top)
  <2>1. PICK seen, got : tab = [seen |-> seen, top |-> top, got |-> got] /\ seen \subseteq Nat /\ got \subseteq {0} \X Nat
    BY <1>2 DEF StreamTypes
  <2>2. PICK late : late = IF sub[k].lagged THEN {<<0, m>> : m \in top + 1 .. n - 1} ELSE {}
    OBVIOUS
  <2>3. sub'[k].last = n /\ overtaken' = overtaken \cup late
    BY <2>2, <1>15, <1>1, <1>2, <1>3, <1>5 DEF Receive
  <2>4. LastOf({n}, top) = n
    <3>1. {n} \in SUBSET (0 .. n) /\ top \in 0 .. n /\ n \in Nat
      BY <1>15
    <3>2. LastOf({n}, top) \in {n, top} /\ n <= LastOf({n}, top)
      BY <3>1, LastOfIs
    <3> QED BY <3>2, <1>15
  <2>5. told' = told /\ tab' = [seen |-> seen \cup {n}, top |-> n, got |-> got \cup {<<0, x>> : x \in {n} \ seen}]
    <3>1. Write(k, {}, {n})
      BY <1>15, <1>1, <1>2, <1>3 DEF Receive
    <3>2. /\ told' = told \cup {<<boot, x>> : x \in {}}
          /\ tab' = [seen |-> tab.seen \cup {n}, top |-> LastOf({n}, tab.top),
                     got |-> tab.got \cup {<<boot, x>> : x \in {n} \ tab.seen}]
      BY <3>1, <1>4 DEF Write
    <3> QED BY <3>2, <2>1, <2>4, <1>5
  <2>6. late \subseteq {0} \X Nat
    BY <2>2, <1>2, <1>3
  <2>7. tab' \in Tabs
    <3>1. seen \cup {n} \subseteq Nat
      BY <2>1, <1>3
    <3>2. {<<0, x>> : x \in {n} \ seen} \subseteq {0} \X Nat
      BY <1>3
    <3>3. got \cup {<<0, x>> : x \in {n} \ seen} \subseteq {0} \X Nat
      BY <3>2, <2>1
    <3> QED BY <3>1, <3>3, <2>5
  <2>8. StreamTypes'
    BY <2>3, <2>5, <2>6, <2>7, <1>4, <1>9 DEF StreamTypes
  <2>9. n <= seq
    BY <1>1, <1>3 DEF TabInv
  <2>10. \A x \in seen \cup {n} : <<0, x>> \in got \cup {<<0, y>> : y \in {n} \ seen}
    BY <2>1 DEF TabInv
  <2>11. tab'.top = n /\ \A x \in tab'.seen : <<0, x>> \in tab'.got
    BY <2>5, <2>10
  <2>12. TabInv'
    <3>1. \A c \in Conns : cur' = c => sub'[c].last = tab'.top /\ (c \in subs' \/ sub'[c].shut)
      BY <2>3, <2>11, <1>4, <1>9 DEF TabInv
    <3> QED BY <3>1, <2>9, <2>11, <1>4, <1>12 DEF TabInv, ToSet
  <2>13. \A x \in Nat : Accounted(x) => Accounted(x)'
    BY <2>1, <2>3, <2>5, <1>4 DEF Accounted
  <2>14. Accounted(n)'
    <3>1. n \in tab'.seen
      BY <2>5
    <3> QED BY <3>1, <2>11, <1>4, <1>5 DEF Accounted
  <2>15. ASSUME NEW m \in Relevant', m <= n PROVE Accounted(m)'
    <3>1. m \in Relevant /\ m \in Nat
      BY <1>8
    <3>2. CASE m <= top
      BY <3>1, <3>2, <2>13, <1>2 DEF WayInv
    <3>3. CASE m > top /\ m < n
      <4>1. Ahead(m, k)
        BY <3>1, <3>3, <1>2, <1>4 DEF WayInv
      <4>2. \A i \in DOMAIN ch : ~ (i < 1)
        BY <1>5
      <4>3. sub[k].lagged \/ Accounted(m)
        BY <4>1, <4>2, <3>3, <1>1, <1>3
      <4>4. sub[k].lagged => <<0, m>> \in overtaken'
        BY <3>1, <3>3, <2>2, <2>3
      <4>5. sub[k].lagged => Accounted(m)'
        BY <4>4, <1>4, <1>5 DEF Accounted
      <4> QED BY <4>3, <4>5, <3>1, <2>13
    <3>4. m <= top \/ (m > top /\ m < n) \/ m = n
      BY <3>1, <2>15
    <3> QED BY <3>2, <3>3, <3>4, <2>14
  <2>16. ASSUME NEW m \in Relevant', m > n PROVE Ahead(m, k)'
    <3>1. m \in Relevant /\ m \in Nat /\ m > top /\ m # n
      BY <2>16, <1>8, <1>15
    <3> QED BY <3>1, <2>13, <1>11
  <2>17. WayInv'
    BY <2>11, <2>15, <2>16, <1>4 DEF WayInv
  <2>18. tab.top > 0 => tab'.top > 0
    BY <2>11, <1>2, <1>15
  <2> QED BY <2>8, <2>12, <2>17, <2>18, <1>13
<1> QED BY <1>14, <1>15

-----------------------------------------------------------------------------
LEMMA StreamStep == StreamInv /\ [StreamNext]_streamVars => StreamInv'
<1> SUFFICES ASSUME StreamInv, [StreamNext]_streamVars PROVE StreamInv'
  OBVIOUS
<1>1. ASSUME UNCHANGED streamVars PROVE StreamInv'
  <2>1. /\ UNCHANGED <<ring, seq, sending, boot, tab, told, unseen, overtaken>>
        /\ cur' = cur /\ sub' = sub /\ subs' = subs /\ closed' = closed /\ crashed' = crashed
    BY <1>1 DEF streamVars, serverVars, tabVars
  <2>2. StreamTypes'
    BY <2>1 DEF StreamInv, StreamTypes
  <2> QED BY <2>1, <2>2, QuietKeeps
<1>2. ASSUME NEW e \in Emitters, Emit(e) PROVE StreamInv'
  BY <1>2, EmitKeeps
<1>3. ASSUME NEW e \in Emitters, NEW k \in Conns, Send(e, k) PROVE StreamInv'
  BY <1>3, SendKeeps
<1>4. ASSUME NEW e \in Emitters, NEW k \in Conns, Flag(e, k) PROVE StreamInv'
  BY <1>4, FlagKeeps
<1>5. ASSUME NEW k \in Conns, Connect(k) \/ Look(k) \/ Receive(k) PROVE StreamInv'
  BY <1>5, ConnectKeeps, LookKeeps, ReceiveKeeps
<1>6. ASSUME NEW k \in Conns, Heartbeat(k) \/ Leave(k) PROVE StreamInv'
  BY <1>6, HeartbeatKeeps, LeaveKeeps
<1>7. ASSUME Cut \/ Shutdown PROVE StreamInv'
  BY <1>7, CutKeeps, ShutdownKeeps
<1> QED BY <1>1, <1>2, <1>3, <1>4, <1>5, <1>6, <1>7 DEF StreamNext

LEMMA StreamAlways == StreamSpec => []StreamInv
<1> QED BY StreamStarts, StreamStep, PTL DEF StreamSpec

\* Once settled, there is nothing ahead of the tab, and what it is past it knows of.
LEMMA SettledKnows == ASSUME StreamInv, Settled, NEW n \in Relevant PROVE Accounted(n)
<1>1. cur \in Conns /\ sub[cur].ch = <<>> /\ ~ sub[cur].lagged /\ ~ sub[cur].shut
  BY DEF Settled, StreamInv, StreamTypes
<1>2. \A e \in Emitters : sending[e].left \cup sending[e].full = {}
  BY DEF Settled, Free, Idle
<1>3. n \in Nat /\ tab.top \in Nat
  BY DEF StreamInv, StreamTypes, Relevant, Under, RolledOut, ToSet
<1>4. CASE n <= tab.top
  BY <1>4 DEF StreamInv, WayInv
<1>5. CASE n > tab.top
  <2>1. Ahead(n, cur)
    BY <1>1, <1>5 DEF StreamInv, WayInv
  <2>2. n \notin ToSet(sub[cur].ch) /\ ~ Owed(n, cur)
    BY <1>1, <1>2 DEF ToSet, Owed
  <2> QED BY <2>1, <2>2, <1>1 DEF Ahead
<1> QED BY <1>3, <1>4, <1>5

\* server.go:272 "never drop silently": for any number of emitters and
\* connections, sizes of the ring and of the channels and choice of which events are
\* token deltas, a settled tab has rendered, or was told it missed, or saw overtaken
\* every event the ring still holds.
THEOREM TheRingIsRendered == StreamSpec => []RingIsRendered
<1>1. StreamInv => RingIsRendered
  <2> SUFFICES ASSUME StreamInv, Settled, NEW i \in DOMAIN ring PROVE Accounted(ring[i])
    BY DEF RingIsRendered
  <2>1. ring[i] \in Relevant
    BY DEF Relevant, ToSet
  <2> QED BY <2>1, SettledKnows
<1> QED BY <1>1, StreamAlways, PTL

\* server.go:2086-2089: a structural event that rolled out of the ring was rendered or
\* announced by a gap frame, except for two that are lost in silence: one that left while
\* the tab had seen nothing (server.go:2231) and one that a concurrent emit overtook.
THEOREM WhatRolledPastIsTold == StreamSpec => []RolledPastIsTold
<1>1. StreamInv => RolledPastIsTold
  <2> SUFFICES ASSUME StreamInv, Settled, NEW n \in RolledOut, <<boot, n>> \notin unseen
               PROVE  Accounted(n)
    BY DEF RolledPastIsTold
  <2>1. n \in Relevant
    BY DEF Relevant, Under, StreamInv, StreamTypes
  <2> QED BY <2>1, SettledKnows
<1> QED BY <1>1, StreamAlways, PTL
=============================================================================

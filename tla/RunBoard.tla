----------------------------- MODULE RunBoard ------------------------------
(***************************************************************************)
(* pkg/loop: the wave scheduler.  Runner.RunBoard takes the board from the *)
(* live store, settles it, picks a wave of ready tasks that share no file, *)
(* runs one worker per task, reviews what they finished, and repeats until *)
(* one of its bounds or the board itself says stop.                        *)
(*                                                                         *)
(* The runner works on its own board and writes it back whole (persist =   *)
(* LiveStore.Replace).  Replace keeps the caller's slice, so from then on  *)
(* the store's memory IS the runner's board (`shared`), until the runner   *)
(* takes a snapshot or Studio reads the board.json back; `store` is the    *)
(* file.  Studio's handlers run at any moment.  A task keeps what          *)
(* scheduling reads: column, whether Error is set, and GateRetries.  Model *)
(* calls are choices over their outcomes; time is the run's runway and its *)
(* cancellation.                                                           *)
(***************************************************************************)
EXTENDS BoardDeps
LOCAL INSTANCE SequencesExt

CONSTANTS
  Deps,           \* [Tasks -> SUBSET Tasks]: depends_on
  Files,          \* [Tasks -> SUBSET Seq(names)]: declared files, as path components
  Prio,           \* [Tasks -> Nat]: taskPriority, smaller goes first
  Planned,        \* [Tasks -> Columns]: the board handed to the run
  MaxParallel,    \* max_parallel as configured, 0 meaning one at a time
  MaxAttempts,    \* DefaultMaxTaskAttempts
  MaxGateRetries, \* DefaultMaxGateRetries
  MaxRetries,     \* review-and-correct rounds after the first
  MaxStall,       \* DefaultMaxStallRounds
  MaxIdle,        \* 30, the idle rounds before ErrIdleTimeout
  MaxHumanIdle,   \* 3, the idle rounds before ErrHumanBacklog
  GuardFloor, GuardCeiling, \* boardRoundFloor, boardRoundCeiling
  Coordinator,    \* BOOLEAN: the coordinator answers after waves
  MaxEdits        \* bound of the model: edits people make during one run

ASSUME DepsType == Deps \in [Tasks -> SUBSET Tasks]
ASSUME PrioType == Prio \in [Tasks -> Nat]
ASSUME PlannedType == Planned \in [Tasks -> Columns]
ASSUME BoundsAreNat ==
  /\ MaxParallel \in Nat /\ MaxAttempts \in Nat /\ MaxGateRetries \in Nat
  /\ MaxRetries \in Nat /\ MaxStall \in Nat /\ MaxIdle \in Nat /\ MaxHumanIdle \in Nat
  /\ GuardFloor \in Nat /\ GuardCeiling \in Nat /\ MaxEdits \in Nat
ASSUME CoordinatorType == Coordinator \in BOOLEAN

Task == [col : Columns, err : BOOLEAN, gate : 0 .. MaxGateRetries]

Results == {"running", "drained", "canceled", "safety_guard", "idle_timeout",
            "human_backlog", "no_progress", "out_of_runway", "objective_met"}

VARIABLES
  board,    \* the runner's board
  store,    \* board.json
  shared,   \* the live store's memory is the runner's board, else it is `store`
  pc,       \* "top", "prepare", "work", "critique", "review", "after" or "returned"
  result,   \* why RunBoard returned
  attempts, \* waveAttempts
  wave,     \* the tasks of the current wave
  skipped,  \* those whose worker is skipped: already satisfied on disk
  ladder,   \* ladder[t]: "out", "weak", "look", "judge", "judged", "asking"
  tries,    \* correction rounds spent on t in this wave
  verdict,  \* the task a ladder ended with, and whether it escalated
  fanout,   \* this wave reviews its tasks in parallel
  canceled, \* a call of this wave was canceled
  guard, idle, stall,  \* the round counters
  before, lastSig,     \* progress signatures
  live, runway,        \* the run's context, and time beyond the finish reserve
  edits,               \* edits made so far
  touched              \* tasks edited since the reload

runnerVars == <<board, pc, result, attempts, wave, skipped, ladder, tries, verdict,
                fanout, canceled, guard, idle, stall, before, lastSig>>
envVars == <<live, runway, edits>>
storeVars == <<store, shared, touched>>
vars == <<runnerVars, storeVars, envVars>>

-----------------------------------------------------------------------------
\* Operators on boards.

Cols(b) == [t \in Tasks |-> b[t].col]
\* progressSignature: what it reads of a task besides the data abstracted here.
Sig(b) == [t \in Tasks |-> <<b[t].col, b[t].gate>>]

Width == IF MaxParallel < 1 THEN 1 ELSE MaxParallel

\* Mutant of RoundGuard: the allowance does not grow with the board.
RoundGuardFlat(b) ==
  LET g == GuardFloor + MaxAttempts + 2
  IN IF g > GuardCeiling THEN GuardCeiling ELSE g

\* roundGuard.
RoundGuard(b) ==
  LET n == Cardinality(OnBoard(Cols(b)))
      g == GuardFloor + n * (MaxAttempts + 2)
  IN IF g > GuardCeiling THEN GuardCeiling ELSE g

\* pathsCollide on any two declared files: the same, or one holds the other.
Collide(t, u) == \E f \in Files[t], g \in Files[u] : IsPrefix(f, g) \/ IsPrefix(g, f)

\* preferFreshWork after scheduleReady: attempts first, then priority.  Boards
\* come back from MergeFromDisk in map order, so ties fall either way.
Before(t, u) ==
  \/ attempts[t] < attempts[u]
  \/ attempts[t] = attempts[u] /\ Prio[t] < Prio[u]
Orders(S) ==
  {o \in [1 .. Cardinality(S) -> S] :
     /\ \A t \in S : \E i \in DOMAIN o : o[i] = t
     /\ \A i, j \in DOMAIN o : i < j => ~ Before(o[j], o[i])}

\* Mutant of Admissible: the first tasks down the order, whatever they claim.
AdmissibleAny(S) ==
  {W \in SUBSET S : \E o \in Orders(S) : \A i \in DOMAIN o : o[i] \in W <=> i <= Width}

\* admitDisjoint: down the order, a task is admitted when there is room and it
\* collides with none admitted before it.
Admissible(S) ==
  {W \in SUBSET S : \E o \in Orders(S) : \A i \in DOMAIN o :
     LET earlier == {o[j] : j \in 1 .. i - 1} \cap W
     IN o[i] \in W <=> /\ Cardinality(earlier) < Width
                       /\ \A u \in earlier : ~ Collide(o[i], u)}

-----------------------------------------------------------------------------
NoTask == [col |-> "absent", err |-> FALSE, gate |-> 0]
NoVerdict == [task |-> NoTask, esc |-> FALSE]

TypeOK ==
  /\ board \in [Tasks -> Task] /\ store \in [Tasks -> Task]
  /\ shared \in BOOLEAN
  /\ pc \in {"top", "prepare", "work", "critique", "review", "after", "returned"}
  /\ result \in Results
  /\ attempts \in [Tasks -> 0 .. MaxAttempts + 1]
  /\ wave \subseteq Tasks /\ skipped \subseteq wave
  /\ ladder \in [Tasks -> {"out", "weak", "look", "judge", "judged", "asking"}]
  /\ tries \in [Tasks -> 0 .. MaxRetries]
  /\ verdict \in [Tasks -> [task : Task, esc : BOOLEAN]]
  /\ fanout \in BOOLEAN /\ canceled \in BOOLEAN
  /\ guard \in Nat /\ idle \in Nat /\ stall \in Nat
  /\ before \in [Tasks -> Columns \X (0 .. MaxGateRetries)]
  /\ lastSig \in [Tasks -> Columns \X (0 .. MaxGateRetries)]
  /\ live \in BOOLEAN /\ runway \in BOOLEAN
  /\ edits \in 0 .. MaxEdits
  /\ touched \subseteq Tasks

Init ==
  /\ board = [t \in Tasks |-> [col |-> Planned[t], err |-> FALSE, gate |-> 0]]
  /\ store = board /\ shared = FALSE
  /\ pc = "top" /\ result = "running"
  /\ attempts = [t \in Tasks |-> 0]
  /\ wave = {} /\ skipped = {}
  /\ ladder = [t \in Tasks |-> "out"]
  /\ tries = [t \in Tasks |-> 0]
  /\ verdict = [t \in Tasks |-> NoVerdict]
  /\ fanout = FALSE /\ canceled = FALSE
  /\ guard = 0 /\ idle = 0 /\ stall = 0
  /\ before = [t \in Tasks |-> <<"absent", 0>>]
  /\ lastSig = [t \in Tasks |-> <<"absent", 0>>]
  /\ live = TRUE /\ runway = TRUE
  /\ edits = 0 /\ touched = {}

waveVars == <<wave, skipped, ladder, tries, verdict, fanout, canceled>>
sigVars == <<stall, before, lastSig>>

\* persist: the whole board replaces the store's, whatever the store held, and
\* the store keeps the runner's slice.
Persist(b) == store' = b /\ shared' = TRUE /\ UNCHANGED touched

\* The reload at the top: MergeFromDisk, then a Snapshot, which is a copy.
Reload(b) == board' = b /\ shared' = FALSE /\ touched' = {} /\ UNCHANGED store

Return(why) == pc' = "returned" /\ result' = why

-----------------------------------------------------------------------------
\* The top of the loop.  Everything down to the wave is one step: nothing else
\* changes the runner's copy, and an edit that lands between the reload and the
\* first write of the round is one that lands during the wave.

ReturnCanceled ==
  /\ pc = "top" /\ ~ live
  /\ Return("canceled")
  /\ UNCHANGED <<board, storeVars, attempts, waveVars, guard, idle, sigVars, envVars>>

ReturnGuard ==
  /\ pc = "top" /\ live
  /\ guard + 1 > RoundGuard(board)
  /\ guard' = guard + 1
  /\ Return("safety_guard")
  /\ UNCHANGED <<board, storeVars, attempts, waveVars, idle, sigVars, envVars>>

\* Mutant of RoundStarts: rounds are not counted.
RoundStartsUncounted ==
  /\ pc = "top" /\ live
  /\ guard + 1 <= RoundGuard(board)
  /\ UNCHANGED guard

\* The round that begins below the guard.
RoundStarts ==
  /\ pc = "top" /\ live
  /\ guard + 1 <= RoundGuard(board)
  /\ guard' = guard + 1

ReturnOutOfRunway ==
  /\ RoundStarts
  /\ ~ runway
  /\ Reload(store)
  /\ Return("out_of_runway")
  /\ UNCHANGED <<attempts, waveVars, idle, sigVars, envVars>>

\* Mutant of Settled: readiness is computed without settling the board first.
SettledNot(b) == b

\* The board ReadyTasks leaves: newly blocked tasks carry the reason in Error.
Settled(b) ==
  LET c == PropagateBlocked(Cols(b), Deps)
  IN [t \in Tasks |-> IF c[t] = b[t].col THEN b[t]
                      ELSE [b[t] EXCEPT !.col = c[t], !.err = TRUE]]
Ready(b) == Executable(Cols(b), Deps)

\* Mutant of Orphans: a task left in review is taken for work in progress.
OrphansInProgress(b) == {t \in Tasks : b[t].col = "in_progress"}

\* What reclaimOrphaned looks for.
Orphans(b) == {t \in Tasks : b[t].col \in InFlightCols}

\* A persist in the round that has just reloaded.
PersistReloaded == store' = board' /\ shared' = TRUE /\ touched' = {}

NothingReady == RoundStarts /\ runway /\ Ready(Settled(store)) = {}

\* reclaimOrphaned: runWave is synchronous, so nothing is really in flight.
Reclaim ==
  /\ NothingReady
  /\ LET b == Settled(store) IN
       /\ Orphans(b) # {}
       /\ board' = [t \in Tasks |-> IF t \in Orphans(b)
                                    THEN [b[t] EXCEPT !.col = "ready_to_dev"] ELSE b[t]]
  /\ PersistReloaded
  /\ UNCHANGED <<pc, result, attempts, waveVars, idle, sigVars, envVars>>

\* Agent work nobody can run and no human backlog: idle, then give up.
IdleForAgents ==
  /\ NothingReady
  /\ LET b == Settled(store) IN
       /\ AgentWorkRemaining(Cols(b)) /\ ~ HumanBacklogRemaining(Cols(b))
       /\ Orphans(b) = {}
       /\ Reload(b)
  /\ idle' = idle + 1
  /\ IF idle + 1 > MaxIdle THEN Return("idle_timeout") ELSE UNCHANGED <<pc, result>>
  /\ UNCHANGED <<attempts, waveVars, sigVars, envVars>>

\* Tasks wait for a person: a few rounds, then hand the board back.
IdleForHumans ==
  /\ NothingReady
  /\ LET b == Settled(store) IN
       /\ HumanBacklogRemaining(Cols(b))
       /\ Orphans(b) = {}
       /\ Reload(b)
  /\ idle' = idle + 1
  /\ IF idle + 1 > MaxHumanIdle THEN Return("human_backlog") ELSE UNCHANGED <<pc, result>>
  /\ UNCHANGED <<attempts, waveVars, sigVars, envVars>>

ReturnDrained ==
  /\ NothingReady
  /\ LET b == Settled(store) IN
       /\ ~ AgentWorkRemaining(Cols(b)) /\ ~ HumanBacklogRemaining(Cols(b))
       /\ Reload(b)
  /\ Return("drained")
  /\ UNCHANGED <<attempts, waveVars, idle, sigVars, envVars>>

\* Mutant of Parked: the ceiling is compared one too late.
ParkedLate(W) == {t \in W : attempts[t] > MaxAttempts}

\* admitWave: the tasks of W that have spent their attempts.
Parked(W) == {t \in W : attempts[t] + 1 > MaxAttempts}

\* Pick a wave, park what has spent its attempts, start the rest.
Schedule(W, skip) ==
  /\ RoundStarts /\ runway
  /\ LET b == Settled(store)
         parked == Parked(W)
         go == W \ parked
         ready == [t \in Tasks |-> IF t \in parked
                                   THEN [b[t] EXCEPT !.col = "to_scope", !.err = TRUE]
                                   ELSE b[t]]
     IN
       /\ W # {} /\ W \in Admissible(Ready(b))
       /\ skip \subseteq go
       /\ attempts' = [t \in Tasks |-> IF t \notin W THEN attempts[t]
                                       ELSE IF t \in parked THEN MaxAttempts + 1
                                       ELSE attempts[t] + 1]
       /\ IF go = {}
          THEN /\ board' = ready
               /\ UNCHANGED <<pc, waveVars, before>>
          ELSE /\ before' = Sig(ready)
               /\ board' = [t \in Tasks |-> IF t \in go
                                            THEN [ready[t] EXCEPT !.col = "in_progress"]
                                            ELSE ready[t]]
               /\ pc' = "prepare"
               /\ wave' = go /\ skipped' = skip
               /\ ladder' = [t \in Tasks |-> IF t \in skip THEN "look" ELSE "out"]
               /\ fanout' = FALSE /\ canceled' = FALSE
               /\ UNCHANGED <<tries, verdict>>
       /\ PersistReloaded
  /\ idle' = 0
  /\ UNCHANGED <<result, stall, lastSig, envVars>>

-----------------------------------------------------------------------------
\* The review-and-correct ladder, one step per place where it meets the rest
\* of the system.  In parallel review the ladders interleave; otherwise one
\* runs from its first look to its last answer before the next one starts.

Reviewing == pc \in {"prepare", "review"}
Started(t) == ladder[t] \in {"judge", "judged", "asking"} \/ (ladder[t] = "look" /\ tries[t] > 0)
MayAct(t) == Reviewing /\ (fanout \/ \A u \in Tasks \ {t} : ~ Started(u))

\* Columns in which reviewAndCorrectTask finds that a person took the task away.
TakenAway == Human \cup {"done", "blocked"}

\* MergeFromDisk before a ladder's look: the file wins over the memory, so a
\* board that is shared goes back to what was last written.  (A task whose
\* worker was skipped is moved to in_review just before.)
Merge(t) ==
  board' = IF shared THEN store
           ELSE [board EXCEPT ![t].col = IF pc = "prepare" THEN "in_review" ELSE @]

\* The head of an attempt: reload the task from the store.
Look(t) ==
  /\ MayAct(t) /\ ladder[t] = "look"
  /\ Merge(t)
  /\ IF store[t].col \in TakenAway
     THEN /\ ladder' = [ladder EXCEPT ![t] = "judged"]
          /\ verdict' = [verdict EXCEPT ![t] = [task |-> store[t], esc |-> FALSE]]
     ELSE /\ ladder' = [ladder EXCEPT ![t] = "judge"]
          /\ UNCHANGED verdict
  /\ UNCHANGED <<store, shared, touched, pc, result, attempts, wave, skipped, tries, fanout,
                 canceled, guard, idle, sigVars, envVars>>

End(t, col, err, esc) ==
  /\ ladder' = [ladder EXCEPT ![t] = "judged"]
  /\ verdict' = [verdict EXCEPT ![t] =
       [task |-> [col |-> col, err |-> err, gate |-> board[t].gate], esc |-> esc]]
  /\ UNCHANGED tries

\* The rest of the attempt: the verdict, and after a rejection the corrector.
Judge(t) ==
  /\ MayAct(t) /\ ladder[t] = "judge"
  /\ \/ End(t, "done", FALSE, FALSE) /\ UNCHANGED canceled          \* approved
     \/ End(t, "to_scope", TRUE, TRUE) /\ UNCHANGED canceled        \* escalateTask
     \/ /\ \/ End(t, "to_scope", TRUE, FALSE)       \* escalateReviewerUnavailable
           \/ End(t, "blocked", TRUE, FALSE)        \* the corrector failed
        /\ canceled' \in {canceled, canceled \/ (~ live /\ pc = "review" /\ ~ fanout)}
     \/ /\ tries[t] < MaxRetries                    \* corrected, look again
        /\ tries' = [tries EXCEPT ![t] = @ + 1]
        /\ ladder' = [ladder EXCEPT ![t] = "look"]
        /\ UNCHANGED <<verdict, canceled>>
  /\ UNCHANGED <<board, storeVars, pc, result, attempts, wave, skipped, fanout,
                 guard, idle, sigVars, envVars>>

\* reviewAndCorrect, sequential: write the verdict, or hand the task over.
Conclude(t) ==
  /\ MayAct(t) /\ ~ fanout /\ ladder[t] = "judged"
  /\ \/ /\ board' = [board EXCEPT ![t] = verdict[t].task]
        /\ ladder' = [ladder EXCEPT ![t] = IF verdict[t].esc THEN "asking" ELSE "out"]
     \/ /\ verdict[t].esc                           \* reassignFailedTask
        /\ board' = [board EXCEPT ![t] = [verdict[t].task EXCEPT !.col = "ready_to_dev",
                                                                !.err = FALSE]]
        /\ ladder' = [ladder EXCEPT ![t] = "out"]
  /\ Persist(board')
  /\ verdict' = [verdict EXCEPT ![t] = NoVerdict]
  /\ tries' = [tries EXCEPT ![t] = 0]
  /\ UNCHANGED <<pc, result, attempts, wave, skipped, fanout, canceled,
                 guard, idle, sigVars, envVars>>

\* reviewWave's single-threaded apply, once every group has come back.
ConcludeAll ==
  /\ Reviewing /\ fanout
  /\ LET in == {t \in Tasks : ladder[t] # "out"} IN
       /\ in # {} /\ \A t \in in : ladder[t] = "judged"
       /\ board' = [t \in Tasks |-> IF t \in in THEN verdict[t].task ELSE board[t]]
       /\ ladder' = [t \in Tasks |-> IF t \in in /\ verdict[t].esc THEN "asking" ELSE "out"]
       /\ verdict' = [t \in Tasks |-> NoVerdict]
       /\ tries' = [t \in Tasks |-> 0]
  /\ Persist(board')
  /\ UNCHANGED <<pc, result, attempts, wave, skipped, fanout, canceled,
                 guard, idle, sigVars, envVars>>

\* ApplyEscalateActionCapped grants a retry only under the cap.
Granted(t) == board[t].gate < MaxGateRetries

\* OnEscalate: a person, the timeout arbitrator or the headless default answers.
Answer(t) ==
  /\ Reviewing /\ ladder[t] = "asking"
  /\ board' \in {[board EXCEPT ![t] = x] : x \in
       {[board[t] EXCEPT !.col = "to_scope"],
        [board[t] EXCEPT !.col = "done", !.err = FALSE],
        [board[t] EXCEPT !.col = "blocked", !.err = TRUE]}
       \cup IF Granted(t)
            THEN {[board[t] EXCEPT !.col = "ready_to_dev", !.err = FALSE, !.gate = @ + 1]}
            ELSE {}}
  /\ Persist(board')
  /\ ladder' = [ladder EXCEPT ![t] = "out"]
  /\ UNCHANGED <<pc, result, attempts, wave, skipped, tries, verdict, fanout, canceled,
                 guard, idle, sigVars, envVars>>

LaddersOut == \A t \in Tasks : ladder[t] = "out"

-----------------------------------------------------------------------------
\* The wave: skipped tasks are reviewed first, then the workers run, then what
\* they finished is reviewed.

EndPrepare ==
  /\ pc = "prepare" /\ LaddersOut
  /\ IF wave = skipped THEN pc' = "after" /\ Persist(board)
     ELSE pc' = "work" /\ UNCHANGED storeVars
  /\ UNCHANGED <<board, result, attempts, waveVars, guard, idle, sigVars, envVars>>

\* Mutant of AfterTimeout: a task that is queued again keeps its Error.
AfterTimeoutKeepsError(t) ==
  IF attempts[t] < MaxAttempts /\ runway
  THEN [board[t] EXCEPT !.col = "ready_to_dev", !.err = TRUE]
  ELSE [board[t] EXCEPT !.col = "to_scope", !.err = TRUE]

\* Mutant of Delivered: the worker's own "done" is believed.
DeliveredTrusted(t) == [board[t] EXCEPT !.col = "done"]

\* What collectWaveResults makes of a worker that answered.
Delivered(t) == [board[t] EXCEPT !.col = "in_review"]

\* handleTaskTimeout: resume on the next wave, or park at the ceiling.
AfterTimeout(t) ==
  IF attempts[t] < MaxAttempts /\ runway
  THEN [board[t] EXCEPT !.col = "ready_to_dev", !.err = FALSE]
  ELSE [board[t] EXCEPT !.col = "to_scope", !.err = TRUE]

\* Every worker has returned; their results are folded into the board.  Weak
\* results wait for a self-critique before they count as delivered.
Collect(ok, weak, late, cut, failed) ==
  /\ pc = "work"
  /\ board' = [t \in Tasks |->
       CASE t \in ok -> Delivered(t)
         [] t \in late -> AfterTimeout(t)
         [] t \in cut \cup failed -> [board[t] EXCEPT !.col = "blocked", !.err = TRUE]
         [] OTHER -> board[t]]
  /\ ladder' = [t \in Tasks |-> IF t \in weak THEN "weak" ELSE "out"]
  /\ canceled' = (cut # {})
  /\ Persist(board')
  /\ pc' = "critique"
  /\ UNCHANGED <<result, attempts, wave, skipped, tries, verdict, fanout, guard, idle,
                 sigVars, envVars>>

Workers == wave \ skipped
CollectAny ==
  \E ok, weak, late, cut, failed \in SUBSET Workers :
    /\ ok \cup weak \cup late \cup cut \cup failed = Workers
    /\ Cardinality(ok) + Cardinality(weak) + Cardinality(late) + Cardinality(cut)
         + Cardinality(failed) = Cardinality(Workers)
    /\ Collect(ok, weak, late, cut, failed)

\* driveCritique, then driveReview's choice of what to review.  The orchestrator sets
\* ReviewParallel, the switch of the fan-out, for max_parallel >= 2 (orchestrator/runner.go:46).
StartReview ==
  /\ pc = "critique"
  /\ board' = [t \in Tasks |-> IF ladder[t] = "weak" THEN Delivered(t) ELSE board[t]]
  /\ LET todo == {t \in Workers : board'[t].col = "in_review" /\ ~ board'[t].err} IN
       /\ ladder' = [t \in Tasks |-> IF t \in todo THEN "look" ELSE "out"]
       /\ fanout' = (MaxParallel >= 2 /\ Cardinality(todo) > 1)
  /\ pc' = "review"
  /\ UNCHANGED <<storeVars, result, attempts, wave, skipped, tries, verdict, canceled,
                 guard, idle, sigVars, envVars>>

EndReview ==
  /\ pc = "review" /\ LaddersOut
  /\ IF canceled /\ ~ live THEN Return("canceled") ELSE pc' = "after" /\ UNCHANGED result
  /\ Persist(board)
  /\ UNCHANGED <<board, attempts, waveVars, guard, idle, sigVars, envVars>>

\* A task that reached done is forgiven its attempts.
Cleared(t) == t \in wave /\ board[t].col = "done"

\* After the wave: forgive, ask the coordinator, stop early, count stalls.
FinishRound(promoted, added, stop, quiet) ==
  /\ pc = "after"
  /\ attempts' = [t \in Tasks |-> IF Cleared(t) THEN 0 ELSE attempts[t]]
  /\ board' = [t \in Tasks |->
       CASE t \in promoted -> [board[t] EXCEPT !.col = "ready_to_dev"]
         [] t \in added -> [NoTask EXCEPT !.col = "ready_to_dev"]
         [] OTHER -> board[t]]
  /\ Persist(board')
  /\ wave' = {} /\ skipped' = {}
  /\ UNCHANGED <<ladder, tries, verdict, fanout, canceled>>
  /\ IF stop THEN Return("objective_met") /\ UNCHANGED sigVars
     ELSE LET still == /\ quiet
                       /\ Sig(board') \in {before, lastSig}
          IN /\ stall' = IF still THEN stall + 1 ELSE 0
             /\ IF still /\ stall + 1 >= MaxStall
                THEN Return("no_progress") /\ UNCHANGED <<before, lastSig>>
                ELSE /\ pc' = "top" /\ UNCHANGED <<result, before>>
                     /\ lastSig' = before
  /\ UNCHANGED <<guard, idle, envVars>>

\* What applyCoordinatorActions may do: promote any task, wherever it is, and
\* add tasks of its own (which depend on nothing).
FinishRoundAny ==
  \E promoted \in SUBSET OnBoard(Cols(board)), added \in SUBSET Tasks, stop, quiet \in BOOLEAN :
    /\ added \subseteq {t \in Tasks : board[t].col = "absent" /\ Deps[t] = {}}
    /\ ~ Coordinator => promoted = {} /\ added = {}
    /\ FinishRound(promoted, added, stop, quiet)

Runner ==
  \/ ReturnCanceled \/ ReturnGuard \/ ReturnOutOfRunway
  \/ Reclaim \/ IdleForAgents \/ IdleForHumans \/ ReturnDrained
  \/ \E W, skip \in SUBSET Tasks : Schedule(W, skip)
  \/ \E t \in Tasks : Look(t) \/ Judge(t) \/ Conclude(t) \/ Answer(t)
  \/ ConcludeAll
  \/ EndPrepare \/ CollectAny \/ StartReview \/ EndReview \/ FinishRoundAny

-----------------------------------------------------------------------------
\* People, through Studio, and the clock.

Mem == IF shared THEN board ELSE store

\* Mutant of Update: the write goes to a copy of the memory.
UpdateCopied(t, x) ==
  /\ store' = [Mem EXCEPT ![t] = x]
  /\ UNCHANGED <<board, shared>>

\* LiveStore.Update on task t: into the memory, then the whole memory to the
\* file.  The runner's board changes with it when it is that memory.
Update(t, x) ==
  /\ store' = [Mem EXCEPT ![t] = x]
  /\ board' = IF shared THEN store' ELSE board
  /\ UNCHANGED shared

\* The same on a memory that is no longer the runner's.
UpdateApart(mem, t, x) ==
  /\ store' = [mem EXCEPT ![t] = x] /\ shared' = FALSE
  /\ UNCHANGED board

Edit(t) ==
  /\ pc # "returned" /\ edits < MaxEdits
  /\ edits' = edits + 1
  /\ touched' = touched \cup {t}
  /\ UNCHANGED <<pc, result, attempts, waveVars, guard, idle, sigVars, live, runway>>

\* handlePatchTask: any column; Error stays.
Patch(t, c) == /\ Edit(t) /\ Mem[t].col \notin {"absent", c}
               /\ Update(t, [Mem[t] EXCEPT !.col = c])
\* handleRetryTask loads the file first.
Retry(t) == /\ Edit(t) /\ store[t].col # "absent"
            /\ UpdateApart(store, t, [store[t] EXCEPT !.col = "ready_to_dev", !.err = FALSE])
\* handleAddTask appends, to an array without spare room: the memory moves away.
Post(t, c) == /\ Edit(t) /\ Mem[t].col = "absent"
              /\ UpdateApart(Mem, t, [NoTask EXCEPT !.col = c])
\* handleDeleteTask, where the array it shifts is not the runner's.
Delete(t) == /\ Edit(t) /\ ~ shared /\ store[t].col # "absent"
             /\ UpdateApart(store, t, NoTask)

\* handleGetTasks loads the file: the memory is no longer the runner's board.
\* Bounded to reads that an edit may still follow.
Read == /\ pc # "returned" /\ shared /\ edits < MaxEdits
        /\ shared' = FALSE
        /\ UNCHANGED <<runnerVars, store, touched, envVars>>

People ==
  \/ \E t \in Tasks :
       \/ \E c \in Columns \ {"absent"} : Patch(t, c)
       \/ Retry(t)
       \/ \E c \in {"to_scope", "ready_to_dev"} : Post(t, c)
       \/ Delete(t)
  \/ Read

\* The user stops the run, or its deadline passes.
Stop == /\ live /\ pc # "returned" /\ live' = FALSE
        /\ UNCHANGED <<runnerVars, storeVars, runway, edits>>

\* Less than the finish reserve is left.
RunwayEnds == /\ runway /\ pc # "returned" /\ runway' = FALSE
              /\ UNCHANGED <<runnerVars, storeVars, live, edits>>

Next == Runner \/ People \/ Stop \/ RunwayEnds

Spec == Init /\ [][Next]_vars

\* The runner's goroutine runs whenever it can, and every model call ends by its
\* timeout.  Nothing is assumed of people, of the user or of the clock.
FairSpec == Spec /\ WF_vars(Runner)

-----------------------------------------------------------------------------
InWave == pc \in {"prepare", "work", "critique", "review"}

\* progress.go:120-139: tasks of one wave, whose workers share the working
\* tree, never claim the same file or a directory around it.
WavesAreDisjoint == \A t, u \in wave : t # u => ~ Collide(t, u)

\* kanban.go, executableTasksLocked: a worker or a reviewer never runs on top
\* of work that is not done, from dispatch to the end of the wave, unless a
\* person reopens that work under it.
FoundationsAreDone ==
  InWave => \A t \in wave : \A d \in Deps[t] : board[d].col = "done" \/ d \in touched

\* progress.go:16-28: however a task comes back (gate, handoff, timeout,
\* reclaim, a person), it is dispatched at most MaxAttempts times unfinished.
CeilingHolds == InWave => \A t \in wave : attempts[t] <= MaxAttempts

\* progress.go:215-240: a board handed back is not still holding work that a
\* finished wave left mid-flight.
NothingLeftInFlight ==
  result \in {"drained", "human_backlog", "idle_timeout"} =>
    \A t \in Tasks : board[t].col \notin InFlightCols

\* runner.go:427-436: the run gives up idle only over a dependency that is not
\* on the board; failures, cycles and hand-backs are all reported as such.
IdleOnlyWhenDangling ==
  result = "idle_timeout" =>
    \E t \in Tasks : board[t].col = "ready_to_dev" /\ \E d \in Deps[t] : board[d].col = "absent"

\* progress.go:62-65: the round guard never fires; the other bounds come first.
GuardNeverFires == result # "safety_guard"

\* runner.go:2738-2739: work a worker delivered is reviewed in its wave, also
\* when the task was promoted back after an escalation.
DeliveredWorkIsReviewed ==
  pc = "after" => \A t \in wave \ touched : board[t].col # "in_review"

\* A task becomes done only by a verdict on it, an answer to its escalation, or
\* a person; never as a side effect of scheduling or of another task's review.
DoneNeedsAVerdict ==
  [][\A t \in Tasks : board[t].col # "done" /\ board'[t].col = "done" =>
       verdict[t].task.col = "done" \/ ladder[t] = "asking" \/ store[t].col = "done"
         \/ edits' # edits]_vars

\* store.go:81-93 and 131-145: while the memory is the runner's board, an edit is
\* in both, so that no later persist of the wave can lose it.
SharedBoardsAgree == InWave /\ shared => \A t \in Tasks \ wave : board[t] = store[t]

\* RunBoard returns, whatever the board, the workers, the reviewers and people do.
Terminates == <>(pc = "returned")
=============================================================================

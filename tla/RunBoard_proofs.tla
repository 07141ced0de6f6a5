-------------------------- MODULE RunBoard_proofs --------------------------
(***************************************************************************)
(* Proofs about RunBoard.  The invariants, each with TypeOK: WaveInv (who  *)
(* is in the wave, which ladders run, what the wave stands on), EndInv     *)
(* (how it ends), ReviewInv (what still waits for its ladder), QuietInv    *)
(* (who carries an Error), LandInv and RoundInv (where a wave leaves its   *)
(* tasks, and how many rounds there have been).                            *)
(***************************************************************************)
EXTENDS RunBoard, BoardDeps_proofs

-----------------------------------------------------------------------------
\* Task records.

LEMMA TaskUpdates ==
  ASSUME NEW x \in Task, NEW c \in Columns, NEW e \in BOOLEAN
  PROVE  /\ [x EXCEPT !.col = c] \in Task
         /\ [x EXCEPT !.col = c, !.err = e] \in Task
         /\ [x EXCEPT !.col = c].gate = x.gate
         /\ [x EXCEPT !.col = c, !.err = e].gate = x.gate
         /\ [x EXCEPT !.col = c].col = c
         /\ [x EXCEPT !.col = c, !.err = e].col = c
         /\ x.col \in Columns /\ x.err \in BOOLEAN /\ x.gate \in 0 .. MaxGateRetries
  BY DEF Task

\* The columns that scheduling and collecting write.
LEMMA WrittenColumns ==
  ASSUME NEW x \in Task
  PROVE  /\ [x EXCEPT !.col = "ready_to_dev"].col = "ready_to_dev"
         /\ [x EXCEPT !.col = "in_review"].col = "in_review"
         /\ [x EXCEPT !.col = "ready_to_dev", !.err = FALSE].col = "ready_to_dev"
         /\ [x EXCEPT !.col = "to_scope", !.err = TRUE].col = "to_scope"
         /\ [x EXCEPT !.col = "blocked", !.err = TRUE].col = "blocked"
  BY DEF Task

LEMMA ColumnNames ==
  /\ "absent" \in Columns /\ "to_scope" \in Columns /\ "ready_to_dev" \in Columns
  /\ "in_progress" \in Columns /\ "in_review" \in Columns
  /\ "done" \in Columns /\ "blocked" \in Columns
  BY DEF Columns, Human, InFlightCols

LEMMA NoTaskType ==
  /\ NoTask \in Task /\ [NoTask EXCEPT !.col = "ready_to_dev"] \in Task
  /\ NoVerdict \in [task : Task, esc : BOOLEAN]
<1>1. NoTask \in Task
  <2>1. 0 \in 0 .. MaxGateRetries
    BY BoundsAreNat
  <2> QED BY <2>1, ColumnNames DEF NoTask, Task
<1>2. [NoTask EXCEPT !.col = "ready_to_dev"] \in Task
  BY <1>1, ColumnNames, TaskUpdates
<1> QED BY <1>1, <1>2 DEF NoVerdict

\* Settling keeps the types, and moves tasks to blocked only.
LEMMA SettledType ==
  ASSUME NEW b \in [Tasks -> Task]
  PROVE  /\ Settled(b) \in [Tasks -> Task]
         /\ \A t \in Tasks : Settled(b)[t] = b[t] \/ Settled(b)[t].col = "blocked"
<1> DEFINE c == PropagateBlocked(Cols(b), Deps)
<1>1. \A t \in Tasks : c[t] = b[t].col \/ c[t] = "blocked"
  BY DEF PropagateBlocked, Cols
<1>2. ASSUME NEW t \in Tasks
      PROVE  IF c[t] = b[t].col THEN Settled(b)[t] = b[t]
             ELSE Settled(b)[t] = [b[t] EXCEPT !.col = "blocked", !.err = TRUE]
  BY <1>1 DEF Settled
<1>3. ASSUME NEW t \in Tasks
      PROVE  /\ Settled(b)[t] \in Task
             /\ Settled(b)[t] = b[t] \/ Settled(b)[t].col = "blocked"
  <2> DEFINE x == b[t]
             y == [x EXCEPT !.col = "blocked", !.err = TRUE]
  <2>1. x \in Task
    OBVIOUS
  <2>2. y \in Task /\ y.col = "blocked"
    <3> HIDE DEF x
    <3> QED BY <2>1, TaskUpdates, ColumnNames
  <2>3. Settled(b)[t] = x \/ Settled(b)[t] = y
    BY <1>2
  <2> HIDE DEF y
  <2> QED BY <2>1, <2>2, <2>3
<1>4. Settled(b) = [t \in Tasks |-> Settled(b)[t]]
  BY DEF Settled
<1> QED BY <1>3, <1>4

LEMMA SigType ==
  ASSUME NEW b \in [Tasks -> Task]
  PROVE  Sig(b) \in [Tasks -> Columns \X (0 .. MaxGateRetries)]
  BY DEF Sig, Task

-----------------------------------------------------------------------------
\* What a wave that admitDisjoint chose is.

\* An admitted task is somewhere in the order, and collides with none admitted
\* before it.
LEMMA AdmissibleDisjoint ==
  ASSUME NEW S, NEW W \in Admissible(S)
  PROVE  /\ W \subseteq S
         /\ \A t, u \in W : t # u => ~ Collide(t, u)
<1>1. PICK o \in Orders(S) : \A i \in DOMAIN o :
        LET earlier == {o[j] : j \in 1 .. i - 1} \cap W
        IN o[i] \in W <=> /\ Cardinality(earlier) < Width
                          /\ \A u \in earlier : ~ Collide(o[i], u)
  BY DEF Admissible
<1>2. W \subseteq S
  BY DEF Admissible
<1>3. DOMAIN o = 1 .. Cardinality(S)
  BY <1>1 DEF Orders
<1>4. \A t \in S : \E i \in DOMAIN o : o[i] = t
  BY <1>1 DEF Orders
<1>5. ASSUME NEW i \in DOMAIN o, NEW j \in 1 .. i - 1, o[i] \in W, o[j] \in W
      PROVE  ~ Collide(o[i], o[j]) /\ ~ Collide(o[j], o[i])
  <2>1. o[j] \in {o[k] : k \in 1 .. i - 1} \cap W
    BY <1>5
  <2>2. ~ Collide(o[i], o[j])
    BY <1>1, <1>5, <2>1
  <2> QED BY <2>2 DEF Collide
<1>6. ASSUME NEW t \in W, NEW u \in W, t # u PROVE ~ Collide(t, u)
  <2>1. PICK i \in DOMAIN o : o[i] = t
    BY <1>2, <1>4
  <2>2. PICK j \in DOMAIN o : o[j] = u
    BY <1>2, <1>4
  <2>3. i # j
    BY <1>6, <2>1, <2>2
  <2>4. j \in 1 .. i - 1 \/ i \in 1 .. j - 1
    <3>0. i \in 1 .. Cardinality(S) /\ j \in 1 .. Cardinality(S)
      BY <1>3, <2>1, <2>2
    <3> QED BY <3>0, <2>3
  <2> QED BY <1>5, <2>1, <2>2, <2>4
<1> QED BY <1>2, <1>6

-----------------------------------------------------------------------------
\* The inductive invariant.

\* Ladders belong to tasks of the wave, and only while something is reviewed;
\* no task of a wave waits on another one.
Climbing == {"prepare", "critique", "review"}
WaveInv ==
  /\ \A t \in Tasks : ladder[t] # "out" => t \in wave /\ pc \in Climbing
  /\ \A t \in wave : Deps[t] \cap wave = {}

Kept == /\ WaveInv /\ WavesAreDisjoint /\ FoundationsAreDone /\ CeilingHolds
        /\ SharedBoardsAgree

IInv == TypeOK /\ Kept

LEMMA InitInv == Init => IInv
<1> SUFFICES ASSUME Init PROVE IInv
  OBVIOUS
<1>1. board \in [Tasks -> Task] /\ store \in [Tasks -> Task]
  <2>1. 0 \in 0 .. MaxGateRetries
    BY BoundsAreNat
  <2>2. \A t \in Tasks : [col |-> Planned[t], err |-> FALSE, gate |-> 0] \in Task
    BY <2>1, PlannedType DEF Task
  <2> QED BY <2>2 DEF Init
<1>2. before \in [Tasks -> Columns \X (0 .. MaxGateRetries)]
      /\ lastSig \in [Tasks -> Columns \X (0 .. MaxGateRetries)]
  BY BoundsAreNat, ColumnNames DEF Init
<1>3. verdict \in [Tasks -> [task : Task, esc : BOOLEAN]]
  BY NoTaskType DEF Init
<1>4. /\ attempts \in [Tasks -> 0 .. MaxAttempts + 1]
      /\ tries \in [Tasks -> 0 .. MaxRetries]
      /\ ladder \in [Tasks -> {"out", "weak", "look", "judge", "judged", "asking"}]
      /\ edits \in 0 .. MaxEdits
  BY BoundsAreNat DEF Init
<1>5. TypeOK
  BY <1>1, <1>2, <1>3, <1>4 DEF Init, TypeOK, Results
<1>6. Kept
  BY BoundsAreNat DEF Init, Kept, WaveInv, WavesAreDisjoint, FoundationsAreDone, CeilingHolds,
                      SharedBoardsAgree, InWave
<1> QED BY <1>5, <1>6 DEF IInv

\* Outside a wave nothing is claimed of the board: a step that stays there keeps
\* the wave's invariants.
LEMMA KeptOutside ==
  ASSUME IInv, pc \in {"top", "after"}, pc' \in {"top", "after", "returned"},
         UNCHANGED ladder, wave' \in {wave, {}}
  PROVE  Kept'
  BY DEF IInv, TypeOK, Kept, WaveInv, WavesAreDisjoint, FoundationsAreDone, CeilingHolds,
         SharedBoardsAgree, InWave, Climbing

\* Inside one, a step may change the board at tasks of the wave, and where
\* people edited; a memory that stays shared must agree with it elsewhere.
LEMMA KeptInside ==
  ASSUME IInv, InWave \/ ~ InWave', UNCHANGED <<wave, attempts>>,
         \A t \in Tasks \ wave : board'[t] = board[t] \/ t \in touched',
         touched \subseteq touched',
         InWave' /\ shared' => \A t \in Tasks \ wave : board'[t] = store'[t],
         \A t \in Tasks : ladder'[t] # "out" => t \in wave /\ pc' \in Climbing
  PROVE  Kept'
<1> USE DEF IInv, Kept
<1>1. WaveInv' /\ WavesAreDisjoint' /\ CeilingHolds' /\ SharedBoardsAgree'
  BY DEF WaveInv, WavesAreDisjoint, CeilingHolds, SharedBoardsAgree, InWave
<1>2. FoundationsAreDone'
  <2> SUFFICES ASSUME InWave', NEW t \in wave, NEW d \in Deps[t]
               PROVE  board'[d].col = "done" \/ d \in touched'
    BY DEF FoundationsAreDone
  <2>1. d \in Tasks \ wave
    BY DepsType DEF TypeOK, WaveInv
  <2> QED BY <2>1 DEF FoundationsAreDone
<1> QED BY <1>1, <1>2

\* The steps of the wave that write the board to the store, and those that
\* leave the store alone.
LEMMA KeptWritten ==
  ASSUME IInv, InWave, UNCHANGED <<wave, attempts, touched>>, store' = board',
         \A t \in Tasks \ wave : board'[t] = board[t],
         \A t \in Tasks : ladder'[t] # "out" => t \in wave /\ pc' \in Climbing
  PROVE  Kept'
  BY KeptInside

LEMMA KeptUnwritten ==
  ASSUME IInv, InWave, UNCHANGED <<wave, attempts, touched, store, shared>>,
         \A t \in Tasks \ wave : board'[t] = board[t],
         \A t \in Tasks : ladder'[t] # "out" => t \in wave /\ pc' \in Climbing
  PROVE  Kept'
<1>1. shared' => \A t \in Tasks \ wave : board'[t] = store'[t]
  BY DEF IInv, Kept, SharedBoardsAgree
<1> QED BY <1>1, KeptInside

-----------------------------------------------------------------------------
\* The top of the loop.

LEMMA BoardTypes == TypeOK => board \in [Tasks -> Task] /\ store \in [Tasks -> Task]
  BY DEF TypeOK

\* What a reload does, one conjunct per variable.
ReloadedAs(b) == /\ board' = b /\ store' = store /\ shared' = FALSE
                 /\ touched' = {}

\* A step of the round's top that reloads and returns or idles keeps the types.
LEMMA ReloadType ==
  ASSUME TypeOK, NEW b \in [Tasks -> Task], ReloadedAs(b),
         guard' = guard + 1, idle' \in {idle, idle + 1},
         pc' \in {pc, "returned"}, result' \in Results,
         UNCHANGED <<attempts, waveVars, sigVars, envVars>>
  PROVE  TypeOK'
<1>1. UNCHANGED <<attempts, wave, skipped, ladder, tries, verdict, fanout, canceled,
                  stall, before, lastSig, live, runway, edits>>
  BY DEF waveVars, sigVars, envVars
<1>2. board' \in [Tasks -> Task] /\ store' \in [Tasks -> Task] /\ shared' \in BOOLEAN
  BY DEF ReloadedAs, TypeOK
<1>3. touched' \subseteq Tasks
  BY DEF ReloadedAs
<1>4. guard' \in Nat /\ idle' \in Nat
  BY DEF TypeOK
<1>5. pc' \in {"top", "prepare", "work", "critique", "review", "after", "returned"}
  BY DEF TypeOK
<1> QED BY <1>1, <1>2, <1>3, <1>4, <1>5 DEF TypeOK

LEMMA ReturnsInv ==
  ASSUME IInv, ReturnCanceled \/ ReturnGuard \/ ReturnOutOfRunway
  PROVE  IInv'
<1>1. TypeOK'
  <2>1. CASE ReturnCanceled
    BY <2>1 DEF IInv, TypeOK, ReturnCanceled, Return, Results, waveVars, sigVars, envVars, storeVars
  <2>2. CASE ReturnGuard
    BY <2>2 DEF IInv, TypeOK, ReturnGuard, Return, Results, waveVars, sigVars, envVars, storeVars
  <2>3. CASE ReturnOutOfRunway
    <3>1. ReloadedAs(store)
      BY <2>3 DEF ReturnOutOfRunway, Reload, ReloadedAs
    <3>2. guard' = guard + 1 /\ idle' = idle /\ pc' = "returned" /\ result' \in Results
      BY <2>3 DEF ReturnOutOfRunway, RoundStarts, Return, Results
    <3>3. UNCHANGED <<attempts, waveVars, sigVars, envVars>>
      BY <2>3 DEF ReturnOutOfRunway
    <3>4. TypeOK /\ store \in [Tasks -> Task]
      BY BoardTypes DEF IInv
    <3> QED BY <3>1, <3>2, <3>3, <3>4, ReloadType
  <2> QED BY <2>1, <2>2, <2>3
<1>2. Kept'
  BY KeptOutside DEF ReturnCanceled, ReturnGuard, ReturnOutOfRunway, RoundStarts, Return, waveVars
<1> QED BY <1>1, <1>2 DEF IInv

LEMMA IdleInv ==
  ASSUME IInv, IdleForAgents \/ IdleForHumans \/ ReturnDrained
  PROVE  IInv'
<1>1. Settled(store) \in [Tasks -> Task]
  BY BoardTypes, SettledType DEF IInv
<1>2. TypeOK'
  <2>1. ReloadedAs(Settled(store))
    BY DEF IdleForAgents, IdleForHumans, ReturnDrained, Reload, ReloadedAs
  <2>2. guard' = guard + 1 /\ idle' \in {idle, idle + 1}
        /\ pc' \in {pc, "returned"} /\ result' \in Results
    BY DEF IdleForAgents, IdleForHumans, ReturnDrained, NothingReady, RoundStarts, Return,
           Results, IInv, TypeOK
  <2>3. UNCHANGED <<attempts, waveVars, sigVars, envVars>>
    BY DEF IdleForAgents, IdleForHumans, ReturnDrained
  <2>4. TypeOK
    BY DEF IInv
  <2> QED BY <1>1, <2>1, <2>2, <2>3, <2>4, ReloadType
<1>3. Kept'
  BY KeptOutside DEF IdleForAgents, IdleForHumans, ReturnDrained, NothingReady, RoundStarts,
                     Return, waveVars
<1> QED BY <1>2, <1>3 DEF IInv

LEMMA ReclaimInv ==
  ASSUME IInv, Reclaim
  PROVE  IInv'
<1> DEFINE b == Settled(store)
<1>1. b \in [Tasks -> Task]
  BY BoardTypes, SettledType DEF IInv
<1> HIDE DEF b
<1>2. board' = [t \in Tasks |-> IF t \in Orphans(b)
                               THEN [b[t] EXCEPT !.col = "ready_to_dev"] ELSE b[t]]
  BY DEF Reclaim, b
<1>3. board' \in [Tasks -> Task]
  <2>1. \A t \in Tasks : b[t] \in Task /\ [b[t] EXCEPT !.col = "ready_to_dev"] \in Task
    BY <1>1, TaskUpdates, ColumnNames
  <2> QED BY <1>2, <2>1
<1>4. TypeOK'
  BY <1>3 DEF IInv, TypeOK, Reclaim, NothingReady, RoundStarts, Results,
              waveVars, sigVars, envVars, PersistReloaded
<1>5. Kept'
  BY KeptOutside DEF Reclaim, NothingReady, RoundStarts, waveVars
<1> QED BY <1>4, <1>5 DEF IInv

LEMMA ScheduleInv ==
  ASSUME IInv, NEW W, NEW skip, Schedule(W, skip)
  PROVE  IInv'
<1> DEFINE b == Settled(store)
           parked == Parked(W)
           go == W \ parked
           ready == [t \in Tasks |-> IF t \in parked
                                     THEN [b[t] EXCEPT !.col = "to_scope", !.err = TRUE]
                                     ELSE b[t]]
<1>1. b \in [Tasks -> Task]
  BY BoardTypes, SettledType DEF IInv
<1>2. W \in Admissible(Ready(b)) /\ skip \subseteq go
  BY DEF Schedule
<1>3. /\ W \subseteq Ready(b)
      /\ \A t, u \in W : t # u => ~ Collide(t, u)
  BY <1>2, AdmissibleDisjoint
<1>4. W \subseteq Tasks
  BY <1>3 DEF Ready, Executable
<1>5. \A t \in W : b[t].col = "ready_to_dev" /\ \A d \in Deps[t] : b[d].col = "done"
  BY <1>1, <1>3, DepsType DEF Ready, Executable, Cols
<1>6. pc = "top" /\ pc' \in {"top", "prepare"}
  BY DEF Schedule, RoundStarts
<1>7. ready \in [Tasks -> Task] /\ \A t \in Tasks \ W : ready[t] = b[t]
  <2>1. \A t \in Tasks : b[t] \in Task /\ [b[t] EXCEPT !.col = "to_scope", !.err = TRUE] \in Task
    <3> HIDE DEF b
    <3> QED BY <1>1, TaskUpdates, ColumnNames
  <2>2. parked \subseteq W
    BY DEF Parked
  <2> HIDE DEF b, parked
  <2> QED BY <2>1, <2>2
<1>8. board' = IF go = {} THEN ready
               ELSE [t \in Tasks |-> IF t \in go THEN [ready[t] EXCEPT !.col = "in_progress"]
                                     ELSE ready[t]]
  BY DEF Schedule
<1>9. board' \in [Tasks -> Task] /\ \A t \in Tasks \ W : board'[t] = b[t]
  <2> HIDE DEF ready
  <2>1. \A t \in Tasks : ready[t] \in Task /\ [ready[t] EXCEPT !.col = "in_progress"] \in Task
    BY <1>7, TaskUpdates, ColumnNames
  <2> QED BY <1>7, <1>8, <2>1
<1>10. /\ attempts' \in [Tasks -> 0 .. MaxAttempts + 1]
       /\ \A t \in go : attempts'[t] <= MaxAttempts
  <2>1. attempts' = [t \in Tasks |-> IF t \notin W THEN attempts[t]
                                     ELSE IF t \in parked THEN MaxAttempts + 1
                                     ELSE attempts[t] + 1]
    BY DEF Schedule
  <2>2. \A t \in Tasks : attempts[t] \in 0 .. MaxAttempts + 1
    BY DEF IInv, TypeOK
  <2>3. \A t \in W \ parked : attempts[t] + 1 <= MaxAttempts
    BY <1>4, <2>2, BoundsAreNat DEF Parked
  <2> HIDE DEF parked
  <2> QED BY <1>4, <2>1, <2>2, <2>3, BoundsAreNat
<1> HIDE DEF b
<1>11. Sig(ready) \in [Tasks -> Columns \X (0 .. MaxGateRetries)]
  <2> HIDE DEF ready
  <2> QED BY <1>7, SigType
<1>12. before' \in {before, Sig(ready)}
  BY DEF Schedule, b
<1>13. \/ wave' = wave /\ skipped' = skipped /\ ladder' = ladder /\ pc' = pc
       \/ /\ wave' = go /\ skipped' = skip /\ pc' = "prepare"
          /\ ladder' = [t \in Tasks |-> IF t \in skip THEN "look" ELSE "out"]
  BY DEF Schedule, waveVars
<1>14. /\ UNCHANGED <<result, stall, lastSig, envVars, tries, verdict>>
       /\ fanout' \in BOOLEAN /\ canceled' \in BOOLEAN
       /\ store' = board' /\ shared' = TRUE /\ touched' = {}
       /\ idle' = 0 /\ guard' = guard + 1
  BY DEF Schedule, RoundStarts, PersistReloaded, waveVars, IInv, TypeOK
<1> HIDE DEF ready, parked
<1>15. TypeOK'
  <2>1. wave' \subseteq Tasks /\ skipped' \subseteq wave'
    BY <1>2, <1>4, <1>13 DEF IInv, TypeOK
  <2>2. ladder' \in [Tasks -> {"out", "weak", "look", "judge", "judged", "asking"}]
    BY <1>13 DEF IInv, TypeOK
  <2>3. before' \in [Tasks -> Columns \X (0 .. MaxGateRetries)]
    BY <1>11, <1>12 DEF IInv, TypeOK
  <2> QED BY <1>6, <1>9, <1>10, <1>14, <2>1, <2>2, <2>3 DEF IInv, TypeOK, envVars
<1>16. Kept'
  <2>1. CASE wave' = wave /\ skipped' = skipped /\ ladder' = ladder /\ pc' = pc
    BY <1>6, <2>1, KeptOutside
  <2>2. CASE /\ wave' = go /\ skipped' = skip /\ pc' = "prepare"
             /\ ladder' = [t \in Tasks |-> IF t \in skip THEN "look" ELSE "out"]
    <3>1. \A t \in go : \A d \in Deps[t] : d \in Tasks /\ d \notin W
      BY <1>4, <1>5, DepsType
    <3>2. WaveInv'
      BY <1>2, <2>2, <3>1 DEF WaveInv, Climbing
    <3>3. WavesAreDisjoint'
      BY <1>3, <2>2 DEF WavesAreDisjoint
    <3>4. FoundationsAreDone'
      BY <1>5, <1>9, <2>2, <3>1 DEF FoundationsAreDone
    <3>5. CeilingHolds'
      BY <1>10, <2>2 DEF CeilingHolds
    <3>6. SharedBoardsAgree'
      BY <1>14 DEF SharedBoardsAgree
    <3> QED BY <3>2, <3>3, <3>4, <3>5, <3>6 DEF Kept
  <2> QED BY <1>13, <2>1, <2>2
<1> QED BY <1>15, <1>16 DEF IInv

-----------------------------------------------------------------------------
\* The ladders.

LEMMA LookInv ==
  ASSUME IInv, NEW t \in Tasks, Look(t)
  PROVE  IInv'
<1>1. t \in wave /\ pc \in {"prepare", "review"}
  BY DEF IInv, Kept, WaveInv, Look, MayAct, Reviewing
<1>2. /\ board' \in [Tasks -> Task]
      /\ \A u \in Tasks \ wave : board'[u] = board[u]
  <2>1. CASE shared
    BY <1>1, <2>1, BoardTypes DEF Look, Merge, IInv, Kept, SharedBoardsAgree, InWave
  <2>2. CASE ~ shared
    <3> DEFINE c == IF pc = "prepare" THEN "in_review" ELSE board[t].col
    <3>1. board[t] \in Task /\ board[t].col \in Columns
      BY BoardTypes, TaskUpdates, ColumnNames DEF IInv
    <3>2. board' = [board EXCEPT ![t].col = c] /\ c \in Columns
      BY <2>2, <3>1, ColumnNames DEF Look, Merge
    <3> HIDE DEF c
    <3>3. board' = [board EXCEPT ![t] = [board[t] EXCEPT !.col = c]]
      BY <3>1, <3>2, BoardTypes DEF IInv, Task
    <3>4. [board[t] EXCEPT !.col = c] \in Task
      BY <3>1, <3>2, TaskUpdates
    <3> QED BY <1>1, <3>3, <3>4, BoardTypes DEF IInv
  <2> QED BY <2>1, <2>2
<1>3. /\ ladder' \in [Tasks -> {"out", "weak", "look", "judge", "judged", "asking"}]
      /\ verdict' \in [Tasks -> [task : Task, esc : BOOLEAN]]
  <2>1. [task |-> store[t], esc |-> FALSE] \in [task : Task, esc : BOOLEAN]
    BY BoardTypes DEF IInv
  <2>2. /\ \E way \in {"judged", "judge"} : ladder' = [ladder EXCEPT ![t] = way]
        /\ verdict' = verdict \/ verdict' = [verdict EXCEPT ![t] = [task |-> store[t], esc |-> FALSE]]
    BY DEF Look
  <2>3. /\ ladder \in [Tasks -> {"out", "weak", "look", "judge", "judged", "asking"}]
        /\ verdict \in [Tasks -> [task : Task, esc : BOOLEAN]]
    BY DEF IInv, TypeOK
  <2>4. ladder' \in [Tasks -> {"out", "weak", "look", "judge", "judged", "asking"}]
    BY <2>2, <2>3
  <2>5. verdict' \in [Tasks -> [task : Task, esc : BOOLEAN]]
    BY <2>1, <2>2, <2>3
  <2> QED BY <2>4, <2>5
<1>4. TypeOK'
  BY <1>2, <1>3 DEF IInv, TypeOK, Look, Merge, sigVars, envVars
<1>5. Kept'
  <2>1. \A u \in Tasks : ladder'[u] # "out" => u \in wave /\ pc' \in Climbing
    BY <1>1 DEF Look, IInv, TypeOK, Kept, WaveInv, Climbing
  <2> QED BY <1>1, <1>2, <2>1, KeptUnwritten DEF InWave, Look
<1> QED BY <1>4, <1>5 DEF IInv

LEMMA EndType ==
  ASSUME TypeOK, NEW t \in Tasks, NEW c \in Columns, NEW e \in BOOLEAN, NEW esc \in BOOLEAN,
         End(t, c, e, esc)
  PROVE  /\ ladder' = [ladder EXCEPT ![t] = "judged"]
         /\ verdict' \in [Tasks -> [task : Task, esc : BOOLEAN]]
         /\ tries' = tries
<1>1. [col |-> c, err |-> e, gate |-> board[t].gate] \in Task
  BY BoardTypes DEF Task
<1> QED BY <1>1 DEF End, TypeOK

LEMMA JudgeInv ==
  ASSUME IInv, NEW t \in Tasks, Judge(t)
  PROVE  IInv'
<1>1. t \in wave /\ pc \in {"prepare", "review"}
  BY DEF IInv, Kept, WaveInv, Judge, MayAct, Reviewing
<1>2. /\ ladder' \in {[ladder EXCEPT ![t] = "judged"], [ladder EXCEPT ![t] = "look"]}
      /\ verdict' \in [Tasks -> [task : Task, esc : BOOLEAN]]
      /\ tries' \in [Tasks -> 0 .. MaxRetries]
      /\ canceled' \in BOOLEAN
  <2>1. CASE \/ End(t, "done", FALSE, FALSE) \/ End(t, "to_scope", TRUE, TRUE)
             \/ End(t, "to_scope", TRUE, FALSE) \/ End(t, "blocked", TRUE, FALSE)
    <3>1. /\ ladder' = [ladder EXCEPT ![t] = "judged"]
          /\ verdict' \in [Tasks -> [task : Task, esc : BOOLEAN]]
          /\ tries' = tries
      BY <2>1, EndType, ColumnNames DEF IInv
    <3>2. canceled' \in BOOLEAN
      BY DEF IInv, TypeOK, Judge
    <3> QED BY <3>1, <3>2 DEF IInv, TypeOK
  <2>2. CASE /\ tries[t] < MaxRetries
             /\ tries' = [tries EXCEPT ![t] = @ + 1]
             /\ ladder' = [ladder EXCEPT ![t] = "look"]
             /\ UNCHANGED <<verdict, canceled>>
    BY <2>2, BoundsAreNat DEF IInv, TypeOK
  <2> QED BY <2>1, <2>2 DEF Judge
<1>3. TypeOK'
  <2>1. ladder' \in [Tasks -> {"out", "weak", "look", "judge", "judged", "asking"}]
    BY <1>2 DEF IInv, TypeOK
  <2> QED BY <1>2, <2>1 DEF IInv, TypeOK, Judge, storeVars, sigVars, envVars
<1>4. Kept'
  <2>1. \A u \in Tasks : ladder'[u] # "out" => u \in wave /\ pc' \in Climbing
    BY <1>1, <1>2 DEF Judge, IInv, TypeOK, Kept, WaveInv, Climbing
  <2> QED BY <1>1, <2>1, KeptUnwritten DEF InWave, Judge, storeVars
<1> QED BY <1>3, <1>4 DEF IInv

LEMMA ConcludeInv ==
  ASSUME IInv, NEW t \in Tasks, Conclude(t)
  PROVE  IInv'
<1>1. t \in wave /\ pc \in {"prepare", "review"}
  BY DEF IInv, Kept, WaveInv, Conclude, MayAct, Reviewing
<1>2. PICK x \in Task : board' = [board EXCEPT ![t] = x]
  <2>1. verdict[t].task \in Task
    BY DEF IInv, TypeOK
  <2>2. [verdict[t].task EXCEPT !.col = "ready_to_dev", !.err = FALSE] \in Task
    BY <2>1, TaskUpdates, ColumnNames
  <2> QED BY <2>1, <2>2 DEF Conclude
<1>3. ladder' \in {[ladder EXCEPT ![t] = "asking"], [ladder EXCEPT ![t] = "out"]}
  BY DEF Conclude
<1>4. TypeOK'
  <2>1. /\ board' \in [Tasks -> Task] /\ store' = board'
        /\ ladder' \in [Tasks -> {"out", "weak", "look", "judge", "judged", "asking"}]
    BY <1>2, <1>3 DEF IInv, TypeOK, Conclude, Persist
  <2>2. verdict' \in [Tasks -> [task : Task, esc : BOOLEAN]]
    BY NoTaskType DEF IInv, TypeOK, Conclude
  <2>3. tries' \in [Tasks -> 0 .. MaxRetries]
    BY BoundsAreNat DEF IInv, TypeOK, Conclude
  <2> QED BY <2>1, <2>2, <2>3 DEF IInv, TypeOK, Conclude, Persist, sigVars, envVars
<1>5. Kept'
  <2>1. \A u \in Tasks \ wave : board'[u] = board[u]
    BY <1>1, <1>2, BoardTypes DEF IInv
  <2>2. \A u \in Tasks : ladder'[u] # "out" => u \in wave /\ pc' \in Climbing
    BY <1>1, <1>3 DEF Conclude, IInv, TypeOK, Kept, WaveInv, Climbing
  <2> QED BY <1>1, <2>1, <2>2, KeptWritten DEF InWave, Conclude, Persist
<1> QED BY <1>4, <1>5 DEF IInv

LEMMA ConcludeAllInv ==
  ASSUME IInv, ConcludeAll
  PROVE  IInv'
<1> DEFINE in == {t \in Tasks : ladder[t] # "out"}
<1>1. /\ pc \in {"prepare", "review"}
      /\ board' = [t \in Tasks |-> IF t \in in THEN verdict[t].task ELSE board[t]]
      /\ ladder' = [t \in Tasks |-> IF t \in in /\ verdict[t].esc THEN "asking" ELSE "out"]
  BY DEF ConcludeAll, Reviewing
<1>2. in \subseteq wave
  BY DEF IInv, Kept, WaveInv
<1>3. TypeOK'
  <2>1. board' \in [Tasks -> Task]
    BY <1>1 DEF IInv, TypeOK
  <2>2. ladder' \in [Tasks -> {"out", "weak", "look", "judge", "judged", "asking"}]
    BY <1>1
  <2>3. verdict' \in [Tasks -> [task : Task, esc : BOOLEAN]]
    BY NoTaskType DEF ConcludeAll
  <2>4. tries' \in [Tasks -> 0 .. MaxRetries]
    BY BoundsAreNat DEF ConcludeAll
  <2> QED BY <2>1, <2>2, <2>3, <2>4 DEF IInv, TypeOK, ConcludeAll, Persist, sigVars, envVars
<1>4. Kept'
  <2>1. \A u \in Tasks \ wave : board'[u] = board[u]
    BY <1>1, <1>2
  <2>2. \A u \in Tasks : ladder'[u] # "out" => u \in wave /\ pc' \in Climbing
    BY <1>1, <1>2 DEF ConcludeAll, Climbing
  <2> QED BY <1>1, <2>1, <2>2, KeptWritten DEF InWave, ConcludeAll, Persist
<1> QED BY <1>3, <1>4 DEF IInv

LEMMA AnswerInv ==
  ASSUME IInv, NEW t \in Tasks, Answer(t)
  PROVE  IInv'
<1>1. t \in wave /\ pc \in {"prepare", "review"}
  BY DEF IInv, Kept, WaveInv, Answer, MayAct, Reviewing
<1>2. PICK x \in Task : board' = [board EXCEPT ![t] = x]
  <2>1. board[t] \in Task
    BY BoardTypes DEF IInv
  <2>2. /\ [board[t] EXCEPT !.col = "to_scope"] \in Task
        /\ [board[t] EXCEPT !.col = "done", !.err = FALSE] \in Task
        /\ [board[t] EXCEPT !.col = "blocked", !.err = TRUE] \in Task
    BY <2>1, TaskUpdates, ColumnNames
  <2>3. ASSUME Granted(t)
        PROVE  [board[t] EXCEPT !.col = "ready_to_dev", !.err = FALSE, !.gate = @ + 1] \in Task
    <3>1. board[t].gate + 1 \in 0 .. MaxGateRetries
      BY <2>1, <2>3, BoundsAreNat DEF Granted, Task
    <3> QED BY <2>1, <3>1, ColumnNames DEF Task
  <2> QED BY <2>2, <2>3 DEF Answer
<1>3. TypeOK'
  <2>1. /\ board' \in [Tasks -> Task] /\ store' = board'
        /\ ladder' \in [Tasks -> {"out", "weak", "look", "judge", "judged", "asking"}]
    BY <1>2 DEF IInv, TypeOK, Answer, Persist
  <2> QED BY <2>1 DEF IInv, TypeOK, Answer, Persist, sigVars, envVars
<1>4. Kept'
  <2>1. \A u \in Tasks \ wave : board'[u] = board[u]
    BY <1>1, <1>2, BoardTypes DEF IInv
  <2>2. \A u \in Tasks : ladder'[u] # "out" => u \in wave /\ pc' \in Climbing
    BY <1>1 DEF Answer, IInv, TypeOK, Kept, WaveInv, Climbing
  <2> QED BY <1>1, <2>1, <2>2, KeptWritten DEF InWave, Answer, Persist
<1> QED BY <1>3, <1>4 DEF IInv

-----------------------------------------------------------------------------
\* The rest of the wave.

LEMMA EndPrepareInv ==
  ASSUME IInv, EndPrepare
  PROVE  IInv'
<1>1. TypeOK'
  BY DEF IInv, TypeOK, EndPrepare, Persist, waveVars, sigVars, envVars, storeVars
<1>2. Kept'
  <2>1. /\ InWave /\ UNCHANGED <<wave, attempts, board, ladder>>
        /\ \A t \in Tasks : ladder'[t] = "out"
    BY DEF EndPrepare, LaddersOut, InWave, waveVars
  <2>2. CASE wave = skipped
    BY <2>1, <2>2, KeptWritten DEF EndPrepare, Persist
  <2>3. CASE wave # skipped
    BY <2>1, <2>3, KeptUnwritten DEF EndPrepare, storeVars
  <2> QED BY <2>2, <2>3
<1> QED BY <1>1, <1>2 DEF IInv

LEMMA CollectInv ==
  ASSUME IInv, NEW ok, NEW weak, NEW late, NEW cut, NEW failed,
         ok \cup weak \cup late \cup cut \cup failed = Workers,
         Collect(ok, weak, late, cut, failed)
  PROVE  IInv'
<1>1. Workers \subseteq wave
  BY DEF Workers
<1>2. ASSUME NEW t \in Tasks
      PROVE  Delivered(t) \in Task /\ AfterTimeout(t) \in Task
             /\ [board[t] EXCEPT !.col = "blocked", !.err = TRUE] \in Task
  <2>1. board[t] \in Task
    BY BoardTypes DEF IInv
  <2> QED BY <2>1, TaskUpdates, ColumnNames DEF Delivered, AfterTimeout
<1>3. /\ board' \in [Tasks -> Task]
      /\ \A t \in Tasks \ wave : board'[t] = board[t]
  <2>1. board' = [t \in Tasks |->
          CASE t \in ok -> Delivered(t)
            [] t \in late -> AfterTimeout(t)
            [] t \in cut \cup failed -> [board[t] EXCEPT !.col = "blocked", !.err = TRUE]
            [] OTHER -> board[t]]
    BY DEF Collect
  <2>2. \A t \in Tasks : board'[t] \in {Delivered(t), AfterTimeout(t), board[t],
                                     [board[t] EXCEPT !.col = "blocked", !.err = TRUE]}
    BY <2>1
  <2>3. \A t \in Tasks : board'[t] \in Task
    BY <1>2, <2>2, BoardTypes DEF IInv
  <2>4. \A t \in Tasks \ wave : t \notin ok /\ t \notin late /\ t \notin cut \cup failed
    BY <1>1
  <2>5. \A t \in Tasks \ wave : board'[t] = board[t]
    BY <2>1, <2>4
  <2> QED BY <2>1, <2>3, <2>5
<1>4. TypeOK'
  <2>1. ladder' \in [Tasks -> {"out", "weak", "look", "judge", "judged", "asking"}]
    BY DEF Collect
  <2>2. canceled' \in BOOLEAN
    BY DEF Collect
  <2> QED BY <1>3, <2>1, <2>2 DEF IInv, TypeOK, Collect, Persist, sigVars, envVars
<1>5. Kept'
  <2>1. \A t \in Tasks : ladder'[t] # "out" => t \in wave /\ pc' \in Climbing
    BY <1>1 DEF Collect, Climbing
  <2> QED BY <1>3, <2>1, KeptWritten DEF InWave, Collect, Persist
<1> QED BY <1>4, <1>5 DEF IInv

LEMMA StartReviewInv ==
  ASSUME IInv, StartReview
  PROVE  IInv'
<1>1. /\ board' \in [Tasks -> Task]
      /\ \A t \in Tasks \ wave : board'[t] = board[t]
  <2>1. \A t \in Tasks : board[t] \in Task /\ Delivered(t) \in Task
    BY BoardTypes, TaskUpdates, ColumnNames DEF IInv, Delivered
  <2>2. \A t \in Tasks \ wave : ladder[t] # "weak"
    BY DEF IInv, Kept, WaveInv
  <2> QED BY <2>1, <2>2 DEF StartReview
<1>2. TypeOK'
  <2>1. ladder' \in [Tasks -> {"out", "weak", "look", "judge", "judged", "asking"}]
    BY DEF StartReview
  <2>2. fanout' \in BOOLEAN
    BY DEF StartReview
  <2> QED BY <1>1, <2>1, <2>2 DEF IInv, TypeOK, StartReview, storeVars, sigVars, envVars
<1>3. Kept'
  <2>1. \A t \in Tasks : ladder'[t] # "out" => t \in wave /\ pc' \in Climbing
    BY DEF StartReview, Workers, Climbing
  <2> QED BY <1>1, <2>1, KeptUnwritten DEF InWave, StartReview, storeVars
<1> QED BY <1>2, <1>3 DEF IInv

LEMMA EndReviewInv ==
  ASSUME IInv, EndReview
  PROVE  IInv'
<1>1. TypeOK'
  BY DEF IInv, TypeOK, EndReview, Return, Results, Persist, waveVars, sigVars, envVars
<1>2. Kept'
  <2>1. /\ InWave /\ UNCHANGED <<wave, attempts, board, ladder>>
        /\ \A t \in Tasks : ladder'[t] = "out"
    BY DEF EndReview, LaddersOut, InWave, waveVars
  <2> QED BY <2>1, KeptWritten DEF EndReview, Persist
<1> QED BY <1>1, <1>2 DEF IInv

LEMMA FinishRoundInv ==
  ASSUME IInv, NEW promoted, NEW added, NEW stop, NEW quiet,
         FinishRound(promoted, added, stop, quiet)
  PROVE  IInv'
<1>1. board' \in [Tasks -> Task]
  <2>1. board' = [t \in Tasks |->
          CASE t \in promoted -> [board[t] EXCEPT !.col = "ready_to_dev"]
            [] t \in added -> [NoTask EXCEPT !.col = "ready_to_dev"]
            [] OTHER -> board[t]]
    BY DEF FinishRound
  <2>2. \A t \in Tasks : board[t] \in Task /\ [board[t] EXCEPT !.col = "ready_to_dev"] \in Task
    BY BoardTypes, TaskUpdates, ColumnNames DEF IInv
  <2>3. \A t \in Tasks : board'[t] \in {[board[t] EXCEPT !.col = "ready_to_dev"],
                                     [NoTask EXCEPT !.col = "ready_to_dev"], board[t]}
    BY <2>1
  <2>4. \A t \in Tasks : board'[t] \in Task
    BY <2>2, <2>3, NoTaskType
  <2> QED BY <2>1, <2>4
<1>2. attempts' \in [Tasks -> 0 .. MaxAttempts + 1]
  BY BoundsAreNat DEF FinishRound, IInv, TypeOK
<1>3. /\ pc' \in {"top", "after", "returned"} /\ result' \in Results
      /\ stall' \in Nat /\ before' = before /\ lastSig' \in {before, lastSig}
  <2>1. CASE stop
    BY <2>1 DEF FinishRound, Return, Results, sigVars, IInv, TypeOK
  <2>2. CASE ~ stop
    BY <2>2 DEF FinishRound, Return, Results, sigVars, IInv, TypeOK
  <2> QED BY <2>1, <2>2
<1>4. /\ pc = "after" /\ wave' = {} /\ skipped' = {}
      /\ store' = board' /\ shared' = TRUE /\ touched' = touched
      /\ UNCHANGED <<ladder, tries, verdict, fanout, canceled, guard, idle, envVars>>
  BY DEF FinishRound, Persist
<1>5. TypeOK'
  BY <1>1, <1>2, <1>3, <1>4 DEF IInv, TypeOK, envVars
<1>6. Kept'
  BY <1>3, <1>4, KeptOutside
<1> QED BY <1>5, <1>6 DEF IInv

LEMMA RunnerInv ==
  ASSUME IInv, Runner
  PROVE  IInv'
<1>1. CASE ReturnCanceled \/ ReturnGuard \/ ReturnOutOfRunway
  BY <1>1, ReturnsInv
<1>2. CASE Reclaim
  BY <1>2, ReclaimInv
<1>3. CASE IdleForAgents \/ IdleForHumans \/ ReturnDrained
  BY <1>3, IdleInv
<1>4. CASE \E W, skip \in SUBSET Tasks : Schedule(W, skip)
  BY <1>4, ScheduleInv
<1>5. CASE \E t \in Tasks : Look(t) \/ Judge(t) \/ Conclude(t) \/ Answer(t)
  BY <1>5, LookInv, JudgeInv, ConcludeInv, AnswerInv
<1>6. CASE ConcludeAll
  BY <1>6, ConcludeAllInv
<1>7. CASE EndPrepare
  BY <1>7, EndPrepareInv
<1>8. CASE CollectAny
  BY <1>8, CollectInv DEF CollectAny
<1>9. CASE StartReview \/ EndReview
  BY <1>9, StartReviewInv, EndReviewInv
<1>10. CASE FinishRoundAny
  BY <1>10, FinishRoundInv DEF FinishRoundAny
<1> QED BY <1>1, <1>2, <1>3, <1>4, <1>5, <1>6, <1>7, <1>8, <1>9, <1>10 DEF Runner

\* Steps of people and the clock: the wave stays, and the board changes only
\* where people edited.
LEMMA KeptByOthers ==
  ASSUME IInv, UNCHANGED <<pc, wave, ladder, attempts>>, touched \subseteq touched',
         \A t \in Tasks : board'[t] = board[t] \/ t \in touched',
         InWave /\ shared' => \A t \in Tasks \ wave : board'[t] = store'[t]
  PROVE  Kept'
<1>1. \A t \in Tasks : ladder'[t] # "out" => t \in wave /\ pc' \in Climbing
  BY DEF IInv, Kept, WaveInv
<1> QED BY <1>1, KeptInside DEF InWave

LEMMA EditInv ==
  ASSUME IInv, NEW t \in Tasks, NEW x \in Task, NEW mem \in {Mem, store}, Edit(t),
         Update(t, x) \/ UpdateApart(mem, t, x)
  PROVE  IInv'
<1>1. mem \in [Tasks -> Task] /\ Mem \in [Tasks -> Task]
  BY BoardTypes DEF IInv, Mem
<1>2. store' \in [Tasks -> Task] /\ board' \in [Tasks -> Task] /\ shared' \in BOOLEAN
  <2>1. [Mem EXCEPT ![t] = x] \in [Tasks -> Task] /\ [mem EXCEPT ![t] = x] \in [Tasks -> Task]
    BY <1>1
  <2> QED BY <2>1 DEF Update, UpdateApart, IInv, TypeOK
<1>3. edits' \in 0 .. MaxEdits /\ touched' \subseteq Tasks
  BY BoundsAreNat DEF Edit, IInv, TypeOK
<1>4. TypeOK'
  BY <1>2, <1>3 DEF Edit, IInv, TypeOK, waveVars, sigVars
<1>5. Kept'
  <2>1. \A u \in Tasks : board'[u] = board[u] \/ u \in touched'
    BY BoardTypes DEF Edit, Update, UpdateApart, Mem, IInv
  <2>2. shared' => board' = store'
    BY DEF Update, UpdateApart
  <2> QED BY <2>1, <2>2, KeptByOthers DEF Edit, waveVars
<1> QED BY <1>4, <1>5 DEF IInv

LEMMA PeopleInv ==
  ASSUME IInv, People
  PROVE  IInv'
<1>1. ASSUME NEW t \in Tasks, NEW c \in Columns, Patch(t, c) PROVE IInv'
  <2>1. Mem[t] \in Task
    BY BoardTypes DEF IInv, Mem
  <2>2. [Mem[t] EXCEPT !.col = c] \in Task
    BY <2>1, TaskUpdates
  <2> QED BY <1>1, <2>2, EditInv DEF Patch
<1>2. ASSUME NEW t \in Tasks, Retry(t) PROVE IInv'
  <2>1. store[t] \in Task
    BY BoardTypes DEF IInv
  <2>2. [store[t] EXCEPT !.col = "ready_to_dev", !.err = FALSE] \in Task
    BY <2>1, TaskUpdates, ColumnNames
  <2> QED BY <1>2, <2>2, EditInv DEF Retry
<1>3. ASSUME NEW t \in Tasks, NEW c \in Columns, Post(t, c) PROVE IInv'
  <2>1. [NoTask EXCEPT !.col = c] \in Task
    BY NoTaskType, TaskUpdates
  <2> QED BY <1>3, <2>1, EditInv DEF Post
<1>4. ASSUME NEW t \in Tasks, Delete(t) PROVE IInv'
  BY <1>4, NoTaskType, EditInv DEF Delete
<1>5. CASE Read
  <2>1. TypeOK'
    BY <1>5 DEF Read, IInv, TypeOK, runnerVars, envVars
  <2> QED BY <1>5, <2>1, KeptByOthers DEF Read, IInv, runnerVars
<1> QED BY <1>1, <1>2, <1>3, <1>4, <1>5, ColumnNames DEF People

LEMMA NextInv == IInv /\ [Next]_vars => IInv'
<1> SUFFICES ASSUME IInv, [Next]_vars PROVE IInv'
  OBVIOUS
<1>1. CASE Runner
  BY <1>1, RunnerInv
<1>2. CASE People
  BY <1>2, PeopleInv
<1>3. CASE Stop \/ RunwayEnds \/ UNCHANGED vars
  <2>1. TypeOK'
    <3>1. UNCHANGED <<runnerVars, storeVars, edits>> /\ live' \in {live, FALSE} /\ runway' \in {runway, FALSE}
      BY <1>3 DEF Stop, RunwayEnds, vars, envVars
    <3> QED BY <3>1 DEF runnerVars, storeVars, IInv, TypeOK
  <2>2. /\ UNCHANGED <<pc, wave, ladder, attempts, touched, board, store, shared>>
    BY <1>3 DEF Stop, RunwayEnds, vars, runnerVars, storeVars
  <2>3. InWave /\ shared' => \A t \in Tasks \ wave : board'[t] = store'[t]
    BY <2>2 DEF IInv, Kept, SharedBoardsAgree
  <2> QED BY <2>1, <2>2, <2>3, KeptByOthers DEF IInv
<1> QED BY <1>1, <1>2, <1>3 DEF Next

-----------------------------------------------------------------------------
\* The invariant holds in every reachable state of the scheduler.
THEOREM BoardInvariant == Spec => []IInv
<1>1. Init => IInv
  BY InitInv
<1>2. IInv /\ [Next]_vars => IInv'
  BY NextInv
<1> QED BY <1>1, <1>2, PTL DEF Spec

\* Every variable of the scheduler keeps its type; in particular a task's gate
\* retries and its attempts stay within their ceilings.
THEOREM BoardTypeCorrect == Spec => []TypeOK
<1>1. IInv => TypeOK
  BY DEF IInv
<1> QED BY <1>1, BoardInvariant, PTL

\* For every board and every set of declared files, two tasks of a wave never
\* claim the same file or a directory around it (progress.go, admitDisjoint).
THEOREM WavesNeverCollide == Spec => []WavesAreDisjoint
<1>1. IInv => WavesAreDisjoint
  BY DEF IInv, Kept
<1> QED BY <1>1, BoardInvariant, PTL

\* For every dependency graph, cyclic or dangling, and whatever people and the
\* coordinator do, a wave runs on finished work only (executableTasksLocked).
THEOREM WavesStandOnDoneWork == Spec => []FoundationsAreDone
<1>1. IInv => FoundationsAreDone
  BY DEF IInv, Kept
<1> QED BY <1>1, BoardInvariant, PTL

\* No task is dispatched with more than MaxAttempts attempts behind it
\* (attemptTracker and admitWave).
THEOREM AttemptCeilingHolds == Spec => []CeilingHolds
<1>1. IInv => CeilingHolds
  BY DEF IInv, Kept
<1> QED BY <1>1, BoardInvariant, PTL

\* While the store's memory is the runner's board, the file and the board agree
\* on every task outside the wave: an edit made then is never lost to a persist.
THEOREM SharedEditsStand == Spec => []SharedBoardsAgree
<1>1. IInv => SharedBoardsAgree
  BY DEF IInv, Kept
<1> QED BY <1>1, BoardInvariant, PTL

-----------------------------------------------------------------------------
\* What makes a task done.

\* The body of DoneNeedsAVerdict.
OnlyByVerdict ==
  \A t \in Tasks : board[t].col # "done" /\ board'[t].col = "done" =>
    verdict[t].task.col = "done" \/ ladder[t] = "asking" \/ store[t].col = "done"
      \/ edits' # edits

LEMMA DoneFromStore ==
  ASSUME IInv, NEW t \in Tasks, Settled(store)[t].col = "done"
  PROVE  store[t].col = "done"
  BY BoardTypes, SettledType DEF IInv

LEMMA DoneAtTheTop ==
  ASSUME IInv, RoundStarts,
         \A t \in Tasks : board'[t].col = "done" =>
            store[t].col = "done" \/ Settled(store)[t].col = "done"
  PROVE  OnlyByVerdict
  BY DoneFromStore DEF OnlyByVerdict

LEMMA DoneBySchedule ==
  ASSUME IInv, NEW W, NEW skip, Schedule(W, skip)
  PROVE  OnlyByVerdict
<1> DEFINE b == Settled(store)
           ready == [t \in Tasks |-> IF t \in Parked(W)
                                     THEN [b[t] EXCEPT !.col = "to_scope", !.err = TRUE]
                                     ELSE b[t]]
           go == W \ Parked(W)
<1>1. b \in [Tasks -> Task]
  BY BoardTypes, SettledType DEF IInv
<1>2. board' = IF go = {} THEN ready
               ELSE [t \in Tasks |-> IF t \in go THEN [ready[t] EXCEPT !.col = "in_progress"]
                                     ELSE ready[t]]
  BY DEF Schedule
<1>3. RoundStarts
  BY DEF Schedule
<1>4. ASSUME NEW t \in Tasks, board'[t].col = "done" PROVE b[t].col = "done"
  <2> HIDE DEF b
  <2>1. b[t] \in Task
    BY <1>1
  <2> DEFINE parked == [b[t] EXCEPT !.col = "to_scope", !.err = TRUE]
  <2>2. parked \in Task /\ parked.col = "to_scope"
    BY <2>1, TaskUpdates, ColumnNames
  <2>3. ready[t] \in Task /\ (ready[t] = b[t] \/ ready[t].col = "to_scope")
    BY <2>1, <2>2
  <2> HIDE DEF ready
  <2>4. [ready[t] EXCEPT !.col = "in_progress"].col = "in_progress"
    BY <2>3, TaskUpdates, ColumnNames
  <2>5. board'[t] = ready[t] \/ board'[t].col = "in_progress"
    BY <1>2, <2>4
  <2> QED BY <1>4, <2>3, <2>5
<1> QED BY <1>3, <1>4, DoneAtTheTop

LEMMA DoneByLadder ==
  ASSUME IInv, NEW t \in Tasks, Look(t) \/ Conclude(t) \/ Answer(t)
  PROVE  OnlyByVerdict
<1>1. board \in [Tasks -> Task] /\ verdict \in [Tasks -> [task : Task, esc : BOOLEAN]]
  BY DEF IInv, TypeOK
<1>2. CASE Look(t)
  BY <1>1, <1>2 DEF Look, Merge, OnlyByVerdict, Task
<1>3. CASE Conclude(t)
  <2>1. [verdict[t].task EXCEPT !.col = "ready_to_dev", !.err = FALSE].col = "ready_to_dev"
    <3>1. verdict[t].task \in Task
      BY <1>1
    <3> QED BY <3>1, TaskUpdates, ColumnNames
  <2> QED BY <1>1, <1>3, <2>1 DEF Conclude, OnlyByVerdict
<1>4. CASE Answer(t)
  BY <1>1, <1>4 DEF Answer, OnlyByVerdict
<1> QED BY <1>2, <1>3, <1>4

LEMMA DoneByCollect ==
  ASSUME IInv, NEW ok, NEW weak, NEW late, NEW cut, NEW failed,
         Collect(ok, weak, late, cut, failed)
  PROVE  OnlyByVerdict
<1> SUFFICES ASSUME NEW t \in Tasks, board'[t].col = "done" PROVE board[t].col = "done"
  BY DEF OnlyByVerdict
<1>1. board[t] \in Task
  BY BoardTypes DEF IInv
<1>2. board'[t] \in {Delivered(t), AfterTimeout(t), board[t],
                    [board[t] EXCEPT !.col = "blocked", !.err = TRUE]}
  BY DEF Collect
<1>3. /\ Delivered(t).col = "in_review"
      /\ AfterTimeout(t).col \in {"ready_to_dev", "to_scope"}
      /\ [board[t] EXCEPT !.col = "blocked", !.err = TRUE].col = "blocked"
  BY <1>1, WrittenColumns DEF Delivered, AfterTimeout
<1> QED BY <1>2, <1>3

LEMMA DoneByFinishRound ==
  ASSUME IInv, NEW promoted, NEW added, NEW stop, NEW quiet,
         FinishRound(promoted, added, stop, quiet)
  PROVE  OnlyByVerdict
<1> SUFFICES ASSUME NEW t \in Tasks, board'[t].col = "done" PROVE board[t].col = "done"
  BY DEF OnlyByVerdict
<1>1. board'[t] \in {[board[t] EXCEPT !.col = "ready_to_dev"],
                    [NoTask EXCEPT !.col = "ready_to_dev"], board[t]}
  BY DEF FinishRound
<1>2. /\ [board[t] EXCEPT !.col = "ready_to_dev"].col = "ready_to_dev"
      /\ [NoTask EXCEPT !.col = "ready_to_dev"].col = "ready_to_dev"
  <2>1. board[t] \in Task /\ NoTask \in Task
    BY BoardTypes, NoTaskType DEF IInv
  <2> QED BY <2>1, WrittenColumns
<1> QED BY <1>1, <1>2

LEMMA DoneByNext ==
  ASSUME IInv, [Next]_vars
  PROVE  OnlyByVerdict
<1>1. CASE UNCHANGED board
  BY <1>1 DEF OnlyByVerdict
<1>2. CASE ReturnOutOfRunway
  BY <1>2, DoneAtTheTop DEF ReturnOutOfRunway, Reload
<1>3. CASE Reclaim
  <2> DEFINE b == Settled(store)
  <2>1. b \in [Tasks -> Task]
    BY BoardTypes, SettledType DEF IInv
  <2>2. board' = [t \in Tasks |-> IF t \in Orphans(b)
                                 THEN [b[t] EXCEPT !.col = "ready_to_dev"] ELSE b[t]]
    BY <1>3 DEF Reclaim
  <2>3. ASSUME NEW t \in Tasks, board'[t].col = "done" PROVE b[t].col = "done"
    <3> HIDE DEF b
    <3>1. [b[t] EXCEPT !.col = "ready_to_dev"].col = "ready_to_dev"
      BY <2>1, TaskUpdates, ColumnNames
    <3> QED BY <2>2, <2>3, <3>1
  <2> QED BY <1>3, <2>3, DoneAtTheTop DEF Reclaim, NothingReady
<1>4. CASE IdleForAgents \/ IdleForHumans \/ ReturnDrained
  BY <1>4, DoneAtTheTop DEF IdleForAgents, IdleForHumans, ReturnDrained, NothingReady, Reload
<1>5. CASE \E W, skip \in SUBSET Tasks : Schedule(W, skip)
  BY <1>5, DoneBySchedule
<1>6. CASE \E t \in Tasks : Look(t) \/ Conclude(t) \/ Answer(t)
  BY <1>6, DoneByLadder
<1>7. CASE ConcludeAll
  BY <1>7 DEF ConcludeAll, OnlyByVerdict
<1>8. CASE CollectAny
  BY <1>8, DoneByCollect DEF CollectAny
<1>9. CASE FinishRoundAny
  BY <1>9, DoneByFinishRound DEF FinishRoundAny
<1>10. CASE ReturnCanceled \/ ReturnGuard \/ (\E t \in Tasks : Judge(t)) \/ EndPrepare \/ EndReview
  BY <1>1, <1>10 DEF ReturnCanceled, ReturnGuard, Judge, EndPrepare, EndReview
<1>11. CASE StartReview
  <2>1. \A t \in Tasks : Delivered(t).col = "in_review"
    <3>1. \A t \in Tasks : board[t] \in Task
      BY BoardTypes DEF IInv
    <3> QED BY <3>1, WrittenColumns DEF Delivered
  <2> QED BY <1>11, <2>1 DEF StartReview, OnlyByVerdict
<1>12. CASE People \/ Stop \/ RunwayEnds
  <2>1. edits \in Nat
    BY BoundsAreNat DEF IInv, TypeOK
  <2>2. CASE Read \/ Stop \/ RunwayEnds
    BY <1>1, <2>2 DEF Read, Stop, RunwayEnds, runnerVars
  <2>3. CASE \E t \in Tasks : Edit(t)
    BY <2>1, <2>3 DEF Edit, OnlyByVerdict
  <2> QED BY <1>12, <2>2, <2>3 DEF People, Patch, Retry, Post, Delete
<1>13. CASE UNCHANGED vars
  BY <1>1, <1>13 DEF vars, runnerVars
<1> QED BY <1>2, <1>3, <1>4, <1>5, <1>6, <1>7, <1>8, <1>9, <1>10, <1>11, <1>12, <1>13 DEF Next, Runner

\* A task becomes done only by a verdict on it, an answer to its escalation, or
\* because the store already says so (a person's edit): never as a side effect
\* of scheduling, of a worker's report or of another task's review.
THEOREM DoneIsEarned == Spec => DoneNeedsAVerdict
<1>1. IInv /\ [Next]_vars =>
        [\A t \in Tasks : board[t].col # "done" /\ board'[t].col = "done" =>
           verdict[t].task.col = "done" \/ ladder[t] = "asking" \/ store[t].col = "done"
             \/ edits' # edits]_vars
  BY DoneByNext DEF OnlyByVerdict
<1> QED BY <1>1, BoardInvariant, PTL DEF Spec, DoneNeedsAVerdict

-----------------------------------------------------------------------------
\* How RunBoard ends, and what the wave's stages mean for the ladders: a result is
\* set with the return, and between the workers and the reviews no ladder climbs.
EndInv ==
  /\ pc # "returned" => result = "running"
  /\ pc = "critique" => \A t \in Tasks : ladder[t] \in {"out", "weak"}
  /\ NothingLeftInFlight
  /\ IdleOnlyWhenDangling

HandedBack == {"drained", "human_backlog", "idle_timeout"}

\* A step that does not hand the board back.
LEMMA EndsOtherwise ==
  ASSUME EndInv, pc' # "returned" => result' = "running", result' \notin HandedBack,
         pc' = "critique" => \A t \in Tasks : ladder'[t] \in {"out", "weak"}
  PROVE  EndInv'
  BY DEF EndInv, NothingLeftInFlight, IdleOnlyWhenDangling, HandedBack

\* A settled board with agent work left, none of it executable or in flight, and no
\* human backlog: some ready task waits for an ID that is not on the board.
LEMMA IdleIsDangling ==
  ASSUME IInv, IdleForAgents
  PROVE  \E t \in Tasks : board'[t].col = "ready_to_dev" /\ \E d \in Deps[t] : board'[d].col = "absent"
<1>1. PICK b : b = Settled(store)
  OBVIOUS
<1>2. b \in [Tasks -> Task] /\ board' = b /\ store \in [Tasks -> Task]
  BY <1>1, BoardTypes, SettledType DEF IInv, IdleForAgents, Reload
<1>3. PICK c : c = PropagateBlocked(Cols(store), Deps)
  OBVIOUS
<1>4. Cols(store) \in [Tasks -> Columns]
  BY <1>2 DEF Cols, Task
<1>5. Cols(b) = c
  <2>1. ASSUME NEW t \in Tasks PROVE b[t].col = c[t]
    <3>1. CASE c[t] = store[t].col
      BY <1>1, <1>3, <3>1 DEF Settled
    <3>2. CASE c[t] # store[t].col
      <4>1. PICK x \in Task : x = store[t]
        BY <1>2
      <4>2. b[t] = [x EXCEPT !.col = c[t], !.err = TRUE]
        BY <1>1, <1>3, <3>2, <4>1 DEF Settled
      <4>3. c[t] = "blocked"
        BY <1>2, <1>3, <3>2 DEF PropagateBlocked, Cols
      <4>4. [x EXCEPT !.col = "blocked", !.err = TRUE].col = "blocked"
        BY TaskUpdates, ColumnNames
      <4> QED BY <4>2, <4>3, <4>4
    <3> QED BY <3>1, <3>2
  <2> QED BY <2>1, <1>3 DEF Cols, PropagateBlocked
<1>6. /\ Executable(c, Deps) = {}
      /\ AgentWorkRemaining(c) /\ ~ HumanBacklogRemaining(c)
      /\ \A t \in Tasks : c[t] \notin InFlightCols
  <2>1. Executable(Cols(b), Deps) = {} /\ AgentWorkRemaining(Cols(b)) /\ ~ HumanBacklogRemaining(Cols(b))
        /\ Orphans(b) = {}
    BY <1>1 DEF IdleForAgents, NothingReady, Ready
  <2>2. \A t \in Tasks : Cols(b)[t] = b[t].col
    BY DEF Cols
  <2> QED BY <2>1, <2>2, <1>5 DEF Orphans
<1>7. ReadyOf(c) # {}
  BY <1>6 DEF AgentWorkRemaining, ReadyOf
<1>8. \E t \in ReadyOf(c) : \E d \in Deps[t] : c[d] \in {"absent"} \cup InFlightCols \cup Human
  BY <1>3, <1>4, <1>6, <1>7, IdleForAReason, DepsType
<1>9. PICK t \in ReadyOf(c) : \E d \in Deps[t] : c[d] \in {"absent"} \cup InFlightCols \cup Human
  BY <1>8
<1>12. PICK d \in Deps[t] : c[d] \in {"absent"} \cup InFlightCols \cup Human
  BY <1>9
<1>10. t \in Tasks /\ d \in Tasks /\ c[t] = "ready_to_dev"
  BY <1>12, DepsType DEF ReadyOf
<1>11. c[d] = "absent"
  BY <1>6, <1>12, <1>10 DEF HumanBacklogRemaining
<1> QED BY <1>2, <1>5, <1>10, <1>11, <1>12 DEF Cols

LEMMA EndAtTheTop ==
  ASSUME IInv, EndInv, IdleForAgents \/ IdleForHumans \/ ReturnDrained
  PROVE  EndInv'
<1> DEFINE b == Settled(store)
<1>1. b \in [Tasks -> Task]
  BY BoardTypes, SettledType DEF IInv
<1>2. board' = b /\ pc = "top" /\ result = "running" /\ pc' \in {"top", "returned"}
  BY DEF IdleForAgents, IdleForHumans, ReturnDrained, NothingReady, RoundStarts, Reload, Return, EndInv
<1>3. \A t \in Tasks : b[t].col \notin InFlightCols
  <2>1. CASE IdleForAgents \/ IdleForHumans
    BY <2>1 DEF IdleForAgents, IdleForHumans, Orphans
  <2>2. CASE ReturnDrained
    BY <1>1, <2>2 DEF ReturnDrained, AgentWorkRemaining, Cols
  <2> QED BY <2>1, <2>2
<1>4. pc' # "returned" => result' = "running"
  BY <1>2 DEF IdleForAgents, IdleForHumans, ReturnDrained, Return
<1>5. IdleOnlyWhenDangling'
  <2>1. CASE IdleForAgents
    BY <2>1, IdleIsDangling DEF IdleOnlyWhenDangling
  <2>2. CASE IdleForHumans \/ ReturnDrained
    BY <2>2, <1>2 DEF IdleForHumans, ReturnDrained, Return, IdleOnlyWhenDangling
  <2> QED BY <2>1, <2>2
<1> QED BY <1>2, <1>3, <1>4, <1>5 DEF EndInv, NothingLeftInFlight

LEMMA EndByNext == IInv /\ EndInv /\ [Next]_vars => EndInv'
<1> SUFFICES ASSUME IInv, EndInv, [Next]_vars PROVE EndInv'
  OBVIOUS
<1> USE EndsOtherwise DEF HandedBack
<1>1. CASE ReturnCanceled \/ ReturnGuard \/ ReturnOutOfRunway
  BY <1>1 DEF ReturnCanceled, ReturnGuard, ReturnOutOfRunway, Return
<1>2. CASE IdleForAgents \/ IdleForHumans \/ ReturnDrained
  BY <1>2, EndAtTheTop
<1>3. CASE Reclaim \/ \E W, skip \in SUBSET Tasks : Schedule(W, skip)
  <2>1. pc = "top" /\ pc' \in {"top", "prepare"} /\ result' = result
    BY <1>3 DEF Reclaim, NothingReady, RoundStarts, Schedule
  <2> QED BY <2>1 DEF EndInv
<1>4. CASE (\E t \in Tasks : Look(t) \/ Judge(t) \/ Conclude(t) \/ Answer(t)) \/ ConcludeAll
  <2>1. pc \in {"prepare", "review"} /\ pc' = pc /\ result' = result
    BY <1>4 DEF Look, Judge, Conclude, Answer, ConcludeAll, MayAct, Reviewing
  <2> QED BY <2>1 DEF EndInv
<1>5. CASE EndPrepare \/ StartReview
  <2>1. pc \in {"prepare", "critique"} /\ pc' \in {"after", "work", "review"} /\ result' = result
    BY <1>5 DEF EndPrepare, StartReview
  <2> QED BY <2>1 DEF EndInv
<1>6. CASE CollectAny
  <2>1. PICK ok, weak, late, cut, failed \in SUBSET Workers : Collect(ok, weak, late, cut, failed)
    BY <1>6 DEF CollectAny
  <2>2. pc = "work" /\ pc' = "critique" /\ result' = result
        /\ \A t \in Tasks : ladder'[t] \in {"out", "weak"}
    BY <2>1 DEF Collect
  <2> QED BY <2>2 DEF EndInv
<1>7. CASE EndReview \/ FinishRoundAny
  <2>1. \/ pc' = "returned" /\ result' \in {"canceled", "objective_met", "no_progress"}
        \/ pc # "returned" /\ pc' \in {"after", "top"} /\ result' = result
    BY <1>7 DEF EndReview, FinishRoundAny, FinishRound, Return
  <2> QED BY <2>1 DEF EndInv
<1>8. CASE People \/ Stop \/ RunwayEnds
  <2>1. pc # "returned" /\ UNCHANGED <<pc, result, ladder>>
    BY <1>8 DEF People, Patch, Retry, Post, Delete, Edit, Read, Stop, RunwayEnds, runnerVars, waveVars
  <2> QED BY <2>1 DEF EndInv
<1>9. CASE UNCHANGED vars
  BY <1>9 DEF vars, runnerVars, EndInv, NothingLeftInFlight, IdleOnlyWhenDangling
<1> QED BY <1>1, <1>2, <1>3, <1>4, <1>5, <1>6, <1>7, <1>8, <1>9 DEF Next, Runner

LEMMA EndAlways == Spec => [](IInv /\ EndInv)
<1>1. Init => EndInv
  BY DEF Init, EndInv, NothingLeftInFlight, IdleOnlyWhenDangling
<1> QED BY <1>1, EndByNext, BoardInvariant, PTL DEF Spec

\* When RunBoard hands the board back, drained or to people or idle, no task is left in
\* a column that says somebody works on it.
THEOREM NothingIsLeftInFlight == Spec => []NothingLeftInFlight
<1>1. EndInv => NothingLeftInFlight
  BY DEF EndInv
<1> QED BY <1>1, EndAlways, PTL

\* runner.go:427-436: RunBoard gives up idle only over a ready task that waits for an ID
\* which is not on the board; for any board, failures, cycles and hand-backs end otherwise.
THEOREM IdleMeansDangling == Spec => []IdleOnlyWhenDangling
<1>1. EndInv => IdleOnlyWhenDangling
  BY DEF EndInv
<1> QED BY <1>1, EndAlways, PTL

-----------------------------------------------------------------------------
\* Who is still to be reviewed.

\* Delivered, and driveReview does not take it for a failure.
Waits(b, t) == b[t].col = "in_review" /\ ~ b[t].err

\* A task of the wave that waits for its review has a ladder, from the moment reviews
\* start until they end; before them it is one a worker delivered.
ReviewInv ==
  /\ \A t \in Tasks : ladder[t] = "judged" => verdict[t].task.col # "in_review"
  /\ pc \in {"prepare", "review"} =>
       \A t \in wave \ touched : Waits(board, t) \/ Waits(store, t) => ladder[t] # "out"
  /\ pc \in {"work", "after"} => \A t \in wave \ touched : ~ Waits(board, t)
  /\ pc = "critique" =>
       /\ \A t \in wave \ touched : (Waits(board, t) => t \in Workers) /\ (Waits(store, t) => Waits(board, t))
       /\ \A t \in Tasks : ladder[t] # "out" => t \in Workers

Typed ==
  /\ board \in [Tasks -> Task] /\ store \in [Tasks -> Task] /\ wave \subseteq Tasks /\ touched \subseteq Tasks
  /\ ladder \in [Tasks -> {"out", "weak", "look", "judge", "judged", "asking"}]
  /\ verdict \in [Tasks -> [task : Task, esc : BOOLEAN]]

\* What an answer may make of a task that was handed over.
Answered(x) ==
  {[x EXCEPT !.col = "to_scope"], [x EXCEPT !.col = "done", !.err = FALSE],
   [x EXCEPT !.col = "blocked", !.err = TRUE],
   [x EXCEPT !.col = "ready_to_dev", !.err = FALSE, !.gate = @ + 1]}

LEMMA AnsweredColumns ==
  ASSUME NEW x \in Task, NEW y \in Answered(x)
  PROVE  y.col # "in_review" /\ y.col # "in_progress" /\ y.col # "absent"
  BY DEF Task, Answered

LEMMA ReviewLadder ==
  ASSUME Typed, ReviewInv, NEW t \in Tasks, Look(t) \/ Judge(t) \/ Conclude(t) \/ Answer(t)
  PROVE  ReviewInv'
<1>1. pc \in {"prepare", "review"} /\ UNCHANGED <<pc, wave, skipped, touched>> /\ ladder[t] # "out"
  BY DEF Look, Judge, Conclude, Answer, MayAct, Reviewing, Persist, Merge, storeVars
<1>2. \A u \in Tasks \ {t} : ladder'[u] = ladder[u]
  BY DEF Typed, Look, Judge, End, Conclude, Answer
<1>3. \A u \in wave \ touched : Waits(board, u) \/ Waits(store, u) => ladder[u] # "out"
  BY <1>1 DEF ReviewInv
<1>4. CASE Look(t)
  <2>1. store' = store /\ ladder'[t] \in {"judge", "judged"}
        /\ (ladder'[t] = "judged" => verdict'[t].task = store[t] /\ store[t].col \in TakenAway)
        /\ \A u \in Tasks \ {t} : verdict'[u] = verdict[u]
    BY <1>4 DEF Typed, Look
  <2>2. \A u \in Tasks \ {t} : board'[u] = store[u] \/ board'[u] = board[u]
    BY <1>4 DEF Typed, Look, Merge
  <2>3. "in_review" \notin TakenAway
    BY DEF TakenAway, Human
  <2>4. \A u \in wave \ touched : Waits(board', u) \/ Waits(store', u) => ladder'[u] # "out"
    BY <2>1, <2>2, <1>2, <1>3 DEF Waits, Typed
  <2>5. \A u \in Tasks : ladder'[u] = "judged" => verdict'[u].task.col # "in_review"
    BY <2>1, <2>3, <1>2 DEF ReviewInv
  <2> QED BY <2>4, <2>5, <1>1 DEF ReviewInv, Waits
<1>5. CASE Judge(t)
  <2>1. board' = board /\ store' = store /\ ladder'[t] \in {"judged", "look"}
    BY <1>5 DEF Typed, Judge, End, storeVars
  <2>2. \A u \in Tasks \ {t} : verdict'[u] = verdict[u]
    BY <1>5 DEF Typed, Judge, End
  <2>3. ladder'[t] = "judged" => verdict'[t].task.col # "in_review"
    BY <1>5 DEF Typed, Judge, End
  <2>4. \A u \in wave \ touched : Waits(board', u) \/ Waits(store', u) => ladder'[u] # "out"
    BY <2>1, <1>2, <1>3 DEF Typed
  <2>5. \A u \in Tasks : ladder'[u] = "judged" => verdict'[u].task.col # "in_review"
    BY <2>2, <2>3, <1>2 DEF ReviewInv
  <2> QED BY <2>4, <2>5, <1>1 DEF ReviewInv, Waits
<1>6. CASE Conclude(t)
  <2>1. store' = board' /\ ladder'[t] # "judged" /\ ladder[t] = "judged"
        /\ \A u \in Tasks \ {t} : verdict'[u] = verdict[u] /\ board'[u] = board[u]
    BY <1>6 DEF Typed, Conclude, Persist
  <2>2. board'[t].col # "in_review"
    <3>1. verdict[t].task.col # "in_review" /\ verdict[t].task \in Task
      BY <2>1 DEF ReviewInv, Typed
    <3>2. PICK x \in Task : x = verdict[t].task
      BY <3>1
    <3>3. board' \in {[board EXCEPT ![t] = x], [board EXCEPT ![t] = [x EXCEPT !.col = "ready_to_dev", !.err = FALSE]]}
      BY <1>6, <3>2 DEF Conclude
    <3>4. [x EXCEPT !.col = "ready_to_dev", !.err = FALSE].col = "ready_to_dev"
      BY DEF Task
    <3> QED BY <3>1, <3>2, <3>3, <3>4 DEF Typed
  <2>3. \A u \in wave \ touched : Waits(board', u) \/ Waits(store', u) => ladder'[u] # "out"
    BY <2>1, <2>2, <1>2, <1>3 DEF Waits, Typed
  <2>4. \A u \in Tasks : ladder'[u] = "judged" => verdict'[u].task.col # "in_review"
    BY <2>1, <1>2 DEF ReviewInv
  <2> QED BY <2>3, <2>4, <1>1 DEF ReviewInv, Waits
<1>7. CASE Answer(t)
  <2>1. store' = board' /\ ladder'[t] # "judged" /\ verdict' = verdict
    BY <1>7 DEF Typed, Answer, Persist
  <2>2. \A u \in Tasks \ {t} : board'[u] = board[u]
    BY <1>7 DEF Typed, Answer
  <2>3. board'[t].col # "in_review"
    <3>1. PICK x \in Task : x = board[t]
      BY DEF Typed
    <3>2. \E y \in Answered(x) : board' = [board EXCEPT ![t] = y]
      BY <3>1, <1>7 DEF Answer, Answered
    <3>3. PICK y \in Answered(x) : board' = [board EXCEPT ![t] = y]
      BY <3>2
    <3>4. board'[t] = y
      BY <3>3 DEF Typed
    <3>5. y.col # "in_review"
      BY <3>1, <3>3, AnsweredColumns
    <3> QED BY <3>4, <3>5
  <2>4. \A u \in wave \ touched : Waits(board', u) \/ Waits(store', u) => ladder'[u] # "out"
    BY <2>1, <2>2, <2>3, <1>2, <1>3 DEF Waits, Typed
  <2>5. \A u \in Tasks : ladder'[u] = "judged" => verdict'[u].task.col # "in_review"
    BY <2>1, <1>2 DEF ReviewInv
  <2> QED BY <2>4, <2>5, <1>1 DEF ReviewInv, Waits
<1> QED BY <1>4, <1>5, <1>6, <1>7

LEMMA ReviewAll ==
  ASSUME Typed, ReviewInv, ConcludeAll
  PROVE  ReviewInv'
<1>1. pc \in {"prepare", "review"} /\ UNCHANGED <<pc, wave, skipped, touched>> /\ store' = board'
  BY DEF ConcludeAll, Reviewing, Persist
<1>2. \A t \in Tasks : ladder'[t] # "judged"
  BY DEF ConcludeAll
<1>3. \A t \in wave \ touched : ~ Waits(board', t)
  <2> SUFFICES ASSUME NEW t \in wave \ touched PROVE ~ Waits(board', t)
    OBVIOUS
  <2>1. CASE ladder[t] = "out"
    <3>1. board'[t] = board[t]
      BY <2>1 DEF ConcludeAll, Typed
    <3> QED BY <3>1, <2>1, <1>1 DEF ReviewInv, Waits
  <2>2. CASE ladder[t] # "out"
    <3>1. ladder[t] = "judged" /\ board'[t] = verdict[t].task
      BY <2>2 DEF ConcludeAll, Typed
    <3> QED BY <3>1 DEF ReviewInv, Typed, Waits
  <2> QED BY <2>1, <2>2
<1> QED BY <1>1, <1>2, <1>3 DEF ReviewInv, Waits

LEMMA ReviewSchedule ==
  ASSUME Typed, ReviewInv, NEW W \in SUBSET Tasks, NEW skip \in SUBSET Tasks, Schedule(W, skip)
  PROVE  ReviewInv'
<1> DEFINE b == Settled(store)
           parked == Parked(W)
           go == W \ parked
           ready == [t \in Tasks |-> IF t \in parked
                                     THEN [b[t] EXCEPT !.col = "to_scope", !.err = TRUE]
                                     ELSE b[t]]
<1>1. b \in [Tasks -> Task]
  BY SettledType DEF Typed
<1>2. \A t \in Tasks : ready[t] \in Task
  <2>1. \A t \in Tasks : b[t] \in Task /\ [b[t] EXCEPT !.col = "to_scope", !.err = TRUE] \in Task
    <3> HIDE DEF b
    <3> QED BY <1>1, TaskUpdates, ColumnNames
  <2> HIDE DEF b, parked
  <2> QED BY <2>1
<1>3. pc = "top" /\ verdict' = verdict
  BY DEF Schedule, RoundStarts, waveVars
<1>4. \/ pc' = pc /\ ladder' = ladder
      \/ /\ pc' = "prepare" /\ wave' = go /\ store' = board'
         /\ ladder' = [t \in Tasks |-> IF t \in skip THEN "look" ELSE "out"]
         /\ board' = [t \in Tasks |-> IF t \in go THEN [ready[t] EXCEPT !.col = "in_progress"] ELSE ready[t]]
  BY DEF Schedule, waveVars, PersistReloaded
<1> HIDE DEF b, parked, ready
<1>5. CASE pc' = pc /\ ladder' = ladder
  BY <1>3, <1>5 DEF ReviewInv
<1>6. CASE /\ pc' = "prepare" /\ wave' = go /\ store' = board'
           /\ ladder' = [t \in Tasks |-> IF t \in skip THEN "look" ELSE "out"]
           /\ board' = [t \in Tasks |-> IF t \in go THEN [ready[t] EXCEPT !.col = "in_progress"] ELSE ready[t]]
  <2>1. \A t \in go : board'[t].col = "in_progress"
    <3> SUFFICES ASSUME NEW t \in go PROVE board'[t].col = "in_progress"
      OBVIOUS
    <3>1. PICK x \in Task : x = ready[t]
      BY <1>2
    <3>2. board'[t] = [x EXCEPT !.col = "in_progress"]
      BY <3>1, <1>6
    <3>3. [x EXCEPT !.col = "in_progress"].col = "in_progress"
      BY TaskUpdates, ColumnNames
    <3> QED BY <3>2, <3>3
  <2>2. \A t \in Tasks : ladder'[t] # "judged"
    BY <1>6
  <2> QED BY <2>1, <2>2, <1>6 DEF ReviewInv, Waits
<1> QED BY <1>4, <1>5, <1>6

\* What happens outside the wave.
LEMMA ReviewOutside ==
  ASSUME ReviewInv, pc' \in {"top", "returned"}, UNCHANGED <<ladder, verdict>>
  PROVE  ReviewInv'
  BY DEF ReviewInv

LEMMA ReviewStages ==
  ASSUME Typed, ReviewInv, EndPrepare \/ CollectAny \/ StartReview \/ EndReview
  PROVE  ReviewInv'
<1>1. CASE EndPrepare
  <2>1. /\ pc = "prepare" /\ LaddersOut /\ pc' \in {"after", "work"}
        /\ UNCHANGED <<board, wave, skipped, touched, ladder, verdict>>
    BY <1>1 DEF EndPrepare, Persist, storeVars, waveVars
  <2> QED BY <2>1 DEF ReviewInv, LaddersOut, Waits, Typed
<1>2. CASE EndReview
  <2>1. /\ pc = "review" /\ LaddersOut /\ pc' \in {"after", "returned"}
        /\ UNCHANGED <<board, wave, skipped, touched, ladder, verdict>>
    BY <1>2 DEF EndReview, Persist, waveVars, Return
  <2> QED BY <2>1 DEF ReviewInv, LaddersOut, Waits, Typed
<1>3. CASE CollectAny
  <2>1. PICK ok, weak, late, cut, failed \in SUBSET Workers :
               /\ ok \cup weak \cup late \cup cut \cup failed = Workers
               /\ Collect(ok, weak, late, cut, failed)
    BY <1>3 DEF CollectAny
  <2>2. /\ pc = "work" /\ pc' = "critique" /\ store' = board'
        /\ UNCHANGED <<wave, skipped, touched, verdict>>
        /\ \A t \in Tasks : ladder'[t] = IF t \in weak THEN "weak" ELSE "out"
        /\ \A t \in Tasks : t \notin Workers => board'[t] = board[t]
    <3>1. board' = [t \in Tasks |->
            CASE t \in ok -> Delivered(t)
              [] t \in late -> AfterTimeout(t)
              [] t \in cut \cup failed -> [board[t] EXCEPT !.col = "blocked", !.err = TRUE]
              [] OTHER -> board[t]]
      BY <2>1 DEF Collect
    <3>2. \A t \in Tasks : t \notin Workers => t \notin ok /\ t \notin late /\ t \notin cut \cup failed
      BY <2>1
    <3>3. \A t \in Tasks : t \notin Workers => board'[t] = board[t]
      BY <3>1, <3>2
    <3> QED BY <2>1, <3>3 DEF Collect, Persist
  <2>3. \A t \in wave \ touched : Waits(board', t) => t \in Workers
    BY <2>2 DEF ReviewInv, Waits, Typed
  <2> QED BY <2>1, <2>2, <2>3 DEF ReviewInv, Waits, Workers
<1>4. CASE StartReview
  <2>1. /\ pc = "critique" /\ pc' = "review" /\ UNCHANGED <<store, wave, skipped, touched, verdict>>
        /\ \A t \in Tasks : board'[t] = IF ladder[t] = "weak" THEN Delivered(t) ELSE board[t]
        /\ \A t \in Tasks : ladder'[t] = IF t \in Workers /\ Waits(board', t) THEN "look" ELSE "out"
    BY <1>4 DEF StartReview, Waits, storeVars
  <2>2. \A t \in Tasks : Waits(board, t) => Waits(board', t)
    <3> SUFFICES ASSUME NEW t \in Tasks, Waits(board, t) PROVE Waits(board', t)
      OBVIOUS
    <3>1. PICK x \in Task : x = board[t]
      BY DEF Typed
    <3>2. board'[t] \in {x, [x EXCEPT !.col = "in_review"]}
      BY <2>1, <3>1 DEF Delivered
    <3> QED BY <3>1, <3>2 DEF Waits, Task
  <2>3. \A t \in wave \ touched : Waits(board', t) \/ Waits(store', t) => t \in Workers /\ Waits(board', t)
    <3> SUFFICES ASSUME NEW t \in wave \ touched, Waits(board', t) \/ Waits(store, t)
                 PROVE  t \in Workers /\ Waits(board', t)
      BY <2>1 DEF Waits
    <3>1. t \in Tasks
      BY DEF Typed
    <3>2. CASE ladder[t] = "weak" \/ Waits(store, t)
      BY <3>1, <3>2, <2>1, <2>2 DEF ReviewInv
    <3>3. CASE ladder[t] # "weak" /\ Waits(board', t)
      BY <3>1, <3>3, <2>1 DEF ReviewInv, Waits
    <3> QED BY <3>2, <3>3
  <2> QED BY <2>1, <2>3 DEF ReviewInv, Waits, Typed
<1> QED BY <1>1, <1>2, <1>3, <1>4

\* People only write the tasks they touch.
OnlyTouched ==
  /\ touched \subseteq touched'
  /\ \A t \in Tasks \ touched' : board'[t] = board[t] /\ store'[t] \in {store[t], board[t]}

LEMMA EditTouches ==
  ASSUME Typed, NEW t \in Tasks, NEW x, NEW mem \in {Mem, store}, Edit(t), Update(t, x) \/ UpdateApart(mem, t, x)
  PROVE  OnlyTouched
<1>1. touched' = touched \cup {t} /\ board \in [Tasks -> Task] /\ store \in [Tasks -> Task]
  BY DEF Edit, Typed
<1>2. PICK m : store' = [m EXCEPT ![t] = x] /\ m \in {board, store} /\ board' \in {store', board}
                 /\ (board' # board => m = board)
  BY DEF Update, UpdateApart, Mem
<1>3. \A u \in Tasks \ {t} : board'[u] = board[u] /\ store'[u] \in {store[u], board[u]}
  BY <1>1, <1>2
<1> QED BY <1>1, <1>3 DEF OnlyTouched

LEMMA ReviewPeople ==
  ASSUME Typed, ReviewInv, People \/ Stop \/ RunwayEnds
  PROVE  ReviewInv'
<1>1. OnlyTouched /\ UNCHANGED <<pc, wave, skipped, ladder, verdict>>
  <2>1. ASSUME NEW t \in Tasks, NEW c, Patch(t, c) PROVE OnlyTouched /\ UNCHANGED <<pc, wave, skipped, ladder, verdict>>
    BY <2>1, EditTouches DEF Patch, Edit, waveVars
  <2>2. ASSUME NEW t \in Tasks, Retry(t) PROVE OnlyTouched /\ UNCHANGED <<pc, wave, skipped, ladder, verdict>>
    BY <2>2, EditTouches DEF Retry, Edit, waveVars
  <2>3. ASSUME NEW t \in Tasks, NEW c, Post(t, c) PROVE OnlyTouched /\ UNCHANGED <<pc, wave, skipped, ladder, verdict>>
    BY <2>3, EditTouches DEF Post, Edit, waveVars
  <2>4. ASSUME NEW t \in Tasks, Delete(t) PROVE OnlyTouched /\ UNCHANGED <<pc, wave, skipped, ladder, verdict>>
    BY <2>4, EditTouches DEF Delete, Edit, waveVars
  <2>5. CASE Read \/ Stop \/ RunwayEnds
    BY <2>5 DEF Read, Stop, RunwayEnds, runnerVars, storeVars, OnlyTouched
  <2> QED BY <2>1, <2>2, <2>3, <2>4, <2>5 DEF People
<1>2. \A t \in wave \ touched' : /\ t \in wave \ touched /\ board'[t] = board[t]
                                 /\ store'[t] \in {store[t], board[t]}
  BY <1>1 DEF OnlyTouched, Typed
<1>3. \A t \in wave \ touched' : /\ t \in wave \ touched /\ (Waits(board', t) <=> Waits(board, t))
                                 /\ Waits(store', t) => Waits(store, t) \/ Waits(board, t)
  BY <1>2 DEF Waits
<1> QED BY <1>1, <1>3 DEF ReviewInv, Waits, Workers

LEMMA ReviewByNext == TypeOK /\ ReviewInv /\ [Next]_vars => ReviewInv'
<1> SUFFICES ASSUME TypeOK, ReviewInv, [Next]_vars PROVE ReviewInv'
  OBVIOUS
<1>1. Typed
  BY DEF Typed, TypeOK
<1>2. CASE \/ ReturnCanceled \/ ReturnGuard \/ ReturnOutOfRunway
           \/ Reclaim \/ IdleForAgents \/ IdleForHumans \/ ReturnDrained
  <2>1. pc' \in {"top", "returned"} /\ UNCHANGED <<ladder, verdict>>
    BY <1>2 DEF ReturnCanceled, ReturnGuard, ReturnOutOfRunway, Reclaim, IdleForAgents, IdleForHumans,
                ReturnDrained, NothingReady, RoundStarts, Return, waveVars
  <2> QED BY <2>1, ReviewOutside
<1>3. CASE FinishRoundAny
  <2>1. pc' \in {"top", "returned"} /\ UNCHANGED <<ladder, verdict>>
    BY <1>3 DEF FinishRoundAny, FinishRound, Return
  <2> QED BY <2>1, ReviewOutside
<1>4. CASE \E W, skip \in SUBSET Tasks : Schedule(W, skip)
  BY <1>1, <1>4, ReviewSchedule
<1>5. CASE \E t \in Tasks : Look(t) \/ Judge(t) \/ Conclude(t) \/ Answer(t)
  BY <1>1, <1>5, ReviewLadder
<1>6. CASE ConcludeAll
  BY <1>1, <1>6, ReviewAll
<1>7. CASE EndPrepare \/ CollectAny \/ StartReview \/ EndReview
  BY <1>1, <1>7, ReviewStages
<1>8. CASE People \/ Stop \/ RunwayEnds
  BY <1>1, <1>8, ReviewPeople
<1>9. CASE UNCHANGED vars
  BY <1>9 DEF vars, runnerVars, storeVars, ReviewInv, Waits, Workers
<1> QED BY <1>2, <1>3, <1>4, <1>5, <1>6, <1>7, <1>8, <1>9 DEF Next, Runner

\* What a finished wave leaves in review, of what nobody touched, still has its Error set.
OnlyErrorsAreLeft ==
  pc = "after" => \A t \in wave \ touched : board[t].col = "in_review" => board[t].err

\* runner.go:2738-2739, for any people and any coordinator: a task that a wave delivered
\* leaves it without a review only because an earlier wave's Error is still on it.
THEOREM OnlyErrorsEscapeReview == Spec => []OnlyErrorsAreLeft
<1>1. Init => ReviewInv
  BY DEF Init, ReviewInv
<1>2. TypeOK /\ ReviewInv => OnlyErrorsAreLeft
  BY DEF ReviewInv, OnlyErrorsAreLeft, Waits
<1> QED BY <1>1, <1>2, ReviewByNext, BoardTypeCorrect, PTL DEF Spec

\* An Error says why a task waits for a person or is given up; no other task has one.
Quiet(x) == x.err => x.col \in {"blocked", "to_scope"}

\* Who is dispatched has none, until somebody judged it.
QuietInv ==
  /\ \A t \in Tasks : Quiet(board[t]) /\ Quiet(store[t])
  /\ \A t \in Tasks : ladder[t] = "judged" => Quiet(verdict[t].task)
  /\ pc \notin {"top", "returned"} => shared
  /\ pc = "prepare" => \A t \in Workers : ladder[t] = "out"
  /\ pc \in {"prepare", "work"} => \A t \in Workers : ~ board[t].err /\ ~ store[t].err
  /\ pc = "critique" => \A t \in Tasks : ladder[t] = "weak" => ~ board[t].err

LEMMA QuietUpdates ==
  ASSUME NEW x \in Task
  PROVE  /\ \A c \in Columns, e \in BOOLEAN : [x EXCEPT !.col = c, !.err = e].col = c
                                              /\ [x EXCEPT !.col = c, !.err = e].err = e
         /\ \A c \in Columns : [x EXCEPT !.col = c].col = c /\ [x EXCEPT !.col = c].err = x.err
  BY DEF Task

LEMMA SettledQuiet ==
  ASSUME NEW b \in [Tasks -> Task], \A t \in Tasks : Quiet(b[t])
  PROVE  \A t \in Tasks : Quiet(Settled(b)[t])
<1> SUFFICES ASSUME NEW t \in Tasks PROVE Quiet(Settled(b)[t])
  OBVIOUS
<1>1. PICK c : c = PropagateBlocked(Cols(b), Deps)
  OBVIOUS
<1>2. PICK x \in Task : x = b[t]
  OBVIOUS
<1>3. Settled(b)[t] = IF c[t] = x.col THEN x ELSE [x EXCEPT !.col = c[t], !.err = TRUE]
  BY <1>1, <1>2 DEF Settled
<1>4. c[t] # x.col => c[t] = "blocked"
  BY <1>1, <1>2 DEF PropagateBlocked, Cols
<1>5. [x EXCEPT !.col = "blocked", !.err = TRUE].col = "blocked"
  BY QuietUpdates, ColumnNames
<1> QED BY <1>2, <1>3, <1>4, <1>5 DEF Quiet

\* Five sets that make up S and together have as many elements as S share none.
SplitInto(S, A, B, C, D, E) ==
  /\ IsFiniteSet(S)
  /\ A \in SUBSET S /\ B \in SUBSET S /\ C \in SUBSET S /\ D \in SUBSET S /\ E \in SUBSET S
  /\ A \cup B \cup C \cup D \cup E = S
  /\ Cardinality(A) + Cardinality(B) + Cardinality(C) + Cardinality(D) + Cardinality(E) = Cardinality(S)

LEMMA OneOutcomeEach ==
  ASSUME NEW S, NEW A, NEW B, NEW C, NEW D, NEW E, SplitInto(S, A, B, C, D, E)
  PROVE  B \cap (A \cup C \cup D \cup E) = {}
<1> USE DEF SplitInto
<1>1. IsFiniteSet(A) /\ IsFiniteSet(B) /\ IsFiniteSet(C) /\ IsFiniteSet(D) /\ IsFiniteSet(E)
  BY FS_Subset
<1>2. ASSUME NEW X, NEW Y, IsFiniteSet(X), IsFiniteSet(Y)
      PROVE  /\ IsFiniteSet(X \cup Y) /\ IsFiniteSet(X \cap Y) /\ Cardinality(X \cap Y) \in Nat
             /\ Cardinality(X \cup Y) = Cardinality(X) + Cardinality(Y) - Cardinality(X \cap Y)
             /\ Cardinality(X \cup Y) <= Cardinality(X) + Cardinality(Y)
  <2>1. IsFiniteSet(X \cup Y) /\ Cardinality(X \cup Y) = Cardinality(X) + Cardinality(Y) - Cardinality(X \cap Y)
    BY <1>2, FS_Union
  <2>2. IsFiniteSet(X \cap Y)
    BY <1>2, FS_Intersection
  <2>3. Cardinality(X) \in Nat /\ Cardinality(Y) \in Nat /\ Cardinality(X \cap Y) \in Nat
    BY <1>2, <2>2, FS_CardinalityType
  <2> QED BY <2>1, <2>2, <2>3
<1>3. PICK X : X = A \cup C
  OBVIOUS
<1>4. IsFiniteSet(X) /\ Cardinality(X) <= Cardinality(A) + Cardinality(C)
  BY <1>1, <1>2, <1>3
<1>5a. PICK Y : Y = X \cup D
  OBVIOUS
<1>5. IsFiniteSet(Y) /\ Cardinality(Y) <= Cardinality(X) + Cardinality(D)
  BY <1>1, <1>2, <1>4, <1>5a
<1>6a. PICK Z : Z = Y \cup E
  OBVIOUS
<1>6. IsFiniteSet(Z) /\ Cardinality(Z) <= Cardinality(Y) + Cardinality(E)
  BY <1>1, <1>2, <1>5, <1>6a
<1>7. Cardinality(B \cup Z) = Cardinality(B) + Cardinality(Z) - Cardinality(B \cap Z)
      /\ Cardinality(B \cap Z) \in Nat /\ IsFiniteSet(B \cap Z)
  BY <1>1, <1>2, <1>6
<1>8. B \cup Z = S /\ Z = A \cup C \cup D \cup E
  BY <1>3, <1>5a, <1>6a
<1>9. /\ Cardinality(A) \in Nat /\ Cardinality(B) \in Nat /\ Cardinality(C) \in Nat /\ Cardinality(D) \in Nat
      /\ Cardinality(E) \in Nat /\ Cardinality(X) \in Nat /\ Cardinality(Y) \in Nat /\ Cardinality(Z) \in Nat
  BY <1>1, <1>4, <1>5, <1>6, FS_CardinalityType
<1>10. Cardinality(B \cap Z) = 0
  BY <1>4, <1>5, <1>6, <1>7, <1>8, <1>9
<1> QED BY <1>7, <1>8, <1>10, FS_EmptySet

LEMMA QuietTop ==
  ASSUME Typed, QuietInv,
         ReturnCanceled \/ ReturnGuard \/ ReturnOutOfRunway \/ Reclaim \/ IdleForAgents \/ IdleForHumans \/ ReturnDrained
  PROVE  QuietInv'
<1>1. PICK b : b = Settled(store)
  OBVIOUS
<1>2. b \in [Tasks -> Task] /\ \A t \in Tasks : Quiet(b[t])
  BY <1>1, SettledType, SettledQuiet DEF Typed, QuietInv
<1>3. pc' \in {"top", "returned"} /\ UNCHANGED <<ladder, verdict>>
  BY DEF ReturnCanceled, ReturnGuard, ReturnOutOfRunway, Reclaim, IdleForAgents, IdleForHumans,
         ReturnDrained, NothingReady, RoundStarts, Return, waveVars
<1>4. \A t \in Tasks : Quiet(board'[t]) /\ Quiet(store'[t])
  <2>1. CASE ReturnCanceled \/ ReturnGuard \/ ReturnOutOfRunway
    BY <2>1 DEF QuietInv, ReturnCanceled, ReturnGuard, ReturnOutOfRunway, Reload, storeVars
  <2>2. CASE IdleForAgents \/ IdleForHumans \/ ReturnDrained
    <3>1. board' = b /\ store' = store
      BY <2>2, <1>1 DEF IdleForAgents, IdleForHumans, ReturnDrained, Reload
    <3> QED BY <3>1, <1>2 DEF QuietInv
  <2>3. CASE Reclaim
    <3>1. board' = [t \in Tasks |-> IF t \in Orphans(b) THEN [b[t] EXCEPT !.col = "ready_to_dev"] ELSE b[t]]
          /\ store' = board'
      BY <2>3, <1>1 DEF Reclaim, PersistReloaded
    <3>2. ASSUME NEW t \in Tasks PROVE Quiet(board'[t])
      <4>1. PICK x \in Task : x = b[t] /\ Quiet(x)
        BY <1>2
      <4>2. CASE t \in Orphans(b)
        <5>1. board'[t] = [x EXCEPT !.col = "ready_to_dev"] /\ x.col \in InFlightCols
          BY <4>1, <4>2, <3>1 DEF Orphans
        <5>2. ~ x.err
          BY <4>1, <5>1 DEF Quiet, InFlightCols
        <5>3. [x EXCEPT !.col = "ready_to_dev"].err = x.err
          BY DEF Task
        <5> QED BY <5>1, <5>2, <5>3 DEF Quiet
      <4>3. CASE t \notin Orphans(b)
        BY <4>1, <4>3, <3>1
      <4> QED BY <4>2, <4>3
    <3> QED BY <3>1, <3>2
  <2> QED BY <2>1, <2>2, <2>3
<1> QED BY <1>3, <1>4 DEF QuietInv

LEMMA QuietSchedule ==
  ASSUME Typed, QuietInv, NEW W \in SUBSET Tasks, NEW skip \in SUBSET Tasks, Schedule(W, skip)
  PROVE  QuietInv'
<1> DEFINE b == Settled(store)
           parked == Parked(W)
           go == W \ parked
           ready == [t \in Tasks |-> IF t \in parked
                                     THEN [b[t] EXCEPT !.col = "to_scope", !.err = TRUE]
                                     ELSE b[t]]
<1>1. b \in [Tasks -> Task] /\ \A t \in Tasks : Quiet(b[t])
  BY SettledType, SettledQuiet DEF Typed, QuietInv
<1>2. W \subseteq Ready(b)
  <2>1. W \in Admissible(Ready(b))
    BY DEF Schedule
  <2> QED BY <2>1, AdmissibleDisjoint
<1>3. \A t \in W : b[t].col = "ready_to_dev"
  BY <1>1, <1>2, DepsType DEF Ready, Executable, Cols
<1>4. \A t \in Tasks : ready[t] \in Task /\ Quiet(ready[t]) /\ (t \in go => ~ ready[t].err)
  <2>1. ASSUME NEW t \in Tasks PROVE ready[t] \in Task /\ Quiet(ready[t]) /\ (t \in go => ~ ready[t].err)
    <3> HIDE DEF b, parked
    <3>1. PICK x \in Task : x = b[t] /\ Quiet(x)
      BY <1>1
    <3>2. [x EXCEPT !.col = "to_scope", !.err = TRUE] \in Task /\ [x EXCEPT !.col = "to_scope", !.err = TRUE].col = "to_scope"
      BY TaskUpdates, ColumnNames
    <3>3. CASE t \in parked
      BY <3>1, <3>2, <3>3 DEF Quiet
    <3>4. CASE t \notin parked
      <4>1. ready[t] = x
        BY <3>1, <3>4
      <4>2. t \in go => ~ x.err
        BY <3>1, <1>3 DEF Quiet
      <4> QED BY <3>1, <4>1, <4>2
    <3> QED BY <3>3, <3>4
  <2> QED BY <2>1
<1>5. pc = "top" /\ verdict' = verdict /\ store' = board' /\ shared'
  BY DEF Schedule, RoundStarts, waveVars, PersistReloaded
<1>6. \/ pc' = pc /\ ladder' = ladder /\ board' = ready
      \/ /\ pc' = "prepare" /\ wave' = go /\ skipped' = skip
         /\ ladder' = [t \in Tasks |-> IF t \in skip THEN "look" ELSE "out"]
         /\ board' = [t \in Tasks |-> IF t \in go THEN [ready[t] EXCEPT !.col = "in_progress"] ELSE ready[t]]
  BY DEF Schedule, waveVars, PersistReloaded
<1>7. go \subseteq Tasks
  OBVIOUS
<1> HIDE DEF b, parked, ready, go
<1>8. CASE pc' = pc /\ ladder' = ladder /\ board' = ready
  BY <1>4, <1>5, <1>8 DEF QuietInv
<1>9. CASE /\ pc' = "prepare" /\ wave' = go /\ skipped' = skip
           /\ ladder' = [t \in Tasks |-> IF t \in skip THEN "look" ELSE "out"]
           /\ board' = [t \in Tasks |-> IF t \in go THEN [ready[t] EXCEPT !.col = "in_progress"] ELSE ready[t]]
  <2>1. ASSUME NEW t \in Tasks PROVE Quiet(board'[t]) /\ (t \in go => ~ board'[t].err)
    <3>1. PICK x \in Task : x = ready[t] /\ Quiet(x) /\ (t \in go => ~ x.err)
      BY <1>4
    <3>2. [x EXCEPT !.col = "in_progress"].err = x.err
      BY DEF Task
    <3> QED BY <3>1, <3>2, <1>9 DEF Quiet
  <2>2. \A t \in Tasks : ladder'[t] # "judged" /\ (t \notin skip => ladder'[t] = "out")
    BY <1>9
  <2> QED BY <2>1, <2>2, <1>5, <1>7, <1>9 DEF QuietInv, Workers
<1> QED BY <1>6, <1>8, <1>9

\* A ladder writes its own task; elsewhere the memory and the file only copy each other.
LEMMA LadderElsewhere ==
  ASSUME Typed, shared, NEW t \in Tasks, Look(t) \/ Judge(t) \/ Conclude(t) \/ Answer(t)
  PROVE  /\ shared'
         /\ \A u \in Tasks \ {t} : /\ board'[u] \in {board[u], store[u]}
                                   /\ store'[u] \in {board[u], store[u]}
                                   /\ ladder'[u] = ladder[u]
                                   /\ ladder'[u] = "judged" => verdict'[u] = verdict[u]
<1>1. \A u \in Tasks \ {t} : ladder'[u] = ladder[u]
  BY DEF Typed, Look, Judge, End, Conclude, Answer
<1>2. /\ shared' /\ \A u \in Tasks \ {t} : /\ board'[u] \in {board[u], store[u]}
                                           /\ store'[u] \in {board[u], store[u]}
                                           /\ ladder'[u] = "judged" => verdict'[u] = verdict[u]
  <2>1. CASE Look(t)
    BY <2>1 DEF Typed, Look, Merge
  <2>2. CASE Judge(t)
    BY <2>2 DEF Typed, Judge, End, storeVars
  <2>3. CASE Conclude(t)
    BY <2>3 DEF Typed, Conclude, Persist
  <2>4. CASE Answer(t)
    BY <2>4 DEF Typed, Answer, Persist
  <2> QED BY <2>1, <2>2, <2>3, <2>4
<1> QED BY <1>1, <1>2

\* A ladder writes its own task, and the Error that goes with the column.
LEMMA QuietLadder ==
  ASSUME Typed, QuietInv, NEW t \in Tasks, Look(t) \/ Judge(t) \/ Conclude(t) \/ Answer(t)
  PROVE  QuietInv'
<1>1. pc \in {"prepare", "review"} /\ UNCHANGED <<pc, wave, skipped>> /\ ladder[t] # "out" /\ shared
  BY DEF Look, Judge, Conclude, Answer, MayAct, Reviewing, QuietInv
<1>2. \A u \in Tasks \ {t} : ladder'[u] = ladder[u]
  BY <1>1, LadderElsewhere
<1>3. /\ shared' /\ \A u \in Tasks \ {t} : /\ board'[u] \in {board[u], store[u]}
                                           /\ store'[u] \in {board[u], store[u]}
                                           /\ ladder'[u] = "judged" => verdict'[u] = verdict[u]
  BY <1>1, LadderElsewhere
<1>4. PICK x \in Task, v \in Task : x = board[t] /\ v = verdict[t].task /\ Quiet(x) /\ Quiet(store[t])
                                   /\ (ladder[t] = "judged" => Quiet(v))
  BY DEF Typed, QuietInv
<1>5. \A y \in Task : Quiet([y EXCEPT !.col = "ready_to_dev", !.err = FALSE]) /\ Quiet([y EXCEPT !.col = "done", !.err = FALSE])
                      /\ Quiet([y EXCEPT !.col = "blocked", !.err = TRUE]) /\ Quiet([y EXCEPT !.col = "to_scope"])
                      /\ Quiet([y EXCEPT !.col = "ready_to_dev", !.err = FALSE, !.gate = @ + 1])
  BY DEF Quiet, Task
<1>6. Quiet(board'[t]) /\ Quiet(store'[t]) /\ (ladder'[t] = "judged" => Quiet(verdict'[t].task))
  <2>1. CASE Look(t)
    <3>1. board' = store /\ store' = store /\ (ladder'[t] = "judged" => verdict'[t].task = store[t])
      BY <2>1, <1>1 DEF Typed, Look, Merge
    <3> QED BY <3>1, <1>4
  <2>2. CASE Judge(t)
    <3>1. board' = board /\ store' = store
      BY <2>2 DEF Judge, storeVars
    <3>2. ladder'[t] = "judged" => Quiet(verdict'[t].task)
      <4>1. \/ ladder' = [ladder EXCEPT ![t] = "look"]
            \/ \E col, err, esc : End(t, col, err, esc) /\ (err => col \in {"blocked", "to_scope"})
        BY <2>2, Zenon DEF Judge
      <4>2. CASE ladder' = [ladder EXCEPT ![t] = "look"]
        BY <4>2 DEF Typed
      <4>3. CASE \E col, err, esc : End(t, col, err, esc) /\ (err => col \in {"blocked", "to_scope"})
        <5>1. PICK col, err, esc : End(t, col, err, esc) /\ (err => col \in {"blocked", "to_scope"})
          BY <4>3
        <5>2. verdict'[t].task = [col |-> col, err |-> err, gate |-> board[t].gate]
          <6>1. /\ verdict' = [verdict EXCEPT ![t] =
                     [task |-> [col |-> col, err |-> err, gate |-> board[t].gate], esc |-> esc]]
                /\ \A X : t \in DOMAIN verdict => [verdict EXCEPT ![t] = X][t] = X
            BY <5>1, Zenon DEF End
          <6>2. t \in DOMAIN verdict
            BY DEF Typed
          <6> QED BY <6>1, <6>2, Zenon
        <5> QED BY <5>1, <5>2 DEF Quiet
      <4> QED BY <4>1, <4>2, <4>3
    <3> QED BY <3>1, <3>2, <1>4
  <2>3. CASE Conclude(t)
    <3>1. ladder[t] = "judged" /\ ladder'[t] # "judged" /\ store' = board'
          /\ board'[t] \in {v, [v EXCEPT !.col = "ready_to_dev", !.err = FALSE]}
      <4>1. ladder[t] = "judged" /\ store' = board' /\ \E way \in {"out", "asking"} : ladder' = [ladder EXCEPT ![t] = way]
        BY <2>3 DEF Conclude, Persist
      <4>2. \E y \in {v, [v EXCEPT !.col = "ready_to_dev", !.err = FALSE]} : board' = [board EXCEPT ![t] = y]
        BY <2>3, <1>4 DEF Conclude
      <4>3. ladder'[t] # "judged"
        BY <4>1 DEF Typed
      <4>4. board'[t] \in {v, [v EXCEPT !.col = "ready_to_dev", !.err = FALSE]}
        <5>1. PICK y : y \in {v, [v EXCEPT !.col = "ready_to_dev", !.err = FALSE]} /\ board' = [board EXCEPT ![t] = y]
          BY <4>2, Zenon
        <5>2. board'[t] = y
          BY <5>1 DEF Typed
        <5> QED BY <5>1, <5>2
      <4> QED BY <4>1, <4>3, <4>4
    <3> QED BY <3>1, <1>4, <1>5, Zenon
  <2>4. CASE Answer(t)
    <3>1. ladder'[t] # "judged" /\ store' = board'
      BY <2>4 DEF Typed, Answer, Persist
    <3>2. board'[t] \in {[x EXCEPT !.col = "to_scope"], [x EXCEPT !.col = "done", !.err = FALSE],
                         [x EXCEPT !.col = "blocked", !.err = TRUE],
                         [x EXCEPT !.col = "ready_to_dev", !.err = FALSE, !.gate = @ + 1]}
      BY <2>4, <1>4 DEF Typed, Answer
    <3> QED BY <3>1, <3>2, <1>5, Zenon
  <2> QED BY <2>1, <2>2, <2>3, <2>4
<1>7. \A u \in Tasks : Quiet(board'[u]) /\ Quiet(store'[u]) /\ (ladder'[u] = "judged" => Quiet(verdict'[u].task))
  BY <1>2, <1>3, <1>6 DEF QuietInv
<1>8. pc = "prepare" => \A u \in Workers : u # t /\ u \in Tasks /\ ladder[u] = "out" /\ ~ board[u].err /\ ~ store[u].err
  BY <1>1 DEF QuietInv, Workers, Typed
<1>9. pc = "prepare" => \A u \in Workers : ladder'[u] = "out" /\ ~ board'[u].err /\ ~ store'[u].err
  BY <1>2, <1>3, <1>8
<1>10. Workers' = Workers
  BY <1>1 DEF Workers
<1> QED BY <1>1, <1>3, <1>7, <1>9, <1>10 DEF QuietInv

\* What collectWaveResults is handed: one outcome per worker.
Outcomes(ok, weak, late, cut, failed) ==
  /\ ok \in SUBSET Workers /\ weak \in SUBSET Workers /\ late \in SUBSET Workers
  /\ cut \in SUBSET Workers /\ failed \in SUBSET Workers
  /\ ok \cup weak \cup late \cup cut \cup failed = Workers
  /\ Cardinality(ok) + Cardinality(weak) + Cardinality(late) + Cardinality(cut)
       + Cardinality(failed) = Cardinality(Workers)

LEMMA OutcomesApart ==
  ASSUME Typed, NEW ok, NEW weak, NEW late, NEW cut, NEW failed, Outcomes(ok, weak, late, cut, failed)
  PROVE  /\ weak \cap (ok \cup late \cup cut \cup failed) = {}
         /\ ok \cap (weak \cup late \cup cut \cup failed) = {}
         /\ late \cap (weak \cup ok \cup cut \cup failed) = {}
<1>1. PICK S : S = Workers
  OBVIOUS
<1>2. S \in SUBSET Tasks
  BY <1>1 DEF Workers, Typed
<1>3. IsFiniteSet(S)
  BY <1>1, <1>2, SomeTasksFinite
<1>4. /\ ok \in SUBSET S /\ weak \in SUBSET S /\ late \in SUBSET S /\ cut \in SUBSET S /\ failed \in SUBSET S
      /\ ok \cup weak \cup late \cup cut \cup failed = S
      /\ Cardinality(ok) + Cardinality(weak) + Cardinality(late) + Cardinality(cut) + Cardinality(failed) = Cardinality(S)
  BY <1>1 DEF Outcomes
<1>5. Cardinality(ok) \in Nat /\ Cardinality(weak) \in Nat /\ Cardinality(late) \in Nat
      /\ Cardinality(cut) \in Nat /\ Cardinality(failed) \in Nat
  BY <1>3, <1>4, FS_Subset, FS_CardinalityType
<1>6. SplitInto(S, ok, weak, late, cut, failed)
  BY ONLY <1>3, <1>4, <1>5 DEF SplitInto
<1>7. SplitInto(S, weak, ok, late, cut, failed)
  BY ONLY <1>3, <1>4, <1>5 DEF SplitInto
<1>8. SplitInto(S, weak, late, ok, cut, failed)
  BY ONLY <1>3, <1>4, <1>5 DEF SplitInto
<1>9. weak \cap (ok \cup late \cup cut \cup failed) = {}
  BY ONLY <1>6, OneOutcomeEach
<1>10. ok \cap (weak \cup late \cup cut \cup failed) = {}
  BY ONLY <1>7, OneOutcomeEach
<1>11. late \cap (weak \cup ok \cup cut \cup failed) = {}
  BY ONLY <1>8, OneOutcomeEach
<1> QED BY ONLY <1>9, <1>10, <1>11

LEMMA QuietStages ==
  ASSUME Typed, QuietInv, EndPrepare \/ CollectAny \/ StartReview \/ EndReview \/ ConcludeAll
  PROVE  QuietInv'
<1>1. CASE EndPrepare \/ EndReview
  <2>1. /\ pc' # "prepare" /\ pc' # "critique" /\ (pc' = "work" => pc = "prepare" /\ store' \in {store, board})
        /\ UNCHANGED <<board, wave, skipped, ladder, verdict>> /\ shared' /\ store' \in {store, board}
        /\ pc \in {"prepare", "review"}
    BY <1>1 DEF EndPrepare, EndReview, Persist, storeVars, waveVars, Return, QuietInv
  <2>2. \A t \in Tasks : Quiet(board'[t]) /\ Quiet(store'[t])
    BY <2>1 DEF QuietInv
  <2>3. pc' = "work" => \A t \in Workers : ~ board'[t].err /\ ~ store'[t].err
    BY <2>1 DEF QuietInv
  <2>4. Workers' = Workers
    BY <2>1 DEF Workers
  <2> QED BY <2>1, <2>2, <2>3, <2>4 DEF QuietInv
<1>2. CASE CollectAny
  <2>1. PICK ok, weak, late, cut, failed \in SUBSET Workers :
               /\ ok \cup weak \cup late \cup cut \cup failed = Workers
               /\ Cardinality(ok) + Cardinality(weak) + Cardinality(late) + Cardinality(cut)
                    + Cardinality(failed) = Cardinality(Workers)
               /\ Collect(ok, weak, late, cut, failed)
    BY <1>2 DEF CollectAny
  <2>2. /\ pc = "work" /\ pc' = "critique" /\ store' = board' /\ shared'
        /\ \A t \in Tasks : ladder'[t] = IF t \in weak THEN "weak" ELSE "out"
    BY <2>1 DEF Collect, Persist
  <2>3. board' = [t \in Tasks |->
          CASE t \in ok -> Delivered(t)
            [] t \in late -> AfterTimeout(t)
            [] t \in cut \cup failed -> [board[t] EXCEPT !.col = "blocked", !.err = TRUE]
            [] OTHER -> board[t]]
    BY <2>1 DEF Collect
  <2>4. /\ weak \cap (ok \cup late \cup cut \cup failed) = {}
        /\ ok \cap (weak \cup late \cup cut \cup failed) = {}
        /\ late \cap (weak \cup ok \cup cut \cup failed) = {}
    <3>1. Outcomes(ok, weak, late, cut, failed)
      BY <2>1 DEF Outcomes
    <3> QED BY <3>1, OutcomesApart
  <2>5. ASSUME NEW t \in Tasks PROVE Quiet(board'[t]) /\ (t \in weak => ~ board'[t].err)
    <3>1. PICK x \in Task : x = board[t] /\ Quiet(x) /\ (t \in Workers => ~ x.err)
      BY <2>2 DEF QuietInv, Typed
    <3>2. \/ t \in ok /\ t \notin weak /\ board'[t] = [x EXCEPT !.col = "in_review"]
          \/ t \notin weak /\ board'[t] \in {[x EXCEPT !.col = "ready_to_dev", !.err = FALSE], [x EXCEPT !.col = "to_scope", !.err = TRUE],
                                             [x EXCEPT !.col = "blocked", !.err = TRUE]}
          \/ board'[t] = x
      <4>1. CASE t \in ok
        <5>1. PICK d : d = Delivered(t)
          OBVIOUS
        <5>3. board'[t] = d
          BY <2>3, <4>1, <5>1, <2>4
        <5>2. t \notin weak
          BY ONLY <2>4, <4>1
        <5> QED BY <3>1, <4>1, <5>1, <5>2, <5>3 DEF Delivered
      <4>2. CASE t \notin ok /\ t \in late
        <5>1. PICK d : d = AfterTimeout(t)
          OBVIOUS
        <5>3. board'[t] = d
          BY <2>3, <4>2, <5>1, <2>4
        <5>2. t \notin weak
          BY ONLY <2>4, <4>2
        <5> QED BY <3>1, <5>1, <5>2, <5>3 DEF AfterTimeout
      <4>3. CASE t \notin ok /\ t \notin late /\ t \in cut \cup failed
        <5>1. board'[t] = [board[t] EXCEPT !.col = "blocked", !.err = TRUE] /\ t \notin weak
          BY <2>3, <2>4, <4>3
        <5> QED BY <3>1, <5>1
      <4>4. CASE t \notin ok /\ t \notin late /\ t \notin cut \cup failed
        BY <2>3, <3>1, <4>4
      <4> QED BY <4>1, <4>2, <4>3, <4>4
    <3>3. t \in weak => ~ x.err
      BY <2>1, <3>1
    <3>4. t \in ok => ~ x.err
      BY <2>1, <3>1
    <3> QED BY <3>1, <3>2, <3>3, <3>4 DEF Quiet, Task
  <2>6. \A t \in weak : t \in Tasks
    BY <2>1 DEF Workers, Typed
  <2> QED BY <2>2, <2>5, <2>6 DEF QuietInv
<1>3. CASE StartReview
  <2>1. /\ pc = "critique" /\ pc' = "review" /\ UNCHANGED <<store, shared, wave, skipped, verdict>>
        /\ \A t \in Tasks : board'[t] = IF ladder[t] = "weak" THEN Delivered(t) ELSE board[t]
        /\ \A t \in Tasks : ladder'[t] \in {"look", "out"}
    BY <1>3 DEF StartReview, storeVars
  <2>2. ASSUME NEW t \in Tasks PROVE Quiet(board'[t])
    <3>1. PICK x \in Task : x = board[t] /\ Quiet(x) /\ (ladder[t] = "weak" => ~ x.err)
      BY <2>1 DEF QuietInv, Typed
    <3>2. board'[t] = x \/ (ladder[t] = "weak" /\ board'[t] = [x EXCEPT !.col = "in_review"])
      <4>1. board'[t] = IF ladder[t] = "weak" THEN Delivered(t) ELSE board[t]
        BY <2>1
      <4>2. Delivered(t) = [x EXCEPT !.col = "in_review"]
        BY <3>1 DEF Delivered
      <4>3. CASE ladder[t] = "weak"
        BY <4>1, <4>2, <4>3
      <4>4. CASE ladder[t] # "weak"
        <5>1. board'[t] = board[t]
          BY <4>1, <4>4
        <5>2. board'[t] = x
          BY <3>1, <5>1
        <5> QED BY <5>2
      <4> QED BY <4>3, <4>4
    <3> QED BY <3>1, <3>2 DEF Quiet, Task
  <2> QED BY <2>1, <2>2 DEF QuietInv
<1>4. CASE ConcludeAll
  <2>1. /\ UNCHANGED <<pc, wave, skipped>> /\ pc \in {"prepare", "review"} /\ store' = board' /\ shared'
        /\ \A t \in Tasks : ladder'[t] \in {"asking", "out"}
        /\ \A t \in Tasks : \/ board'[t] = board[t] /\ ladder[t] = "out" /\ ladder'[t] = "out"
                            \/ ladder[t] = "judged" /\ board'[t] = verdict[t].task
    BY <1>4 DEF Typed, ConcludeAll, Reviewing, Persist
  <2>2. \A t \in Tasks : Quiet(board'[t])
    BY <2>1 DEF QuietInv
  <2>3. pc = "prepare" => \A t \in Workers : t \in Tasks /\ ladder[t] = "out" /\ ~ board[t].err
    BY DEF QuietInv, Workers, Typed
  <2>4. pc = "prepare" => \A t \in Workers : ladder'[t] = "out" /\ ~ board'[t].err /\ ~ store'[t].err
    BY <2>1, <2>3
  <2>5. Workers' = Workers
    BY <2>1 DEF Workers
  <2> QED BY <2>1, <2>2, <2>4, <2>5 DEF QuietInv
<1> QED BY <1>1, <1>2, <1>3, <1>4

LEMMA QuietByNext ==
  ASSUME Coordinator = FALSE, MaxEdits = 0, TypeOK, QuietInv, [Next]_vars
  PROVE  QuietInv'
<1>1. Typed
  BY DEF Typed, TypeOK
<1>2. CASE \/ ReturnCanceled \/ ReturnGuard \/ ReturnOutOfRunway
           \/ Reclaim \/ IdleForAgents \/ IdleForHumans \/ ReturnDrained
  BY <1>1, <1>2, QuietTop
<1>3. CASE FinishRoundAny
  <2>1. PICK stop, quiet : FinishRound({}, {}, stop, quiet)
    BY <1>3 DEF FinishRoundAny
  <2>2. pc' \in {"top", "returned"} /\ UNCHANGED <<ladder, verdict>> /\ store' = board'
    BY <2>1 DEF FinishRound, Return, Persist
  <2>3. \A t \in Tasks : board'[t] = board[t]
    BY <2>1 DEF FinishRound
  <2> QED BY <2>2, <2>3 DEF QuietInv
<1>4. CASE \E W, skip \in SUBSET Tasks : Schedule(W, skip)
  BY <1>1, <1>4, QuietSchedule
<1>5. CASE \E t \in Tasks : Look(t) \/ Judge(t) \/ Conclude(t) \/ Answer(t)
  BY <1>1, <1>5, QuietLadder
<1>6. CASE EndPrepare \/ CollectAny \/ StartReview \/ EndReview \/ ConcludeAll
  BY <1>1, <1>6, QuietStages
<1>7. CASE People
  <2>1. ~ (edits < MaxEdits)
    BY DEF TypeOK
  <2> QED BY <1>7, <2>1 DEF People, Patch, Retry, Post, Delete, Edit, Read
<1>8. CASE Stop \/ RunwayEnds \/ UNCHANGED vars
  BY <1>8 DEF Stop, RunwayEnds, vars, runnerVars, storeVars, QuietInv, Workers
<1> QED BY <1>2, <1>3, <1>4, <1>5, <1>6, <1>7, <1>8 DEF Next, Runner

\* Without a coordinator's promotions and people's edits no Error outlives its column,
\* and every task that a wave delivered is reviewed in that wave.
THEOREM DeliveriesAreReviewed ==
  ASSUME Coordinator = FALSE, MaxEdits = 0
  PROVE  Spec => []DeliveredWorkIsReviewed
<1>1. Init => QuietInv
  BY DEF Init, QuietInv, Quiet
<1>2. ASSUME TypeOK, QuietInv, OnlyErrorsAreLeft PROVE DeliveredWorkIsReviewed
  BY <1>2 DEF QuietInv, Quiet, OnlyErrorsAreLeft, DeliveredWorkIsReviewed, TypeOK
<1>3. ASSUME TypeOK, QuietInv, [Next]_vars PROVE QuietInv'
  BY <1>3, QuietByNext
<1> QED BY <1>1, <1>2, <1>3, OnlyErrorsEscapeReview, BoardTypeCorrect, PTL DEF Spec

-----------------------------------------------------------------------------
\* How many rounds a run can have.  Without a coordinator and people a round starts
\* an attempt, idles, or reclaims what the plan had in flight; attempts are bounded,
\* idling freezes the board, and there is one reclaim.

PlannedTasks == {t \in Tasks : Planned[t] # "absent"}

\* Nobody waits for an ID that is not on the plan.
Complete == \A t \in PlannedTasks : Deps[t] \subseteq PlannedTasks

\* The idle rounds a run takes.  Only a dangling ID makes it wait for agents.
Patience == IF Complete \/ MaxIdle < MaxHumanIdle THEN MaxHumanIdle ELSE MaxIdle

\* Nothing appears on the board, and nothing leaves it.
PresentInv ==
  /\ wave \subseteq PlannedTasks
  /\ \A t \in Tasks : /\ board[t].col = "absent" <=> t \notin PlannedTasks
                      /\ store[t].col = "absent" <=> t \notin PlannedTasks

Landed(t) == board[t].col \notin InFlightCols /\ store[t].col \notin InFlightCols

\* Whose ladders the stage runs.
Handled == IF pc = "prepare" THEN skipped ELSE wave

\* A wave leaves nothing in flight: what its ladders or its workers are done with has
\* landed, in the memory and in the file.
LandInv ==
  /\ pc = "top" => wave = {}
  /\ pc \in {"prepare", "review"} => \A t \in Handled : ladder[t] = "out" => Landed(t)
  /\ pc = "work" => \A t \in skipped : Landed(t)
  /\ pc = "critique" =>
       /\ store = board
       /\ \A t \in skipped : ladder[t] = "out" /\ Landed(t)
       /\ \A t \in Workers : ladder[t] = "weak" \/ board[t].col # "in_progress"
  /\ pc = "after" => store = board /\ \A t \in wave : Landed(t)
  /\ \A t \in Tasks : ladder[t] = "judged" => verdict[t].task.col \in TakenAway

\* Who was parked for its attempts stays parked.
ParkInv == \A t \in Tasks : attempts[t] > MaxAttempts => t \notin wave /\ store[t].col = "to_scope"

\* A run that idles has nothing to run and nothing to reclaim, and not for long.
PatienceInv ==
  /\ idle > 0 => pc = "top" /\ Ready(Settled(store)) = {} /\ Orphans(Settled(store)) = {}
  /\ idle <= Patience

\* The attempts a run may make, and those that are spent; a task that is done has spent
\* them all, since nobody makes it ready again.
Turns == PlannedTasks \X (1 .. MaxAttempts + 1)
Spent == {e \in Turns : \/ e[2] <= attempts[e[1]]
                        \/ e[1] \notin wave /\ store[e[1]].col = "done"}

\* One round is for the reclaim, unless something is still to be reclaimed.
Reclaimed == IF \E t \in Tasks \ wave : store[t].col \in InFlightCols THEN 0 ELSE 1

CountInv == guard <= Cardinality(Spent) + idle + Reclaimed

RoundInv == pc # "returned" => PresentInv /\ ParkInv /\ PatienceInv /\ CountInv

\* The rounds the guard allows for the plan are enough: for every planned task its
\* attempts, and for the whole run the idling and the reclaim.
GuardHasRoom ==
  LET n == Cardinality(PlannedTasks) IN
    /\ Patience + 2 <= GuardFloor + n
    /\ n * (MaxAttempts + 1) + Patience + 2 <= GuardCeiling

LEMMA PatienceType == Patience \in Nat /\ MaxHumanIdle <= Patience /\ (~ Complete => MaxIdle <= Patience)
<1>1. MaxIdle \in Nat /\ MaxHumanIdle \in Nat
  BY BoundsAreNat
<1>2. CASE MaxIdle < MaxHumanIdle
  BY <1>1, <1>2 DEF Patience
<1>3. CASE ~ (MaxIdle < MaxHumanIdle)
  <2>1. Patience = IF Complete THEN MaxHumanIdle ELSE MaxIdle
    BY <1>3 DEF Patience
  <2> QED BY <1>1, <1>3, <2>1
<1> QED BY <1>2, <1>3

LEMMA TurnsCounted ==
  /\ IsFiniteSet(PlannedTasks) /\ Cardinality(PlannedTasks) \in Nat
  /\ IsFiniteSet(Turns) /\ Cardinality(Turns) = Cardinality(PlannedTasks) * (MaxAttempts + 1)
<1>1. IsFiniteSet(PlannedTasks)
  <2>1. PlannedTasks \in SUBSET Tasks
    BY DEF PlannedTasks
  <2> QED BY <2>1, SomeTasksFinite
<1>2. IsFiniteSet(1 .. MaxAttempts + 1) /\ Cardinality(1 .. MaxAttempts + 1) = MaxAttempts + 1
  <2>1. PICK m \in Nat : m = MaxAttempts + 1 /\ m >= 1
    BY BoundsAreNat
  <2>2. IsFiniteSet(1 .. m) /\ Cardinality(1 .. m) = m
    BY <2>1, FS_Interval
  <2> QED BY <2>1, <2>2
<1> QED BY <1>1, <1>2, FS_Product, FS_CardinalityType DEF Turns

\* Spending more is more by one at least, and never more than there is.
LEMMA Spendings ==
  ASSUME NEW S \in SUBSET Turns, NEW R \in SUBSET S
  PROVE  /\ Cardinality(R) \in Nat /\ Cardinality(S) \in Nat
         /\ Cardinality(R) <= Cardinality(S) /\ Cardinality(S) <= Cardinality(Turns)
         /\ R # S => Cardinality(R) + 1 <= Cardinality(S)
<1>1. IsFiniteSet(S) /\ Cardinality(S) <= Cardinality(Turns)
  BY TurnsCounted, FS_Subset
<1>2. IsFiniteSet(R) /\ Cardinality(R) <= Cardinality(S) /\ (Cardinality(S) = Cardinality(R) => S = R)
  BY <1>1, FS_Subset
<1>3. Cardinality(R) \in Nat /\ Cardinality(S) \in Nat
  BY <1>1, <1>2, FS_CardinalityType
<1> QED BY <1>1, <1>2, <1>3

\* Settling changes ready tasks only.
LEMMA SettledReady ==
  ASSUME NEW b \in [Tasks -> Task], NEW t \in Tasks
  PROVE  /\ b[t].col # "ready_to_dev" => Settled(b)[t] = b[t]
         /\ Settled(b)[t] = b[t] \/ Settled(b)[t].col = "blocked"
<1>1. b[t].col # "ready_to_dev" => PropagateBlocked(Cols(b), Deps)[t] = b[t].col
  BY DEF PropagateBlocked, Cols
<1> QED BY <1>1, SettledType DEF Settled

\* A step that changes no attempts and no wave, and the file at nobody outside it,
\* leaves what was spent and reclaimed as it was.
LEMMA SpentStays ==
  ASSUME UNCHANGED <<attempts, wave>>, \A t \in Tasks \ wave : store'[t] = store[t]
  PROVE  Spent' = Spent /\ Reclaimed' = Reclaimed
<1>1. ASSUME NEW e \in Turns PROVE e \in Spent' <=> e \in Spent
  BY DEF Spent, Turns, PlannedTasks
<1>2. Spent' = Spent
  BY <1>1 DEF Spent
<1>3. Reclaimed' = Reclaimed
  BY DEF Reclaimed
<1> QED BY <1>2, <1>3

\* What the other invariants say, under which rounds are counted.
Calm == IInv /\ EndInv /\ QuietInv

\* At the top the guard reads the plan, and rounds are too few for it.
LEMMA GuardStays ==
  ASSUME Calm, LandInv, RoundInv, GuardHasRoom
  PROVE  ~ ReturnGuard
<1> SUFFICES ASSUME ReturnGuard PROVE FALSE
  OBVIOUS
<1>1. pc = "top" /\ guard + 1 > RoundGuard(board) /\ guard \in Nat /\ idle \in Nat
  BY DEF ReturnGuard, Calm, IInv, TypeOK
<1>2. PresentInv /\ idle <= Patience /\ guard <= Cardinality(Spent) + idle + Reclaimed
  BY <1>1 DEF RoundInv, PatienceInv, CountInv
<1>3. OnBoard(Cols(board)) = PlannedTasks
  BY <1>2 DEF OnBoard, Cols, PresentInv, PlannedTasks
<1>4. PICK n \in Nat : n = Cardinality(PlannedTasks)
  BY TurnsCounted
<1>5. PICK s \in Nat : s = Cardinality(Spent) /\ s <= n * (MaxAttempts + 1)
  <2>1. Spent \in SUBSET Turns
    BY DEF Spent
  <2> QED BY <2>1, <1>4, Spendings, TurnsCounted
<1>6. Reclaimed \in {0, 1}
  BY DEF Reclaimed
<1>7. PICK p \in Nat : p = Patience
  BY PatienceType
<1>8. PICK g : g = GuardFloor + n * (MaxAttempts + 2)
  OBVIOUS
<1>9. RoundGuard(board) = IF g > GuardCeiling THEN GuardCeiling ELSE g
  BY <1>3, <1>4, <1>8 DEF RoundGuard
<1>10. p + 2 <= GuardFloor + n /\ n * (MaxAttempts + 1) + p + 2 <= GuardCeiling
  BY <1>4, <1>7 DEF GuardHasRoom
<1>11. PICK m \in Nat : m = n * (MaxAttempts + 1) /\ n * (MaxAttempts + 2) = m + n
  BY BoundsAreNat
<1>12. guard + 1 <= m + p + 2
  BY <1>1, <1>2, <1>5, <1>6, <1>7, <1>11
<1>13. guard + 1 <= RoundGuard(board)
  BY <1>1, <1>8, <1>9, <1>10, <1>11, <1>12, BoundsAreNat
<1>14. RoundGuard(board) \in Int
  BY <1>8, <1>9, <1>11, BoundsAreNat
<1> QED BY <1>1, <1>13, <1>14

\* Between waves nothing is claimed of their ladders.
LEMMA LandOutside ==
  ASSUME LandInv, pc' \in {"top", "returned"}, pc' = "top" => wave' = {}, UNCHANGED <<ladder, verdict>>
  PROVE  LandInv'
  BY DEF LandInv

LEMMA RoundIdle ==
  ASSUME Calm, RoundInv, IdleForAgents \/ IdleForHumans
  PROVE  RoundInv'
<1> SUFFICES ASSUME pc' # "returned" PROVE RoundInv'
  BY DEF RoundInv
<1> DEFINE b == Settled(store)
<1>1. /\ pc = "top" /\ pc' = "top" /\ board' = b /\ store' = store /\ UNCHANGED <<attempts, wave>>
      /\ guard' = guard + 1 /\ idle' = idle + 1 /\ Ready(b) = {} /\ Orphans(b) = {}
  BY DEF IdleForAgents, IdleForHumans, NothingReady, RoundStarts, Reload, Return, waveVars
<1>2. store \in [Tasks -> Task] /\ guard \in Nat /\ idle \in Nat
  BY DEF Calm, IInv, TypeOK
<1>3. PresentInv /\ ParkInv /\ PatienceInv /\ CountInv
  BY <1>1 DEF RoundInv
<1>4. PresentInv'
  <2>1. ASSUME NEW t \in Tasks PROVE b[t].col = "absent" <=> store[t].col = "absent"
    BY <1>2, SettledReady
  <2> HIDE DEF b
  <2> QED BY <1>1, <1>3, <2>1 DEF PresentInv
<1>5. ParkInv'
  BY <1>1, <1>3 DEF ParkInv
<1>6. idle + 1 <= Patience
  <2>1. CASE IdleForHumans
    <3>1. idle + 1 <= MaxHumanIdle
      BY <2>1, <1>2, BoundsAreNat DEF IdleForHumans, Return
    <3> QED BY <3>1, <1>2, PatienceType, BoundsAreNat
  <2>2. CASE IdleForAgents
    <3>1. idle + 1 <= MaxIdle
      BY <2>2, <1>2, BoundsAreNat DEF IdleForAgents, Return
    <3>2. \E t \in Tasks : b[t].col = "ready_to_dev" /\ \E d \in Deps[t] : b[d].col = "absent"
      BY <2>2, <1>1, IdleIsDangling DEF Calm
    <3>3. PICK t \in Tasks : b[t].col = "ready_to_dev" /\ \E d \in Deps[t] : b[d].col = "absent"
      BY <3>2
    <3>7. PICK d \in Deps[t] : b[d].col = "absent"
      BY <3>3
    <3>4. d \in Tasks
      BY DepsType
    <3>5. t \in PlannedTasks /\ d \notin PlannedTasks
      <4> HIDE DEF b
      <4> QED BY <3>3, <3>4, <3>7, <1>1, <1>4 DEF PresentInv
    <3>6. ~ Complete
      BY <3>5, <3>7 DEF Complete
    <3> QED BY <3>1, <3>6, <1>2, PatienceType, BoundsAreNat
  <2> QED BY <2>1, <2>2
<1>7. PatienceInv'
  <2>1. Settled(store)' = b
    BY <1>1 DEF Settled, Cols
  <2>2. Ready(Settled(store))' = {} /\ Orphans(Settled(store))' = {}
    <3> HIDE DEF b
    <3> QED BY <1>1, <2>1 DEF Ready, Orphans, Executable, Cols
  <2> QED BY <1>1, <1>6, <2>2 DEF PatienceInv, Patience, Complete, PlannedTasks
<1>8. CountInv'
  <2>1. Spent' = Spent /\ Reclaimed' = Reclaimed
    BY <1>1, SpentStays
  <2>2. Cardinality(Spent) \in Nat /\ Reclaimed \in {0, 1}
    <3>1. Spent \in SUBSET Turns
      BY DEF Spent
    <3> QED BY <3>1, Spendings DEF Reclaimed
  <2>3. CountInv' <=> guard' <= Cardinality(Spent) + idle' + Reclaimed
    BY <2>1 DEF CountInv
  <2> QED BY <1>1, <1>2, <1>3, <2>2, <2>3 DEF CountInv
<1> QED BY <1>4, <1>5, <1>7, <1>8 DEF RoundInv

\* The one reclaim: it takes everything that is in flight, and nobody was idle.
LEMMA RoundReclaim ==
  ASSUME Calm, LandInv, RoundInv, Reclaim
  PROVE  RoundInv'
<1> DEFINE b == Settled(store)
<1>1. /\ pc = "top" /\ UNCHANGED <<pc, attempts, wave, idle>> /\ guard' = guard + 1
      /\ Orphans(b) # {} /\ store' = board'
      /\ board' = [t \in Tasks |-> IF t \in Orphans(b) THEN [b[t] EXCEPT !.col = "ready_to_dev"] ELSE b[t]]
  BY DEF Reclaim, NothingReady, RoundStarts, PersistReloaded, waveVars
<1>2. store \in [Tasks -> Task] /\ b \in [Tasks -> Task] /\ guard \in Nat /\ idle \in Nat
  BY SettledType DEF Calm, IInv, TypeOK
<1>3. PresentInv /\ ParkInv /\ PatienceInv /\ CountInv /\ wave = {}
  BY <1>1 DEF RoundInv, LandInv
<1>4. idle = 0
  BY <1>1, <1>2, <1>3 DEF PatienceInv
<1>5. ASSUME NEW t \in Tasks
      PROVE  /\ store'[t].col \notin InFlightCols
             /\ store'[t].col = "absent" <=> store[t].col = "absent"
             /\ store[t].col \in {"done", "to_scope"} => store'[t] = store[t]
             /\ b[t].col \in InFlightCols => store[t].col \in InFlightCols
  <2>1. PICK x \in Task, y \in Task : x = store[t] /\ y = b[t]
    BY <1>2
  <2>2. (x.col # "ready_to_dev" => y = x) /\ (y = x \/ y.col = "blocked")
    BY <1>2, <2>1, SettledReady
  <2>3. store'[t] = IF y.col \in InFlightCols THEN [y EXCEPT !.col = "ready_to_dev"] ELSE y
    <3> HIDE DEF b
    <3> QED BY <1>1, <2>1 DEF Orphans
  <2>4. [y EXCEPT !.col = "ready_to_dev"].col = "ready_to_dev"
    BY WrittenColumns
  <2> HIDE DEF b
  <2> QED BY <2>1, <2>2, <2>3, <2>4 DEF InFlightCols
<1>6. PresentInv'
  BY <1>1, <1>3, <1>5 DEF PresentInv, PlannedTasks
<1>7. ParkInv'
  <2>1. \A t \in Tasks : attempts[t] > MaxAttempts => store'[t].col = "to_scope"
    BY <1>3, <1>5 DEF ParkInv
  <2> QED BY <2>1, <1>1, <1>3 DEF ParkInv
<1>8. PatienceInv'
  BY <1>1, <1>3, <1>4 DEF PatienceInv, Patience, Complete, PlannedTasks
<1>9. Reclaimed = 0 /\ Reclaimed' = 1
  <2>1. \E t \in Tasks : b[t].col \in InFlightCols
    BY <1>1 DEF Orphans
  <2>2. \E t \in Tasks : store[t].col \in InFlightCols
    <3> HIDE DEF b
    <3> QED BY <2>1, <1>5
  <2> QED BY <2>2, <1>1, <1>3, <1>5 DEF Reclaimed
<1>10. Spent \in SUBSET Spent' /\ Spent' \in SUBSET Turns
  <2>1. ASSUME NEW e \in Spent PROVE e \in Spent'
    BY <2>1, <1>1, <1>5 DEF Spent, Turns, PlannedTasks
  <2> QED BY <2>1 DEF Spent, Turns, PlannedTasks
<1>11. CountInv'
  <2>1. Cardinality(Spent) <= Cardinality(Spent') /\ Cardinality(Spent) \in Nat /\ Cardinality(Spent') \in Nat
    BY <1>10, Spendings
  <2>2. CountInv' <=> guard' <= Cardinality(Spent') + idle' + Reclaimed'
    BY DEF CountInv
  <2> QED BY <2>1, <2>2, <1>1, <1>2, <1>3, <1>4, <1>9 DEF CountInv
<1> QED BY <1>6, <1>7, <1>8, <1>11 DEF RoundInv

\* A wave starts, or parks, tasks that were ready, and each of them spends an attempt it
\* had not spent before.
LEMMA RoundSchedule ==
  ASSUME Calm, LandInv, RoundInv, NEW W \in SUBSET Tasks, NEW skip \in SUBSET Tasks, Schedule(W, skip)
  PROVE  RoundInv' /\ LandInv'
<1> DEFINE b == Settled(store)
           parked == Parked(W)
           go == W \ parked
           ready == [t \in Tasks |-> IF t \in parked
                                     THEN [b[t] EXCEPT !.col = "to_scope", !.err = TRUE]
                                     ELSE b[t]]
<1>1. /\ pc = "top" /\ guard' = guard + 1 /\ idle' = 0 /\ store' = board' /\ verdict' = verdict
      /\ W # {} /\ W \in Admissible(Ready(b)) /\ skip \subseteq go
      /\ attempts' = [t \in Tasks |-> IF t \notin W THEN attempts[t]
                                      ELSE IF t \in parked THEN MaxAttempts + 1
                                      ELSE attempts[t] + 1]
  BY DEF Schedule, RoundStarts, PersistReloaded, waveVars
<1>2. \/ go = {} /\ pc' = "top" /\ wave' = wave /\ ladder' = ladder /\ board' = ready
      \/ /\ pc' = "prepare" /\ wave' = go /\ skipped' = skip
         /\ ladder' = [t \in Tasks |-> IF t \in skip THEN "look" ELSE "out"]
         /\ board' = [t \in Tasks |-> IF t \in go THEN [ready[t] EXCEPT !.col = "in_progress"] ELSE ready[t]]
  BY DEF Schedule, RoundStarts, PersistReloaded, waveVars
<1>3. /\ store \in [Tasks -> Task] /\ b \in [Tasks -> Task] /\ guard \in Nat /\ idle \in Nat
      /\ attempts \in [Tasks -> 0 .. MaxAttempts + 1]
  BY SettledType DEF Calm, IInv, TypeOK
<1>4. PresentInv /\ ParkInv /\ PatienceInv /\ CountInv /\ wave = {}
  BY <1>1 DEF RoundInv, LandInv
<1>5. \A t \in W : t \in Ready(b)
  BY <1>1, AdmissibleDisjoint
<1>6. idle = 0
  <2>1. Ready(b) # {}
    BY <1>1, <1>5
  <2> QED BY <2>1, <1>3, <1>4 DEF PatienceInv
<1>7. \A t \in W : store[t].col = "ready_to_dev" /\ attempts[t] <= MaxAttempts
  <2> SUFFICES ASSUME NEW t \in W PROVE store[t].col = "ready_to_dev" /\ attempts[t] <= MaxAttempts
    OBVIOUS
  <2>1. b[t].col = "ready_to_dev"
    <3>1. Cols(b)[t] = "ready_to_dev"
      BY <1>5 DEF Ready, Executable
    <3> QED BY <3>1 DEF Cols
  <2>2. store[t].col = "ready_to_dev"
    BY <2>1, <1>3, SettledReady
  <2>3. attempts[t] \in Int /\ MaxAttempts \in Nat
    BY <1>3, BoundsAreNat
  <2> QED BY <2>2, <2>3, <1>4 DEF ParkInv
<1>8. wave' = go /\ parked \subseteq W /\ go \subseteq Tasks
  BY <1>2, <1>4 DEF Parked
<1>9. ASSUME NEW t \in Tasks
      PROVE  /\ store'[t].col = "absent" <=> store[t].col = "absent"
             /\ store[t].col \in {"done", "to_scope"} => store'[t] = store[t] /\ t \notin W
             /\ t \in parked => store'[t].col = "to_scope"
             /\ t \notin go /\ store[t].col \notin InFlightCols => store'[t].col \notin InFlightCols
  <2>1. PICK x \in Task, y \in Task : x = store[t] /\ y = b[t]
    BY <1>3
  <2>2. (x.col # "ready_to_dev" => y = x) /\ (y = x \/ y.col = "blocked")
    BY <1>3, <2>1, SettledReady
  <2>3. PICK z : z = ready[t]
    OBVIOUS
  <2>4. z = IF t \in parked THEN [y EXCEPT !.col = "to_scope", !.err = TRUE] ELSE y
    BY <2>1, <2>3
  <2>5. [y EXCEPT !.col = "to_scope", !.err = TRUE].col = "to_scope" /\ [y EXCEPT !.col = "in_progress"].col = "in_progress"
    BY TaskUpdates, ColumnNames
  <2>6. store'[t] = IF t \in go THEN [y EXCEPT !.col = "in_progress"] ELSE z
    <3>1. t \in go => z = y
      BY <2>4
    <3> HIDE DEF ready
    <3>2. CASE go = {} /\ board' = ready
      BY <1>1, <1>2, <2>3, <3>1, <3>2
    <3>3. CASE board' = [u \in Tasks |-> IF u \in go THEN [ready[u] EXCEPT !.col = "in_progress"] ELSE ready[u]]
      BY <1>1, <2>3, <3>1, <3>3
    <3> QED BY <1>2, <3>2, <3>3
  <2>7. t \in W => x.col = "ready_to_dev"
    BY <2>1, <1>7
  <2>8. (t \in go => t \in W) /\ (t \in parked => t \in W /\ t \notin go)
    BY <1>8
  <2> HIDE DEF b, ready, parked, go
  <2> QED BY <2>1, <2>2, <2>4, <2>5, <2>6, <2>7, <2>8 DEF InFlightCols
<1> HIDE DEF b, ready, go
<1>10. PresentInv'
  <2>1. go \subseteq PlannedTasks
    BY <1>4, <1>7, <1>8 DEF PresentInv, go
  <2> QED BY <2>1, <1>1, <1>4, <1>8, <1>9 DEF PresentInv, PlannedTasks
<1>11. ASSUME NEW t \in Tasks
      PROVE  /\ attempts[t] <= attempts'[t] /\ attempts'[t] \in Nat
             /\ t \in W => attempts[t] + 1 <= attempts'[t]
             /\ attempts'[t] > MaxAttempts => t \in parked \/ (attempts'[t] = attempts[t] /\ t \notin W)
  <2>1. PICK a \in Nat : a = attempts[t] /\ a <= MaxAttempts + 1
    BY <1>3, BoundsAreNat
  <2>2. attempts'[t] = IF t \notin W THEN a ELSE IF t \in parked THEN MaxAttempts + 1 ELSE a + 1
    BY <1>1, <2>1
  <2>3. t \in W => a <= MaxAttempts /\ (t \notin parked => a + 1 <= MaxAttempts)
    BY <1>7, <2>1, BoundsAreNat DEF Parked
  <2>4. PICK m \in Nat : m = MaxAttempts
    BY BoundsAreNat
  <2> HIDE DEF parked
  <2>5. CASE t \notin W
    BY <2>1, <2>2, <2>5
  <2>6. CASE t \in W /\ t \in parked
    BY <2>1, <2>2, <2>3, <2>4, <2>6
  <2>7. CASE t \in W /\ t \notin parked
    BY <2>1, <2>2, <2>3, <2>4, <2>7
  <2> QED BY <2>5, <2>6, <2>7
<1>12. \A t \in parked : t \notin go
  BY DEF go
<1> HIDE DEF parked
<1>13. ParkInv'
  <2> SUFFICES ASSUME NEW t \in Tasks, attempts'[t] > MaxAttempts
               PROVE  t \notin wave' /\ store'[t].col = "to_scope"
    BY DEF ParkInv
  <2>1. CASE t \in parked
    BY <2>1, <1>8, <1>9, <1>12
  <2>2. CASE t \notin parked
    <3>1. attempts[t] > MaxAttempts /\ t \notin W
      BY <2>2, <1>11
    <3>2. store[t].col = "to_scope"
      BY <3>1, <1>4 DEF ParkInv
    <3>3. t \notin go
      BY <3>1 DEF go
    <3> QED BY <3>2, <3>3, <1>8, <1>9
  <2> QED BY <2>1, <2>2
<1>14. PatienceInv'
  <2>1. Patience' = Patience
    BY DEF Patience, Complete, PlannedTasks
  <2>2. ~ (0 > 0) /\ 0 <= Patience
    BY PatienceType
  <2> QED BY <2>1, <2>2, <1>1 DEF PatienceInv
<1>15. Spent \in SUBSET Spent' /\ Spent' \in SUBSET Turns
  <2>1. ASSUME NEW e \in Spent PROVE e \in Spent'
    <3>1. PICK t \in Tasks, k \in 1 .. MaxAttempts + 1 :
            /\ e = <<t, k>> /\ t = e[1] /\ k = e[2] /\ e \in Turns
            /\ k <= attempts[t] \/ store[t].col = "done"
      BY DEF Spent, Turns, PlannedTasks
    <3>2. attempts[t] <= attempts'[t] /\ attempts'[t] \in Nat /\ attempts[t] \in Nat
      BY <1>3, <1>11, BoundsAreNat
    <3>3. store[t].col = "done" => store'[t].col = "done" /\ t \notin wave'
      <4>1. go \subseteq W
        BY DEF go
      <4> QED BY <4>1, <1>8, <1>9
    <3>6. k \in Nat
      BY BoundsAreNat
    <3>4. k <= attempts'[t] \/ (t \notin wave' /\ store'[t].col = "done")
      BY <3>1, <3>2, <3>3, <3>6
    <3>5. Turns' = Turns
      BY DEF Turns, PlannedTasks
    <3> QED BY <3>1, <3>4, <3>5 DEF Spent
  <2> QED BY <2>1 DEF Spent, Turns, PlannedTasks
<1>16. Spent # Spent'
  <2>1. PICK w \in W : w \in Tasks
    BY <1>1
  <2>2. PICK k \in 1 .. MaxAttempts + 1 : k = attempts[w] + 1
    BY <2>1, <1>3, <1>7, BoundsAreNat
  <2> DEFINE e == <<w, k>>
  <2>4. store[w].col = "ready_to_dev" /\ ~ (k <= attempts[w]) /\ k <= attempts'[w]
    BY <2>1, <2>2, <1>3, <1>7, <1>11, BoundsAreNat
  <2>5. w \in PlannedTasks
    BY <2>1, <2>4, <1>4 DEF PresentInv
  <2>6. e \in Turns /\ Turns' = Turns
    BY <2>2, <2>5 DEF Turns, PlannedTasks
  <2>7. e \notin Spent
    BY <2>4 DEF Spent
  <2>8. e \in Spent'
    BY <2>4, <2>6 DEF Spent
  <2> QED BY <2>7, <2>8
<1>17. Reclaimed \in {0, 1} /\ Reclaimed' \in {0, 1} /\ (Reclaimed = 1 => Reclaimed' = 1)
  <2>1. Reclaimed = 1 => \A t \in Tasks : store[t].col \notin InFlightCols
    BY <1>4 DEF Reclaimed
  <2>2. Reclaimed = 1 => \A t \in Tasks \ wave' : store'[t].col \notin InFlightCols
    BY <2>1, <1>8, <1>9
  <2> QED BY <2>2 DEF Reclaimed
<1>18. CountInv'
  <2>1. Cardinality(Spent) + 1 <= Cardinality(Spent') /\ Cardinality(Spent) \in Nat /\ Cardinality(Spent') \in Nat
    BY <1>15, <1>16, Spendings
  <2>2. CountInv' <=> guard' <= Cardinality(Spent') + idle' + Reclaimed'
    BY DEF CountInv
  <2> QED BY <2>1, <2>2, <1>1, <1>3, <1>4, <1>6, <1>17 DEF CountInv
<1>19. LandInv'
  <2>1. CASE pc' = "top"
    <3>1. wave' = {} /\ ladder' = ladder
      BY <2>1, <1>2, <1>4
    <3> QED BY <2>1, <3>1, <1>1, LandOutside
  <2>2. CASE pc' # "top"
    <3>1. pc' = "prepare" /\ skipped' = skip /\ skip \subseteq Tasks
          /\ \A t \in Tasks : ladder'[t] # "judged" /\ (t \in skip => ladder'[t] = "look")
      BY <2>2, <1>2
    <3> QED BY <3>1 DEF LandInv, Handled
  <2> QED BY <2>1, <2>2
<1> QED BY <1>10, <1>13, <1>14, <1>18, <1>19 DEF RoundInv

\* What a step of a wave changes: tasks of the wave, to columns of the board, and elsewhere
\* the memory and the file only copy each other.
OnlyWave ==
  /\ UNCHANGED <<guard, idle, attempts, wave>>
  /\ \A t \in Tasks : /\ board'[t] \in {board[t], store[t]} \/ (t \in wave /\ board'[t].col # "absent")
                      /\ store'[t] \in {board[t], store[t]} \/ (t \in wave /\ store'[t].col # "absent")

LEMMA RoundWave ==
  ASSUME Calm, RoundInv, InWave, pc' # "top", OnlyWave
  PROVE  RoundInv'
<1>1. PresentInv /\ ParkInv /\ PatienceInv /\ CountInv /\ pc \notin {"top", "returned"}
  BY DEF RoundInv, InWave
<1>2. \A t \in Tasks \ wave : board[t] = store[t]
  BY <1>1 DEF Calm, IInv, Kept, SharedBoardsAgree, QuietInv
<1>3. \A t \in Tasks \ wave : board'[t] = store[t] /\ store'[t] = store[t]
  BY <1>2 DEF OnlyWave
<1>4. UNCHANGED <<guard, idle, attempts, wave>> /\ idle \in Nat
  BY DEF OnlyWave, Calm, IInv, TypeOK
<1>5. PresentInv'
  <2>1. ASSUME NEW t \in Tasks
        PROVE  /\ board'[t].col = "absent" <=> t \notin PlannedTasks
               /\ store'[t].col = "absent" <=> t \notin PlannedTasks
    BY <1>1 DEF PresentInv, OnlyWave
  <2> QED BY <2>1, <1>1, <1>4 DEF PresentInv, PlannedTasks
<1>6. ParkInv'
  BY <1>1, <1>3, <1>4 DEF ParkInv
<1>7. PatienceInv'
  BY <1>1, <1>4 DEF PatienceInv, Patience, Complete, PlannedTasks
<1>8. CountInv'
  <2>1. Spent' = Spent /\ Reclaimed' = Reclaimed
    BY <1>3, <1>4, SpentStays
  <2> QED BY <2>1, <1>1, <1>4 DEF CountInv
<1> QED BY <1>5, <1>6, <1>7, <1>8 DEF RoundInv

\* A ladder that is not out keeps its task; one that is out has written where it landed.
LEMMA LandLadder ==
  ASSUME Calm, LandInv, NEW t \in Tasks, Look(t) \/ Judge(t) \/ Conclude(t) \/ Answer(t)
  PROVE  LandInv' /\ OnlyWave
<1>1. /\ pc \in {"prepare", "review"} /\ ladder[t] # "out" /\ shared
      /\ UNCHANGED <<pc, wave, skipped, guard, idle, attempts>>
  BY DEF Look, Judge, Conclude, Answer, MayAct, Reviewing, Calm, QuietInv
<1>2. Typed /\ t \in wave
  BY <1>1 DEF Typed, Calm, IInv, TypeOK, Kept, WaveInv
<1>3. \A u \in Tasks \ {t} : /\ board'[u] \in {board[u], store[u]}
                             /\ store'[u] \in {board[u], store[u]}
                             /\ ladder'[u] = ladder[u]
                             /\ ladder'[u] = "judged" => verdict'[u] = verdict[u]
  BY <1>1, <1>2, LadderElsewhere
<1>4. /\ ladder'[t] = "out" => store'[t] = board'[t] /\ board'[t].col \notin InFlightCols
      /\ ladder'[t] = "judged" => verdict'[t].task.col \in TakenAway
      /\ \/ board'[t] \in {board[t], store[t]} /\ store'[t] \in {board[t], store[t]}
         \/ board'[t].col # "absent" /\ store'[t] = board'[t]
  <2>1. CASE Look(t)
    <3>1. board' = store /\ store' = store
      BY <2>1, <1>1 DEF Look, Merge
    <3>2. \/ ladder'[t] = "judge"
          \/ ladder'[t] = "judged" /\ store[t].col \in TakenAway /\ verdict'[t].task = store[t]
      BY <2>1, <1>2 DEF Look, Typed
    <3> QED BY <3>1, <3>2
  <2>2. CASE Judge(t)
    <3>1. board' = board /\ store' = store
      BY <2>2 DEF Judge, storeVars
    <3>2. \/ ladder' = [ladder EXCEPT ![t] = "look"]
          \/ \E col, err, esc : col \in TakenAway /\ End(t, col, err, esc)
      BY <2>2 DEF Judge, TakenAway, Human
    <3>3. CASE ladder' = [ladder EXCEPT ![t] = "look"]
      BY <3>1, <3>3, <1>2 DEF Typed
    <3>4. CASE \E col, err, esc : col \in TakenAway /\ End(t, col, err, esc)
      <4>1. PICK col, err, esc : col \in TakenAway /\ End(t, col, err, esc)
        BY <3>4
      <4>2. ladder'[t] = "judged" /\ verdict'[t].task = [col |-> col, err |-> err, gate |-> board[t].gate]
        BY <4>1, <1>2 DEF Typed, End
      <4> QED BY <3>1, <4>1, <4>2
    <3> QED BY <3>2, <3>3, <3>4
  <2>3. CASE Conclude(t)
    <3>1. PICK v \in Task : v = verdict[t].task
      BY <1>2 DEF Typed
    <3>2. ladder[t] = "judged" /\ store' = board' /\ \E way \in {"out", "asking"} : ladder' = [ladder EXCEPT ![t] = way]
      BY <2>3 DEF Conclude, Persist
    <3>3. \E y \in {v, [v EXCEPT !.col = "ready_to_dev", !.err = FALSE]} : board' = [board EXCEPT ![t] = y]
      BY <2>3, <3>1 DEF Conclude
    <3>4. PICK y \in {v, [v EXCEPT !.col = "ready_to_dev", !.err = FALSE]} : board'[t] = y
      BY <3>3, <1>2 DEF Typed
    <3>5. v.col \in TakenAway /\ [v EXCEPT !.col = "ready_to_dev", !.err = FALSE].col = "ready_to_dev"
      BY <3>1, <3>2, WrittenColumns DEF LandInv
    <3>6. y.col \notin InFlightCols /\ y.col # "absent"
      BY <3>5 DEF TakenAway, Human, InFlightCols
    <3>7. ladder'[t] # "judged"
      BY <3>2, <1>2 DEF Typed
    <3> QED BY <3>2, <3>4, <3>6, <3>7
  <2>4. CASE Answer(t)
    <3>1. PICK x \in Task : x = board[t]
      BY <1>2 DEF Typed
    <3>2. store' = board' /\ ladder'[t] = "out" /\ board'[t] \in Answered(x)
      BY <2>4, <3>1, <1>2 DEF Answer, Persist, Typed, Answered
    <3>3. \A y \in Answered(x) : y.col \notin InFlightCols /\ y.col # "absent"
      BY <3>1, AnsweredColumns DEF InFlightCols
    <3> QED BY <3>2, <3>3
  <2> QED BY <2>1, <2>2, <2>3, <2>4
<1>5. \A u \in Tasks : ladder'[u] = "judged" => verdict'[u].task.col \in TakenAway
  BY <1>3, <1>4 DEF LandInv
<1>6. Handled' = Handled /\ Handled \subseteq Tasks
  BY <1>1, <1>2 DEF Handled, Calm, IInv, TypeOK
<1>7. \A u \in Handled : ladder'[u] = "out" => Landed(u)'
  <2> SUFFICES ASSUME NEW u \in Handled, ladder'[u] = "out" PROVE Landed(u)'
    OBVIOUS
  <2>1. CASE u = t
    BY <2>1, <1>4 DEF Landed
  <2>2. CASE u # t
    <3>1. u \in Tasks /\ ladder[u] = "out" /\ board'[u] \in {board[u], store[u]} /\ store'[u] \in {board[u], store[u]}
      BY <2>2, <1>3, <1>6
    <3>2. Landed(u)
      BY <3>1, <1>1 DEF LandInv
    <3> QED BY <3>1, <3>2 DEF Landed
  <2> QED BY <2>1, <2>2
<1>8. LandInv'
  BY <1>1, <1>5, <1>6, <1>7 DEF LandInv
<1>9. OnlyWave
  BY <1>1, <1>2, <1>3, <1>4 DEF OnlyWave
<1> QED BY <1>8, <1>9

LEMMA LandAll ==
  ASSUME Calm, LandInv, ConcludeAll
  PROVE  LandInv' /\ OnlyWave
<1>1. /\ UNCHANGED <<pc, wave, skipped, guard, idle, attempts>> /\ pc \in {"prepare", "review"} /\ store' = board'
      /\ \A t \in Tasks : ladder'[t] \in {"asking", "out"}
      /\ \A t \in Tasks : \/ board'[t] = board[t] /\ ladder[t] = "out" /\ ladder'[t] = "out"
                          \/ ladder[t] = "judged" /\ board'[t] = verdict[t].task
  BY DEF ConcludeAll, Reviewing, Persist
<1>2. \A t \in Tasks : \/ board'[t] = board[t] /\ ladder[t] = "out" /\ ladder'[t] = "out"
                       \/ t \in wave /\ board'[t].col \notin InFlightCols /\ board'[t].col # "absent"
  <2>1. \A t \in Tasks : ladder[t] = "judged" => t \in wave /\ verdict[t].task.col \in TakenAway
    BY DEF LandInv, Calm, IInv, Kept, WaveInv
  <2>2. \A c \in TakenAway : c \notin InFlightCols /\ c # "absent"
    BY DEF TakenAway, Human, InFlightCols
  <2> QED BY <1>1, <2>1, <2>2
<1>3. Handled' = Handled /\ Handled \subseteq Tasks
  BY <1>1 DEF Handled, Calm, IInv, TypeOK
<1>4. \A u \in Handled : ladder'[u] = "out" => Landed(u)'
  <2> SUFFICES ASSUME NEW u \in Handled, ladder'[u] = "out" PROVE Landed(u)'
    OBVIOUS
  <2>1. ladder[u] = "out" => Landed(u)
    BY <1>1 DEF LandInv
  <2>2. board'[u].col \notin InFlightCols
    BY <2>1, <1>2, <1>3 DEF Landed
  <2> QED BY <2>2, <1>1 DEF Landed
<1>5. LandInv'
  BY <1>1, <1>3, <1>4 DEF LandInv
<1>6. OnlyWave
  BY <1>1, <1>2 DEF OnlyWave
<1> QED BY <1>5, <1>6

\* From one stage of the wave to the next.
LEMMA LandStages ==
  ASSUME Calm, LandInv, EndPrepare \/ CollectAny \/ StartReview \/ EndReview
  PROVE  LandInv' /\ OnlyWave /\ pc' # "top"
<1>1. Typed /\ skipped \subseteq wave
  BY DEF Typed, Calm, IInv, TypeOK
<1>2. CASE EndPrepare \/ EndReview
  <2>1. /\ UNCHANGED <<board, wave, skipped, ladder, verdict, guard, idle, attempts>>
        /\ LaddersOut /\ store' \in {store, board}
        /\ \/ pc = "prepare" /\ pc' = "work"
           \/ pc = "prepare" /\ pc' = "after" /\ wave = skipped /\ store' = board
           \/ pc = "review" /\ pc' = "after" /\ store' = board
           \/ pc = "review" /\ pc' = "returned"
    BY <1>2 DEF EndPrepare, EndReview, Persist, storeVars, waveVars, Return
  <2>2. \A t \in Handled : Landed(t)
    <3>1. Handled \subseteq Tasks
      BY <1>1 DEF Handled, Typed
    <3> QED BY <2>1, <3>1 DEF LandInv, LaddersOut
  <2>3. \A t \in Handled : Landed(t)'
    BY <2>1, <2>2 DEF Landed
  <2>4. LandInv'
    BY <2>1, <2>3 DEF LandInv, Handled
  <2> QED BY <2>1, <2>4 DEF OnlyWave
<1>3. CASE CollectAny
  <2>1. PICK ok, weak, late, cut, failed \in SUBSET Workers :
               Outcomes(ok, weak, late, cut, failed) /\ Collect(ok, weak, late, cut, failed)
    BY <1>3 DEF CollectAny, Outcomes
  <2>11. /\ ok \cap (late \cup cut \cup failed) = {} /\ late \cap (cut \cup failed) = {}
         /\ ok \cup weak \cup late \cup cut \cup failed = Workers
    <3>1. /\ ok \cap (weak \cup late \cup cut \cup failed) = {}
          /\ late \cap (weak \cup ok \cup cut \cup failed) = {}
      BY <2>1, <1>1, OutcomesApart
    <3>2. ok \cup weak \cup late \cup cut \cup failed = Workers
      BY <2>1 DEF Outcomes
    <3> QED BY ONLY <3>1, <3>2
  <2>2. /\ pc = "work" /\ pc' = "critique" /\ store' = board' /\ UNCHANGED <<wave, skipped, verdict, guard, idle, attempts>>
        /\ \A t \in Tasks : ladder'[t] = IF t \in weak THEN "weak" ELSE "out"
    BY <2>1 DEF Collect, Persist
  <2>3. board' = [t \in Tasks |->
          CASE t \in ok -> Delivered(t)
            [] t \in late -> AfterTimeout(t)
            [] t \in cut \cup failed -> [board[t] EXCEPT !.col = "blocked", !.err = TRUE]
            [] OTHER -> board[t]]
    BY <2>1 DEF Collect
  <2>4. ASSUME NEW t \in Tasks
        PROVE  \/ board'[t] = board[t] /\ t \notin ok /\ t \notin late /\ t \notin cut /\ t \notin failed
               \/ t \in Workers /\ board'[t].col \in {"in_review", "ready_to_dev", "to_scope", "blocked"}
    <3>1. PICK x \in Task : x = board[t]
      BY <1>1 DEF Typed
    <3>2. /\ Delivered(t).col = "in_review" /\ AfterTimeout(t).col \in {"ready_to_dev", "to_scope"}
          /\ [board[t] EXCEPT !.col = "blocked", !.err = TRUE].col = "blocked"
      BY <3>1, WrittenColumns DEF Delivered, AfterTimeout
    <3>3. CASE t \in ok
      <4>1. board'[t] = Delivered(t)
        BY <2>3, <2>11, <3>3
      <4> QED BY <2>1, <3>2, <3>3, <4>1
    <3>4. CASE t \notin ok /\ t \in late
      <4>1. board'[t] = AfterTimeout(t)
        BY <2>3, <2>11, <3>4
      <4> QED BY <2>1, <3>2, <3>4, <4>1
    <3>5. CASE t \notin ok /\ t \notin late /\ t \in cut \cup failed
      <4>1. board'[t] = [board[t] EXCEPT !.col = "blocked", !.err = TRUE]
        BY <2>3, <3>5
      <4> QED BY <2>1, <3>2, <3>5, <4>1
    <3>6. CASE t \notin ok /\ t \notin late /\ t \notin cut \cup failed
      BY <2>3, <3>6
    <3> QED BY <3>3, <3>4, <3>5, <3>6
  <2>5. Workers' = Workers /\ Workers \subseteq wave
    BY <2>2 DEF Workers
  <2>6. \A t \in skipped : t \in Tasks /\ Landed(t) /\ t \notin Workers
    BY <2>2, <1>1 DEF LandInv, Workers, Typed
  <2>7. \A t \in skipped : ladder'[t] = "out" /\ Landed(t)'
    <3> SUFFICES ASSUME NEW t \in skipped PROVE ladder'[t] = "out" /\ Landed(t)'
      OBVIOUS
    <3>1. t \notin weak /\ board'[t] = board[t]
      BY <2>4, <2>6, <2>11
    <3> QED BY <3>1, <2>2, <2>6 DEF Landed
  <2>8. \A t \in Workers : ladder'[t] = "weak" \/ board'[t].col # "in_progress"
    <3> SUFFICES ASSUME NEW t \in Workers, t \notin weak PROVE board'[t].col # "in_progress"
      BY <2>2, <1>1 DEF Workers, Typed
    <3>1. t \in Tasks /\ (t \in ok \/ t \in late \/ t \in cut \/ t \in failed)
      BY <2>11, <1>1 DEF Workers, Typed
    <3> QED BY <2>4, <3>1
  <2>9. LandInv'
    BY <2>2, <2>5, <2>7, <2>8 DEF LandInv
  <2>10. OnlyWave
    <3>1. \A t \in Tasks : board'[t] = board[t] \/ (t \in wave /\ board'[t].col # "absent")
      BY <2>4, <2>5
    <3> QED BY <3>1, <2>2 DEF OnlyWave
  <2> QED BY <2>2, <2>9, <2>10
<1>4. CASE StartReview
  <2>1. /\ pc = "critique" /\ pc' = "review" /\ UNCHANGED <<store, wave, skipped, verdict, guard, idle, attempts>>
        /\ \A t \in Tasks : board'[t] = IF ladder[t] = "weak" THEN Delivered(t) ELSE board[t]
        /\ \A t \in Tasks : ladder'[t] = IF t \in Workers /\ board'[t].col = "in_review" /\ ~ board'[t].err
                                         THEN "look" ELSE "out"
    BY <1>4 DEF StartReview, storeVars
  <2>2. store = board /\ Handled' = wave
    BY <2>1 DEF LandInv, Handled
  <2>3. ASSUME NEW t \in wave, ladder'[t] = "out" PROVE Landed(t)'
    <3>1. t \in Tasks
      BY <1>1 DEF Typed
    <3>2. CASE t \in skipped
      <4>1. ladder[t] = "out" /\ Landed(t)
        BY <3>2, <2>1 DEF LandInv
      <4> QED BY <4>1, <2>1, <3>1 DEF Landed
    <3>3. CASE t \notin skipped
      <4>1. t \in Workers
        BY <3>3 DEF Workers
      <4>2. board'[t].col # "in_review" \/ board'[t].err
        BY <2>1, <2>3, <3>1, <4>1
      <4>3. ladder[t] # "weak"
        <5> SUFFICES ASSUME ladder[t] = "weak" PROVE FALSE
          OBVIOUS
        <5>1. PICK x \in Task : x = board[t] /\ ~ x.err
          BY <1>1, <2>1, <3>1 DEF Typed, Calm, QuietInv
        <5>2. board'[t] = [x EXCEPT !.col = "in_review"]
          BY <2>1, <3>1, <5>1 DEF Delivered
        <5>3. board'[t].col = "in_review" /\ board'[t].err = x.err
          BY <5>2 DEF Task
        <5> QED BY <4>2, <5>1, <5>3
      <4>4. board'[t] = board[t] /\ board[t].col # "in_progress"
        BY <2>1, <3>1, <4>1, <4>3 DEF LandInv
      <4>5. board[t].col = "in_review" => ~ board[t].err
        BY <3>1 DEF Calm, QuietInv, Quiet
      <4>6. board[t].col \notin InFlightCols
        BY <4>2, <4>4, <4>5, <1>1, <3>1 DEF InFlightCols, Typed, Task
      <4> QED BY <4>4, <4>6, <2>1, <2>2 DEF Landed
    <3> QED BY <3>2, <3>3
  <2>4. LandInv'
    <3>1. \A t \in Tasks : ladder'[t] # "judged"
      BY <2>1
    <3> QED BY <2>1, <2>2, <2>3, <3>1 DEF LandInv
  <2>5. ASSUME NEW t \in Tasks PROVE board'[t] = board[t] \/ (t \in wave /\ board'[t].col # "absent")
    <3>1. CASE ladder[t] # "weak"
      BY <2>1, <3>1
    <3>2. CASE ladder[t] = "weak"
      <4>1. PICK x \in Task : x = board[t]
        BY <1>1 DEF Typed
      <4>2. board'[t] = [x EXCEPT !.col = "in_review"]
        BY <2>1, <3>2, <4>1 DEF Delivered
      <4>3. board'[t].col = "in_review"
        BY <4>2, WrittenColumns
      <4>4. t \in wave
        BY <3>2 DEF Calm, IInv, Kept, WaveInv
      <4> QED BY <4>3, <4>4
    <3> QED BY <3>1, <3>2
  <2> QED BY <2>1, <2>4, <2>5 DEF OnlyWave
<1> QED BY <1>2, <1>3, <1>4

\* The wave is over: what it finished has spent its attempts, and it left nothing in flight.
LEMMA RoundEnds ==
  ASSUME Calm, LandInv, RoundInv, NEW stop, NEW quiet, FinishRound({}, {}, stop, quiet)
  PROVE  RoundInv' /\ LandInv'
<1>1. /\ pc = "after" /\ pc' \in {"top", "returned"} /\ store' = board' /\ wave' = {}
      /\ UNCHANGED <<ladder, verdict, guard, idle>>
      /\ attempts' = [t \in Tasks |-> IF Cleared(t) THEN 0 ELSE attempts[t]]
  BY DEF FinishRound, Return, Persist
<1>2. board' = board
  <2>1. board \in [Tasks -> Task] /\ \A t \in Tasks : board'[t] = board[t]
    BY DEF FinishRound, Calm, IInv, TypeOK
  <2>2. board' \in [Tasks -> Task]
    BY <2>1 DEF FinishRound
  <2> QED BY <2>1, <2>2
<1>3. PresentInv /\ ParkInv /\ PatienceInv /\ CountInv /\ store = board /\ \A t \in wave : Landed(t)
  BY <1>1 DEF RoundInv, LandInv
<1>4. idle \in Nat /\ guard \in Nat /\ attempts \in [Tasks -> 0 .. MaxAttempts + 1] /\ MaxAttempts \in Nat
  BY BoundsAreNat DEF Calm, IInv, TypeOK
<1>5. store' = store
  BY <1>1, <1>2, <1>3
<1>6. PresentInv'
  BY <1>1, <1>2, <1>3 DEF PresentInv, PlannedTasks
<1>7. ParkInv'
  <2> SUFFICES ASSUME NEW t \in Tasks, attempts'[t] > MaxAttempts PROVE store[t].col = "to_scope"
    BY <1>1, <1>5 DEF ParkInv
  <2>1. attempts'[t] = attempts[t]
    BY <1>1, <1>4
  <2> QED BY <2>1, <1>3 DEF ParkInv
<1>8. PatienceInv'
  <2>1. ~ (idle > 0)
    BY <1>1, <1>3 DEF PatienceInv
  <2> QED BY <2>1, <1>1, <1>3 DEF PatienceInv, Patience, Complete, PlannedTasks
<1>9. Reclaimed \in {0, 1} /\ Reclaimed' \in {0, 1} /\ (Reclaimed = 1 => Reclaimed' = 1)
  <2>1. Reclaimed = 1 => \A t \in Tasks : store[t].col \notin InFlightCols
    BY <1>3 DEF Reclaimed, Landed
  <2> QED BY <2>1, <1>5 DEF Reclaimed
<1>10. Spent \in SUBSET Spent' /\ Spent' \in SUBSET Turns
  <2>1. ASSUME NEW e \in Spent PROVE e \in Spent'
    <3>1. PICK t \in Tasks, k \in 1 .. MaxAttempts + 1 :
            /\ t = e[1] /\ k = e[2] /\ e \in Turns
            /\ k <= attempts[t] \/ store[t].col = "done"
      BY DEF Spent, Turns, PlannedTasks
    <3>2. Turns' = Turns
      BY DEF Turns, PlannedTasks
    <3>3. k <= attempts'[t] \/ store'[t].col = "done"
      BY <3>1, <1>1, <1>3, <1>5 DEF Cleared
    <3> QED BY <3>1, <3>2, <3>3, <1>1 DEF Spent
  <2> QED BY <2>1 DEF Spent, Turns, PlannedTasks
<1>11. CountInv'
  <2>1. Cardinality(Spent) <= Cardinality(Spent') /\ Cardinality(Spent) \in Nat /\ Cardinality(Spent') \in Nat
    BY <1>10, Spendings
  <2>2. CountInv' <=> guard' <= Cardinality(Spent') + idle' + Reclaimed'
    BY DEF CountInv
  <2> QED BY <2>1, <2>2, <1>1, <1>3, <1>4, <1>9 DEF CountInv
<1>12. LandInv'
  BY <1>1, LandOutside
<1> QED BY <1>6, <1>7, <1>8, <1>11, <1>12 DEF RoundInv

LEMMA RoundByNext ==
  ASSUME Coordinator = FALSE, MaxEdits = 0, GuardHasRoom,
         Calm, LandInv, RoundInv, GuardNeverFires, [Next]_vars
  PROVE  LandInv' /\ RoundInv' /\ GuardNeverFires'
<1>1. CASE ReturnGuard
  BY <1>1, GuardStays
<1>2. CASE ReturnCanceled \/ ReturnOutOfRunway \/ ReturnDrained
  <2>1. pc' = "returned" /\ result' # "safety_guard" /\ UNCHANGED <<ladder, verdict>>
    BY <1>2 DEF ReturnCanceled, ReturnOutOfRunway, ReturnDrained, Return, waveVars
  <2> QED BY <2>1, LandOutside DEF RoundInv, GuardNeverFires
<1>3. CASE IdleForAgents \/ IdleForHumans
  <2>1. pc = "top" /\ pc' \in {"top", "returned"} /\ UNCHANGED <<wave, ladder, verdict>>
        /\ result' \in {result, "idle_timeout", "human_backlog"}
    BY <1>3 DEF IdleForAgents, IdleForHumans, NothingReady, RoundStarts, Return, waveVars
  <2>2. LandInv'
    <3>1. wave' = {}
      BY <2>1 DEF LandInv
    <3> QED BY <2>1, <3>1, LandOutside
  <2> QED BY <1>3, <2>1, <2>2, RoundIdle DEF GuardNeverFires
<1>4. CASE Reclaim
  <2>1. pc = "top" /\ UNCHANGED <<pc, wave, ladder, verdict, result>>
    BY <1>4 DEF Reclaim, NothingReady, RoundStarts, waveVars
  <2>2. LandInv'
    <3>1. wave' = {}
      BY <2>1 DEF LandInv
    <3> QED BY <2>1, <3>1, LandOutside
  <2> QED BY <1>4, <2>1, <2>2, RoundReclaim DEF GuardNeverFires
<1>5. CASE \E W, skip \in SUBSET Tasks : Schedule(W, skip)
  <2>1. result' = result
    BY <1>5 DEF Schedule
  <2> QED BY <1>5, <2>1, RoundSchedule DEF GuardNeverFires
<1>6. CASE (\E t \in Tasks : Look(t) \/ Judge(t) \/ Conclude(t) \/ Answer(t)) \/ ConcludeAll
  <2>1. result' = result /\ InWave /\ pc' # "top"
    BY <1>6 DEF Look, Judge, Conclude, Answer, ConcludeAll, MayAct, Reviewing, InWave
  <2>2. LandInv' /\ OnlyWave
    BY <1>6, LandLadder, LandAll
  <2> QED BY <2>1, <2>2, RoundWave DEF GuardNeverFires
<1>7. CASE EndPrepare \/ CollectAny \/ StartReview \/ EndReview
  <2>1. result' \in {result, "canceled"} /\ InWave
    BY <1>7 DEF EndPrepare, CollectAny, Collect, StartReview, EndReview, Return, InWave
  <2>2. LandInv' /\ OnlyWave /\ pc' # "top"
    BY <1>7, LandStages
  <2> QED BY <2>1, <2>2, RoundWave DEF GuardNeverFires
<1>8. CASE FinishRoundAny
  <2>1. PICK stop, quiet : FinishRound({}, {}, stop, quiet)
    BY <1>8 DEF FinishRoundAny
  <2>2. result' \in {result, "objective_met", "no_progress"}
    BY <2>1 DEF FinishRound, Return
  <2> QED BY <2>1, <2>2, RoundEnds DEF GuardNeverFires
<1>9. CASE People
  <2>1. ~ (edits < MaxEdits)
    BY DEF Calm, IInv, TypeOK
  <2> QED BY <1>9, <2>1 DEF People, Patch, Retry, Post, Delete, Edit, Read
<1>10. CASE Stop \/ RunwayEnds \/ UNCHANGED vars
  <2>1. UNCHANGED <<runnerVars, storeVars>>
    BY <1>10 DEF Stop, RunwayEnds, vars
  <2>2. UNCHANGED <<board, store, pc, result, attempts, wave, skipped, ladder, verdict, guard, idle>>
    BY <2>1 DEF runnerVars, storeVars
  <2>3. LandInv'
    BY <2>2 DEF LandInv, Handled, Landed, Workers
  <2>4. PresentInv' = PresentInv /\ ParkInv' = ParkInv /\ Spent' = Spent /\ Reclaimed' = Reclaimed
    BY <2>2 DEF PresentInv, ParkInv, Spent, Turns, PlannedTasks, Reclaimed
  <2>5. PatienceInv' = PatienceInv
    BY <2>2 DEF PatienceInv, Patience, Complete, PlannedTasks, Ready, Orphans, Settled, Cols
  <2> QED BY <2>2, <2>3, <2>4, <2>5 DEF RoundInv, CountInv, GuardNeverFires
<1> QED BY <1>1, <1>2, <1>3, <1>4, <1>5, <1>6, <1>7, <1>8, <1>9, <1>10 DEF Next, Runner

LEMMA RoundAtFirst == Init => LandInv /\ RoundInv /\ GuardNeverFires
<1> SUFFICES ASSUME Init PROVE LandInv /\ RoundInv /\ GuardNeverFires
  OBVIOUS
<1>1. /\ pc = "top" /\ wave = {} /\ result = "running" /\ guard = 0 /\ idle = 0 /\ store = board
      /\ attempts = [t \in Tasks |-> 0] /\ ladder = [t \in Tasks |-> "out"]
      /\ board = [t \in Tasks |-> [col |-> Planned[t], err |-> FALSE, gate |-> 0]]
  BY DEF Init
<1>2. PresentInv
  BY <1>1 DEF PresentInv, PlannedTasks
<1>3. ParkInv
  BY <1>1, BoundsAreNat DEF ParkInv
<1>4. PatienceInv
  BY <1>1, PatienceType DEF PatienceInv
<1>5. CountInv
  <2>1. Spent \in SUBSET Turns
    BY DEF Spent
  <2>2. Cardinality(Spent) \in Nat /\ Reclaimed \in {0, 1}
    BY <2>1, Spendings DEF Reclaimed
  <2> QED BY <2>2, <1>1 DEF CountInv
<1>6. LandInv
  BY <1>1 DEF LandInv
<1> QED BY <1>1, <1>2, <1>3, <1>4, <1>5, <1>6 DEF RoundInv, GuardNeverFires

\* progress.go:62-65: the round guard is a backstop.  Whatever the workers and reviewers do,
\* a run that nobody edits ends by one of the other bounds, for every board for which the
\* guard leaves room for its attempts, its idling and one reclaim.
THEOREM GuardIsABackstop ==
  ASSUME Coordinator = FALSE, MaxEdits = 0, GuardHasRoom
  PROVE  Spec => []GuardNeverFires
<1>1. Init => QuietInv
  BY DEF Init, QuietInv, Quiet
<1>2. ASSUME TypeOK, QuietInv, [Next]_vars PROVE QuietInv'
  BY <1>2, QuietByNext
<1>3. ASSUME IInv, EndInv, QuietInv, LandInv, RoundInv, GuardNeverFires, [Next]_vars
      PROVE  LandInv' /\ RoundInv' /\ GuardNeverFires'
  BY <1>3, RoundByNext DEF Calm
<1>4. IInv => TypeOK
  BY DEF IInv
<1> QED BY <1>1, <1>2, <1>3, <1>4, RoundAtFirst, EndAlways, PTL DEF Spec
=============================================================================

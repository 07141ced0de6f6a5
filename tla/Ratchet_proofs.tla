---------------------------- MODULE Ratchet_proofs ----------------------------
(***************************************************************************)
(* Proofs about Ratchet for any surface, any evaluator, any guards with    *)
(* tolerances, any budget and any number of runs.                          *)
(***************************************************************************)
EXTENDS Ratchet, TLAPS

LEMMA NoScoreType == NoScore \in [Metrics -> Int]
  BY DEF NoScore, Unknown

LEMMA ScoreType == \A s \in Scores : s \in [Metrics -> Int]
  BY RatchetScores DEF Metrics

LEMMA ApplyType ==
  ASSUME disk \in Files, mem \in Files, NEW k \in Knobs, NEW v \in Values, Apply(k, v)
  PROVE  disk' \in Files /\ mem' \in Files
  BY DEF Apply, Files

LEMMA RatchetTypeInit == RatchetInit => RatchetTypeOK
<1> SUFFICES ASSUME RatchetInit PROVE RatchetTypeOK
  OBVIOUS
<1>1. runs \in 0 .. MaxRatchetRuns
  BY RatchetBounds DEF RatchetInit
<1>2. baseline \in [Metrics -> Int] /\ best \in [Metrics -> Int]
  BY NoScoreType DEF RatchetInit
<1> QED
  BY <1>1, <1>2 DEF RatchetInit, RatchetTypeOK

LEMMA ForgottenType ==
  ASSUME RatchetTypeOK, Forgotten
  PROVE  /\ mem' \in Files /\ champion' \in Files /\ trial' \in Changes \cup {NoChange}
         /\ tried' \subseteq Changes /\ baseline' \in [Metrics -> Int] /\ best' \in [Metrics -> Int]
         /\ broken' \in BOOLEAN /\ canceled' \in BOOLEAN
  BY NoScoreType DEF RatchetTypeOK, Forgotten

LEMMA RatchetTypeStep == RatchetTypeOK /\ [RatchetNext]_ratchetVars => RatchetTypeOK'
<1> SUFFICES ASSUME RatchetTypeOK, [RatchetNext]_ratchetVars PROVE RatchetTypeOK'
  OBVIOUS
<1> USE DEF research, bounds, LoopPhases
<1>1. ASSUME NEW isDry \in BOOLEAN, BeginResearch(isDry) PROVE RatchetTypeOK'
  <2>1. runs' \in 0 .. MaxRatchetRuns
    BY <1>1, RatchetBounds DEF BeginResearch, RatchetTypeOK
  <2>2. phase' \in {"propose", "clear"}
    BY <1>1 DEF BeginResearch
  <2>3. Forgotten /\ dry' \in BOOLEAN /\ found' \in Files /\ disk' = disk /\ snapshot' = snapshot
    BY <1>1 DEF BeginResearch, RatchetTypeOK
  <2> QED
    BY <2>1, <2>2, <2>3, ForgottenType DEF RatchetTypeOK
<1>2. CASE ClearSnapshot \/ PersistSnapshot \/ BaselineFails
  BY <1>2 DEF ClearSnapshot, PersistSnapshot, BaselineFails, RatchetTypeOK
<1>3. ASSUME NEW s \in Scores, MeasureBaseline(s) PROVE RatchetTypeOK'
  BY <1>3, ScoreType DEF MeasureBaseline, RatchetTypeOK
<1>4. ASSUME NEW reason, StopLoop(reason) PROVE RatchetTypeOK'
  BY <1>4 DEF StopLoop, RatchetTypeOK
<1>5. ASSUME NEW c \in Untried, Propose(c) PROVE RatchetTypeOK'
  <2>1. c \in Changes
    BY DEF Untried
  <2> QED
    BY <1>5, <2>1 DEF Propose, RatchetTypeOK
<1>6. CASE ApplyFails \/ EvaluationFails \/ RevertFails \/ CancelResearch
  BY <1>6 DEF ApplyFails, EvaluationFails, RevertFails, CancelResearch, RatchetTypeOK
<1>7. CASE ApplyChange
  <2>1. trial \in Changes
    BY <1>7 DEF ApplyChange, RatchetTypeOK
  <2>2. disk' \in Files /\ mem' \in Files
    BY <1>7, <2>1, ApplyType DEF ApplyChange, RatchetTypeOK, Changes
  <2> QED
    BY <1>7, <2>1, <2>2 DEF ApplyChange, RatchetTypeOK
<1>8. ASSUME NEW s \in Scores, JudgeTrial(s) PROVE RatchetTypeOK'
  BY <1>8, ScoreType DEF JudgeTrial, RatchetTypeOK
<1>9. CASE Revert
  <2>1. trial \in Changes
    BY <1>9 DEF Revert, RatchetTypeOK
  <2>2. disk' \in Files /\ mem' \in Files
    BY <1>9, <2>1, ApplyType DEF Revert, RatchetTypeOK, Changes
  <2> QED
    BY <1>9, <2>1, <2>2 DEF Revert, RatchetTypeOK
<1>10. CASE Kill
  BY <1>10, ForgottenType DEF Kill, RatchetTypeOK
<1>11. CASE RestoreLast
  <2>1. snapshot[1] \in Files
    BY <1>11 DEF RestoreLast, RatchetTypeOK
  <2> QED
    BY <1>11, <2>1 DEF RestoreLast, RatchetTypeOK
<1>12. CASE UNCHANGED ratchetVars
  BY <1>12 DEF ratchetVars, RatchetTypeOK
<1> QED
  BY <1>1, <1>2, <1>3, <1>4, <1>5, <1>6, <1>7, <1>8, <1>9, <1>10, <1>11, <1>12 DEF RatchetNext

\* Every variable keeps its type, and a change is under trial wherever one is applied or undone.
THEOREM RatchetTypeCorrect == RatchetSpec => []RatchetTypeOK
<1>1. RatchetInit => RatchetTypeOK
  BY RatchetTypeInit
<1>2. RatchetTypeOK /\ [RatchetNext]_ratchetVars => RatchetTypeOK'
  BY RatchetTypeStep
<1> QED
  BY <1>1, <1>2, PTL DEF RatchetSpec

-----------------------------------------------------------------------------
(* SurfaceIsChampion speaks of the ends of a trial; in its middle the files *)
(* are the champion's but for the knob under trial, and the trial knows the *)
(* value that knob has in the champion's files.                             *)
TrialInv ==
  /\ phase \in {"clear", "persist", "measure", "propose", "apply", "stopped"} => disk = champion /\ mem = disk
  /\ phase \in {"apply", "evaluate", "revert"} => champion[trial.knob] = trial.before
  /\ phase \in {"evaluate", "revert"} =>
       disk = [champion EXCEPT ![trial.knob] = trial.after] /\ mem = disk

LEMMA TrialStep ==
  RatchetTypeOK /\ TrialInv /\ [RatchetNext]_ratchetVars => TrialInv'
<1> SUFFICES ASSUME RatchetTypeOK, TrialInv, [RatchetNext]_ratchetVars PROVE TrialInv'
  OBVIOUS
<1> USE DEF research, bounds, TrialInv
<1>1. ASSUME NEW isDry \in BOOLEAN, BeginResearch(isDry) PROVE TrialInv'
  BY <1>1 DEF BeginResearch, Forgotten
<1>2. CASE ClearSnapshot \/ PersistSnapshot \/ BaselineFails \/ CancelResearch
  <2>1. UNCHANGED <<disk, mem, trial, champion>>
    BY <1>2 DEF ClearSnapshot, PersistSnapshot, BaselineFails, CancelResearch
  <2>2. \/ phase' \in {"persist", "measure", "stopped"} /\ phase \in {"clear", "persist", "measure"}
        \/ phase' = phase
    BY <1>2 DEF ClearSnapshot, PersistSnapshot, BaselineFails, CancelResearch
  <2> QED
    BY <2>1, <2>2
<1>3. ASSUME NEW s \in Scores, MeasureBaseline(s) PROVE TrialInv'
  BY <1>3 DEF MeasureBaseline
<1>4. ASSUME NEW reason, StopLoop(reason) PROVE TrialInv'
  BY <1>4 DEF StopLoop
<1>5. ASSUME NEW c \in Untried, Propose(c) PROVE TrialInv'
  <2>1. c.before = mem[c.knob]
    BY DEF Untried
  <2>2. UNCHANGED <<disk, mem, champion>> /\ trial' = c /\ phase = "propose" /\ phase' \in {"propose", "apply"}
    BY <1>5 DEF Propose
  <2> QED
    BY <2>1, <2>2
<1>6. CASE ApplyFails \/ EvaluationFails \/ RevertFails
  <2>1. UNCHANGED <<disk, mem, trial, champion>>
    BY <1>6 DEF ApplyFails, EvaluationFails, RevertFails
  <2>2. \/ phase = "apply" /\ phase' = "stopped"
        \/ phase = "evaluate" /\ phase' = "revert"
        \/ phase' = "stranded"
    BY <1>6 DEF ApplyFails, EvaluationFails, RevertFails
  <2> QED
    BY <2>1, <2>2
<1>7. CASE ApplyChange
  BY <1>7 DEF ApplyChange, Apply
<1>8. ASSUME NEW s \in Scores, JudgeTrial(s) PROVE TrialInv'
  <2>1. UNCHANGED <<disk, mem, trial>> /\ phase = "evaluate"
    BY <1>8 DEF JudgeTrial
  <2>2. \/ phase' = "propose" /\ champion' = disk
        \/ phase' = "revert" /\ champion' = champion
    BY <1>8 DEF JudgeTrial
  <2> QED
    BY <2>1, <2>2
<1>9. CASE Revert
  <2>1. phase' \in {"stopped", "propose"} /\ UNCHANGED champion /\ phase = "revert"
    BY <1>9 DEF Revert
  <2>2. disk' = [disk EXCEPT ![trial.knob] = trial.before] /\ mem' = [mem EXCEPT ![trial.knob] = trial.before]
    BY <1>9 DEF Revert, Apply
  <2>3. disk' = champion
    BY <2>1, <2>2 DEF RatchetTypeOK, Files
  <2> QED
    BY <2>1, <2>2, <2>3
<1>10. CASE Kill \/ RestoreLast
  BY <1>10 DEF Kill, RestoreLast
<1>11. CASE UNCHANGED ratchetVars
  BY <1>11 DEF ratchetVars
<1> QED
  BY <1>1, <1>2, <1>3, <1>4, <1>5, <1>6, <1>7, <1>8, <1>9, <1>10, <1>11 DEF RatchetNext

\* Between two trials the files are those the best score was measured on, and the surface agrees.
THEOREM SurfaceStaysChampion == RatchetSpec => []SurfaceIsChampion
<1>1. RatchetInit => RatchetTypeOK /\ TrialInv
  BY RatchetTypeInit DEF RatchetInit, TrialInv
<1>2. RatchetTypeOK /\ TrialInv /\ [RatchetNext]_ratchetVars => (RatchetTypeOK /\ TrialInv)'
  BY RatchetTypeStep, TrialStep
<1>3. TrialInv => SurfaceIsChampion
  BY DEF TrialInv, SurfaceIsChampion
<1> QED
  BY <1>1, <1>2, <1>3, PTL DEF RatchetSpec

-----------------------------------------------------------------------------
(* Undoable: a run that may write has its snapshot from before its first    *)
(* evaluation on, until then the files are as it found them, and a dry run  *)
(* never comes as far as to write.                                          *)
SnapshotInv ==
  /\ Undoable
  /\ phase \in {"clear", "persist", "measure"} => disk = found /\ ~ dry
  /\ phase = "measure" => snapshot = <<found>>
  /\ phase \in LoopPhases => snapshot = <<found>> \/ (dry /\ phase = "propose" /\ disk = found)

LEMMA SnapshotStep ==
  RatchetTypeOK /\ SnapshotInv /\ [RatchetNext]_ratchetVars => SnapshotInv'
<1> SUFFICES ASSUME RatchetTypeOK, SnapshotInv, [RatchetNext]_ratchetVars PROVE SnapshotInv'
  OBVIOUS
<1> USE DEF research, bounds, SnapshotInv, Undoable, LoopPhases
<1>1. ASSUME NEW isDry \in BOOLEAN, BeginResearch(isDry) PROVE SnapshotInv'
  BY <1>1 DEF BeginResearch
<1>2. CASE ClearSnapshot \/ PersistSnapshot \/ BaselineFails \/ CancelResearch
  <2>1. CASE ClearSnapshot
    BY <2>1 DEF ClearSnapshot
  <2>2. CASE PersistSnapshot
    BY <2>2 DEF PersistSnapshot
  <2>3. CASE BaselineFails
    BY <2>3 DEF BaselineFails
  <2>4. CASE CancelResearch
    BY <2>4 DEF CancelResearch
  <2> QED
    BY <1>2, <2>1, <2>2, <2>3, <2>4
<1>3. ASSUME NEW s \in Scores, MeasureBaseline(s) PROVE SnapshotInv'
  BY <1>3 DEF MeasureBaseline
<1>4. ASSUME NEW reason, StopLoop(reason) PROVE SnapshotInv'
  BY <1>4 DEF StopLoop
<1>5. ASSUME NEW c \in Untried, Propose(c) PROVE SnapshotInv'
  BY <1>5 DEF Propose
<1>6. CASE ApplyFails \/ EvaluationFails \/ RevertFails
  BY <1>6 DEF ApplyFails, EvaluationFails, RevertFails
<1>7. CASE ApplyChange
  BY <1>7 DEF ApplyChange
<1>8. ASSUME NEW s \in Scores, JudgeTrial(s) PROVE SnapshotInv'
  BY <1>8 DEF JudgeTrial
<1>9. CASE Revert
  BY <1>9 DEF Revert
<1>10. CASE Kill
  BY <1>10 DEF Kill
<1>11. CASE RestoreLast
  <2>1. snapshot = <<snapshot[1]>>
    BY <1>11 DEF RestoreLast, RatchetTypeOK
  <2> QED
    BY <1>11, <2>1 DEF RestoreLast
<1>12. CASE UNCHANGED ratchetVars
  BY <1>12 DEF ratchetVars
<1> QED
  BY <1>1, <1>2, <1>3, <1>4, <1>5, <1>6, <1>7, <1>8, <1>9, <1>10, <1>11, <1>12 DEF RatchetNext

\* What a run changed can be put back, wherever it was killed.
THEOREM RunsAreUndoable == RatchetSpec => []Undoable
<1>1. RatchetInit => RatchetTypeOK /\ SnapshotInv
  BY RatchetTypeInit DEF RatchetInit, SnapshotInv, Undoable, LoopPhases
<1>2. RatchetTypeOK /\ SnapshotInv /\ [RatchetNext]_ratchetVars => (RatchetTypeOK /\ SnapshotInv)'
  BY RatchetTypeStep, SnapshotStep
<1>3. SnapshotInv => Undoable
  BY DEF SnapshotInv
<1> QED
  BY <1>1, <1>2, <1>3, PTL DEF RatchetSpec

-----------------------------------------------------------------------------
(* NoDrift: the champion is the baseline's until something improved on it, *)
(* and improvements add up.                                                *)
GuardedPrimary == best["primary"] - baseline["primary"] > MinImprovement

DriftInv ==
  /\ Guarded(baseline, best)
  /\ best = baseline \/ GuardedPrimary
  /\ phase # "idle" /\ champion # found => GuardedPrimary
  /\ phase \in {"clear", "persist", "measure"} => champion = found

\* No score is a breach of itself.
LEMMA OwnGuard == \A s \in [Metrics -> Int] : Guarded(s, s)
<1> SUFFICES ASSUME NEW s \in [Metrics -> Int], NEW g \in Guards PROVE ~ Breaches(g, s, s)
  BY DEF Guarded
<1>1. s[g.metric] \in Int /\ g.tolerance \in Nat
  BY RatchetScores DEF Metrics
<1>2. s[g.metric] - s[g.metric] = 0
  BY <1>1
<1>3. CASE g.relative /\ s[g.metric] > 0
  <2>1. g.tolerance * s[g.metric] >= 0
    BY <1>1, <1>3
  <2>2. ~ (100 * 0 > g.tolerance * s[g.metric])
    BY <1>1, <2>1
  <2> QED
    BY <1>2, <1>3, <2>2 DEF Breaches
<1>4. CASE g.relative /\ ~ (s[g.metric] > 0)
  BY <1>4 DEF Breaches
<1>5. CASE ~ g.relative
  <2>1. ~ (100 * 0 > g.tolerance * 100)
    BY <1>1
  <2> QED
    BY <1>2, <1>5, <2>1 DEF Breaches
<1> QED
  BY <1>3, <1>4, <1>5

LEMMA DriftStep ==
  RatchetTypeOK /\ DriftInv /\ [RatchetNext]_ratchetVars => DriftInv'
<1> SUFFICES ASSUME RatchetTypeOK, DriftInv, [RatchetNext]_ratchetVars PROVE DriftInv'
  OBVIOUS
<1> USE DEF research, bounds, GuardedPrimary
<1>f. ASSUME Forgotten PROVE Guarded(baseline, best)' /\ best' = baseline'
  <2>1. Guarded(NoScore, NoScore)
    BY NoScoreType, OwnGuard
  <2> QED
    BY <1>f, <2>1 DEF Forgotten, Guarded, Breaches
<1>1. ASSUME NEW isDry \in BOOLEAN, BeginResearch(isDry) PROVE DriftInv'
  <2>1. champion' = found' /\ Forgotten
    BY <1>1 DEF BeginResearch, Forgotten
  <2> QED
    BY <1>f, <2>1 DEF DriftInv
<1>2. CASE \/ ClearSnapshot \/ PersistSnapshot \/ BaselineFails \/ ApplyChange \/ ApplyFails
           \/ EvaluationFails \/ Revert \/ RevertFails \/ CancelResearch \/ UNCHANGED ratchetVars
  <2>1. UNCHANGED <<baseline, best, champion, found>>
    BY <1>2 DEF ClearSnapshot, PersistSnapshot, BaselineFails, ApplyChange, ApplyFails,
       EvaluationFails, Revert, RevertFails, CancelResearch, ratchetVars
  <2>2. (phase' # "idle" => phase # "idle")
        /\ (phase' \in {"clear", "persist", "measure"} => phase \in {"clear", "persist", "measure"})
    BY <1>2 DEF ClearSnapshot, PersistSnapshot, BaselineFails, ApplyChange, ApplyFails,
       EvaluationFails, Revert, RevertFails, CancelResearch, ratchetVars
  <2> QED
    BY <2>1, <2>2 DEF DriftInv, Guarded, Breaches
<1>3. ASSUME NEW s \in Scores, MeasureBaseline(s) PROVE DriftInv'
  <2>1. Guarded(s, s)
    BY ScoreType, OwnGuard
  <2> QED
    BY <1>3, <2>1 DEF MeasureBaseline, DriftInv, Guarded, Breaches
<1>4. ASSUME NEW reason, StopLoop(reason) PROVE DriftInv'
  BY <1>4 DEF StopLoop, DriftInv, Guarded, Breaches
<1>5. ASSUME NEW c \in Untried, Propose(c) PROVE DriftInv'
  BY <1>5 DEF Propose, DriftInv, Guarded, Breaches
<1>6. ASSUME NEW s \in Scores, JudgeTrial(s) PROVE DriftInv'
  <2>1. UNCHANGED <<baseline, found>> /\ phase = "evaluate" /\ phase' \in {"propose", "revert"}
    BY <1>6 DEF JudgeTrial
  <2>2. CASE Keeps(s)
    <3>1. best' = s /\ Guarded(baseline, s) /\ s["primary"] - best["primary"] > MinImprovement
      BY <1>6, <2>2 DEF JudgeTrial, Keeps
    <3>2. s["primary"] \in Int /\ best["primary"] \in Int /\ baseline["primary"] \in Int
      BY ScoreType DEF RatchetTypeOK, Metrics
    <3>3. best["primary"] - baseline["primary"] >= 0
      BY <3>2, RatchetScores DEF DriftInv
    <3>4. s["primary"] - baseline["primary"] > MinImprovement
      BY <3>1, <3>2, <3>3, RatchetScores
    <3> QED
      BY <2>1, <3>1, <3>4 DEF DriftInv, Guarded, Breaches
  <2>3. CASE ~ Keeps(s)
    <3>1. UNCHANGED <<best, champion>>
      BY <1>6, <2>3 DEF JudgeTrial
    <3> QED
      BY <2>1, <3>1 DEF DriftInv, Guarded, Breaches
  <2> QED
    BY <2>2, <2>3
<1>7. CASE Kill
  <2>1. Forgotten /\ phase' = "idle"
    BY <1>7 DEF Kill
  <2> QED
    BY <1>f, <2>1 DEF DriftInv
<1>8. CASE RestoreLast
  BY <1>8 DEF RestoreLast, DriftInv, Guarded, Breaches
<1> QED
  BY <1>1, <1>2, <1>3, <1>4, <1>5, <1>6, <1>7, <1>8 DEF RatchetNext

\* Steps that each stay within the tolerances do not add up past those of the baseline.
THEOREM StepsDoNotDrift == RatchetSpec => []NoDrift
<1>1. RatchetInit => RatchetTypeOK /\ DriftInv
  <2>1. Guarded(NoScore, NoScore)
    BY NoScoreType, OwnGuard
  <2> QED
    BY <2>1, RatchetTypeInit DEF RatchetInit, DriftInv
<1>2. RatchetTypeOK /\ DriftInv /\ [RatchetNext]_ratchetVars => (RatchetTypeOK /\ DriftInv)'
  BY RatchetTypeStep, DriftStep
<1>3. DriftInv => NoDrift
  BY DEF DriftInv, NoDrift, GuardedPrimary
<1> QED
  BY <1>1, <1>2, <1>3, PTL DEF RatchetSpec
=============================================================================

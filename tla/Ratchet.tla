------------------------------ MODULE Ratchet ------------------------------
(***************************************************************************)
(* The autoresearch ratchet: pkg/autoresearch/ratchet.go (Run, budgetStop, *)
(* runTrial, RestoreLast), with the snapshots of snapshot.go, the surface  *)
(* (Apply, SetValue) of surface.go, the guards of evaluate.go and what     *)
(* propose.go may propose.  A trial writes one knob to the user's files,   *)
(* has the harness evaluated for minutes and keeps the value or restores   *)
(* the files.  An evaluation may fail, panic or be canceled, a restore may *)
(* fail, and the process may be killed at any point.                       *)
(*                                                                         *)
(* The files are the value each knob has in them.  A score is a choice of  *)
(* the evaluator; its rates are in percentage points.                      *)
(***************************************************************************)
EXTENDS Integers, FiniteSets

CONSTANTS
  Knobs, Values,     \* the surface, and the values of its domains
  Scores,            \* what an evaluation may measure: "primary" and the guarded metrics
  Guards,            \* [metric, higher, relative, tolerance], tolerances in percent
  MinImprovement,
  MaxExperiments,    \* the budget that is counted; the clock's and the tokens' are choices
  MaxRatchetRuns     \* bound of the model: runs, one after the other

ASSUME RatchetBounds == MaxExperiments \in Nat /\ MaxRatchetRuns \in Nat
ASSUME RatchetScores ==
  /\ Scores \subseteq [{"primary"} \cup {g.metric : g \in Guards} -> Int] /\ MinImprovement \in Nat
  /\ \A g \in Guards : g.tolerance \in Nat

VARIABLES
  disk,     \* [Knobs -> Values]: the files
  mem,      \* Surface.knobs' values
  snapshot, \* the durable pre-run snapshot: <<>>, or <<files>>
  phase,    \* where Run is
  dry,      \* RatchetOptions.DryRun
  trial,    \* the change under trial
  tried,    \* History: the changes of this run's trials
  baseline, best,
  broken,   \* the trial has an Error
  canceled, \* the run's context
  why,      \* Result.StopReason
  found,    \* the files when the run began, or as it was undone to
  champion, \* the files that `best` was measured on
  runs

research == <<trial, tried, baseline, best, broken, canceled, why>>
bounds == <<dry, found, runs>>
ratchetVars == <<disk, mem, snapshot, phase, research, bounds, champion>>

Files == [Knobs -> Values]
Changes == [knob : Knobs, before : Values, after : Values]
Metrics == {"primary"} \cup {g.metric : g \in Guards}
Unknown == -1
NoScore == [m \in Metrics |-> Unknown]
NoChange == [knob |-> "none", before |-> "none", after |-> "none"]

Stopped == phase \in {"idle", "stopped"}

RatchetInit ==
  /\ disk \in Files /\ mem = disk /\ snapshot = <<>> /\ phase = "idle" /\ dry = FALSE
  /\ trial = NoChange /\ tried = {} /\ baseline = NoScore /\ best = NoScore
  /\ broken = FALSE /\ canceled = FALSE /\ why = "none"
  /\ found = disk /\ champion = disk /\ runs = 0

-----------------------------------------------------------------------------
\* A run up to its baseline.

Forgotten ==
  /\ trial' = NoChange /\ tried' = {} /\ baseline' = NoScore /\ best' = NoScore
  /\ broken' = FALSE /\ canceled' = FALSE /\ why' = "none"
  /\ mem' = disk /\ champion' = disk

\* Run, over a surface reflected from the files.  A dry run writes and measures nothing.
BeginResearch(isDry) ==
  /\ Stopped /\ runs < MaxRatchetRuns
  /\ runs' = runs + 1 /\ dry' = isDry /\ found' = disk /\ Forgotten
  /\ phase' = IF isDry THEN "propose" ELSE "clear"
  /\ UNCHANGED <<disk, snapshot>>

\* Persist removes the last snapshot ...
ClearSnapshot ==
  /\ phase = "clear" /\ phase' = "persist"
  /\ snapshot' = <<>>
  /\ UNCHANGED <<disk, mem, research, bounds, champion>>

\* Mutant of PersistSnapshot: the snapshot is taken once the baseline is known.
PersistLate ==
  /\ phase = "persist" /\ phase' = "measure"
  /\ UNCHANGED <<disk, mem, snapshot, research, bounds, champion>>

\* ... and writes this one, its manifest last, before anything is evaluated.
PersistSnapshot ==
  /\ phase = "persist" /\ phase' = "measure"
  /\ snapshot' = <<found>>
  /\ UNCHANGED <<disk, mem, research, bounds, champion>>

MeasureBaseline(s) ==
  /\ phase = "measure" /\ phase' = "propose"
  /\ baseline' = s /\ best' = s
  /\ UNCHANGED <<disk, mem, snapshot, trial, tried, broken, canceled, why, bounds, champion>>

\* The snapshot or the baseline fails: an error instead of a result.
BaselineFails ==
  /\ phase \in {"persist", "measure"} /\ phase' = "stopped" /\ why' = "error"
  /\ UNCHANGED <<disk, mem, snapshot, trial, tried, baseline, best, broken, canceled, bounds, champion>>

-----------------------------------------------------------------------------
\* The loop.

Untried == {c \in Changes :
              /\ c.before = mem[c.knob] /\ c.after # c.before
              /\ \A t \in tried : t.knob # c.knob \/ t.after # c.after}

BudgetLeft == Cardinality(tried) < MaxExperiments

\* A cap, the context, or nothing to propose; a text knob's proposals may run dry early.
StopLoop(reason) ==
  /\ phase = "propose" /\ phase' = "stopped"
  /\ CASE reason = "max-experiments" -> ~ BudgetLeft
       [] reason = "canceled" -> canceled
       [] OTHER -> TRUE
  /\ why' = IF dry THEN "dry-run" ELSE reason
  /\ UNCHANGED <<disk, mem, snapshot, trial, tried, baseline, best, broken, canceled, bounds, champion>>

\* One change; a dry run only records it.
Propose(c) ==
  /\ phase = "propose" /\ BudgetLeft /\ ~ canceled /\ c \in Untried
  /\ tried' = tried \cup {c} /\ trial' = c
  /\ phase' = IF dry THEN "propose" ELSE "apply"
  /\ UNCHANGED <<disk, mem, snapshot, baseline, best, broken, canceled, why, bounds, champion>>

Apply(k, v) == disk' = [disk EXCEPT ![k] = v] /\ mem' = [mem EXCEPT ![k] = v]

ApplyChange ==
  /\ phase = "apply" /\ phase' = "evaluate"
  /\ Apply(trial.knob, trial.after)
  /\ UNCHANGED <<snapshot, research, bounds, champion>>

\* A trial with an Error ends the run.
StopReason == IF canceled THEN "canceled" ELSE "evaluation-failed"

\* Refused: no copy of the file could be taken, or the write failed and left it alone.
ApplyFails ==
  /\ phase = "apply" /\ phase' = "stopped" /\ why' = StopReason
  /\ UNCHANGED <<disk, mem, snapshot, trial, tried, baseline, best, broken, canceled, bounds, champion>>

\* CheckGuards: what nobody measured is blamed for nothing, nor is a fraction of nothing.
Breaches(g, b, c) ==
  LET was == b[g.metric]
      worse == IF g.higher THEN was - c[g.metric] ELSE c[g.metric] - was
  IN /\ was >= 0 /\ c[g.metric] >= 0 /\ (g.relative => was > 0)
     /\ 100 * worse > g.tolerance * (IF g.relative THEN was ELSE 100)

Guarded(b, c) == \A g \in Guards : ~ Breaches(g, b, c)

\* Mutant of Keeps: only the champion is asked.
KeepsOverChampion(s) == s["primary"] - best["primary"] > MinImprovement /\ Guarded(best, s)

\* The keep rule.
Keeps(s) ==
  /\ s["primary"] - best["primary"] > MinImprovement
  /\ Guarded(best, s) /\ Guarded(baseline, s)

JudgeTrial(s) ==
  /\ phase = "evaluate"
  /\ IF Keeps(s) THEN best' = s /\ champion' = disk /\ phase' = "propose"
     ELSE phase' = "revert" /\ UNCHANGED <<best, champion>>
  /\ UNCHANGED <<disk, mem, snapshot, trial, tried, baseline, broken, canceled, why, bounds>>

\* Mutant of EvaluationFails: the deferred restore does not run.
EvaluationFailsBare ==
  /\ phase = "evaluate" /\ phase' = "stopped"
  /\ broken' = TRUE /\ why' = StopReason
  /\ UNCHANGED <<disk, mem, snapshot, trial, tried, baseline, best, canceled, bounds, champion>>

\* An error, a panic or the end of the context.
EvaluationFails ==
  /\ phase = "evaluate" /\ phase' = "revert"
  /\ broken' = TRUE
  /\ UNCHANGED <<disk, mem, snapshot, trial, tried, baseline, best, canceled, why, bounds, champion>>

\* The deferred restore, and SetValue after it.
Revert ==
  /\ phase = "revert"
  /\ Apply(trial.knob, trial.before)
  /\ IF broken THEN phase' = "stopped" /\ why' = StopReason ELSE phase' = "propose" /\ UNCHANGED why
  /\ UNCHANGED <<snapshot, trial, tried, baseline, best, broken, canceled, bounds, champion>>

\* The restore fails: an Error, and the change stays in the files.
RevertFails ==
  /\ phase = "revert" /\ phase' = "stranded"
  /\ why' = StopReason
  /\ UNCHANGED <<disk, mem, snapshot, trial, tried, baseline, best, broken, canceled, bounds, champion>>

-----------------------------------------------------------------------------
\* Around the run.

CancelResearch ==
  /\ ~ Stopped /\ phase # "stranded" /\ ~ canceled /\ canceled' = TRUE
  /\ UNCHANGED <<disk, mem, snapshot, phase, trial, tried, baseline, best, broken, why, bounds, champion>>

\* A SIGKILL, a power cut: whatever the files are by then; or the run has simply exited.
Kill ==
  /\ phase # "idle" /\ phase' = "idle" /\ Forgotten
  /\ UNCHANGED <<disk, snapshot, bounds>>

\* `slmcode autoresearch --restore`; each file on its own, and some may fail.
RestoreLast ==
  /\ Stopped /\ snapshot # <<>> /\ phase' = "idle"
  /\ disk' \in {f \in Files : \A k \in Knobs : f[k] \in {disk[k], snapshot[1][k]}}
  /\ found' = snapshot[1]
  /\ UNCHANGED <<mem, snapshot, research, dry, runs, champion>>

RatchetNext ==
  \/ \E isDry \in BOOLEAN : BeginResearch(isDry)
  \/ ClearSnapshot \/ PersistSnapshot \/ BaselineFails \/ \E s \in Scores : MeasureBaseline(s)
  \/ \E reason \in {"max-experiments", "canceled", "other-budget", "exhausted"} : StopLoop(reason)
  \/ \E c \in Untried : Propose(c)
  \/ ApplyChange \/ ApplyFails \/ \E s \in Scores : JudgeTrial(s)
  \/ EvaluationFails \/ Revert \/ RevertFails \/ CancelResearch \/ Kill \/ RestoreLast

RatchetSpec == RatchetInit /\ [][RatchetNext]_ratchetVars

-----------------------------------------------------------------------------
LoopPhases == {"propose", "apply", "evaluate", "revert", "stranded"}

RatchetTypeOK ==
  /\ disk \in Files /\ mem \in Files /\ found \in Files /\ champion \in Files
  /\ snapshot \in {<<>>} \cup {<<f>> : f \in Files}
  /\ phase \in {"idle", "clear", "persist", "measure", "stopped"} \cup LoopPhases
  /\ dry \in BOOLEAN /\ broken \in BOOLEAN /\ canceled \in BOOLEAN
  /\ trial \in Changes \cup {NoChange} /\ tried \subseteq Changes
  /\ phase \in {"apply", "evaluate", "revert"} => trial \in Changes
  /\ baseline \in [Metrics -> Int] /\ best \in [Metrics -> Int]
  /\ runs \in 0 .. MaxRatchetRuns

\* ratchet.go:368-372: whatever happened in a trial, an error, a panic or a cancellation,
\* the files are afterwards those the best score was measured on, and the surface agrees
\* with them; a restore that failed is the exception, and ends the run.
SurfaceIsChampion == phase \in {"propose", "stopped"} => disk = champion /\ mem = disk

\* ratchet.go:451-454: steps that each stay within the tolerances of the champion do not
\* add up past those of the baseline, and every one of them improved the primary.
NoDrift ==
  /\ Guarded(baseline, best)
  /\ phase # "idle" /\ champion # found => best["primary"] - baseline["primary"] > MinImprovement

\* doc.go:47-51: files that a run changed can be put back, be it finished or killed
\* outright, until another run begins; a dry run changes nothing.
Undoable == disk # found => snapshot = <<found>>
=============================================================================

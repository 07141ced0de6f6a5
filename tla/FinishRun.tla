------------------------------ MODULE FinishRun ------------------------------
(***************************************************************************)
(* A run from the execution of its board to its verdict:                   *)
(* pkg/orchestrator/resume.go (finishFromExecute, finalizeAfterExecute and *)
(* what they call, completeRun, checkpointInterrupt, Resume), the QA gate  *)
(* and the objective probes of qagate.go, and continue_ask.go.             *)
(*                                                                         *)
(* Each stage is one action.  The agents and the objective command are     *)
(* choices: an agent may write, and the command then says green, red or    *)
(* vacuous (it found no tests) until something is written again.  A wave's *)
(* effect on the board is what RunBoard allows, summed up in AfterWave.    *)
(***************************************************************************)
EXTENDS Naturals

CONSTANTS
  Work,        \* the tasks
  MaxWaves,    \* execute.max_waves: corrective waves of one runner, 1 at least
  MaxRounds,   \* qaGateRounds
  MaxResumes   \* bound: how often the run is resumed

ASSUME FinishBounds == MaxWaves \in Nat /\ MaxRounds \in Nat \ {0} /\ MaxResumes \in Nat

VARIABLES
  conf,       \* qa_gate, the command ("none", "weak", "strong"), what is known of its baseline
  stage,      \* the next step of the pipeline
  board,      \* [Work -> column and error of the task, see Columns]
  last, fresh,\* the strong command's last answer, and that nothing was written since
  asked,      \* the probe's fingerprint: "nothing" written, something "new", or "asked" already
  rejected,   \* testerRejected
  early,      \* objective.finishedEarly
  dropped,    \* why RunBoard stopped with planned work left: "no", "met" or "time"
  waves,      \* runner.correctiveRuns
  round,      \* of the QA gate
  gaps, lacking, red,   \* placeholder gaps remain, completeness failed, the QA gate failed
  halted,     \* the run's context is canceled
  marked,     \* turn.Interrupted
  result,     \* Result.Outcome, "interrupted", or "error" when the run returns no Result
  continued,  \* a continue wave was granted
  resumes

board_ == <<board, dropped, waves>>
measured == <<last, fresh, asked>>
gate == <<rejected, gaps, lacking, red, round>>
ends == <<early, marked, result, resumes>>
finishVars == <<conf, stage, board_, measured, gate, ends, halted, continued>>

\* done; in ready_to_dev, new or with the error of an earlier attempt; in a human
\* column or blocked with an error; there with an escalation note and no error.
Columns == {"done", "ready", "retry", "parked", "noted"}
Outcomes == {"success", "success_with_failures", "unverified", "failure"}
Good == Outcomes \ {"failure"}

\* The baseline probe runs only with the gate on and a strong command.
Configs == {k \in [gate : BOOLEAN, cmd : {"none", "weak", "strong"}, baseGreen : BOOLEAN] :
              k.baseGreen => k.gate /\ k.cmd = "strong"}

FinishTypeOK ==
  /\ conf \in Configs
  /\ stage \in {"execute", "pretest", "tester", "corrective", "reverify", "restaffed", "probe",
                "polish", "completeness", "gate", "lastRound", "judge", "continue", "complete", "ended"}
  /\ board \in [Work -> Columns] /\ dropped \in {"no", "met", "time"}
  /\ stage = "restaffed" => waves < MaxWaves
  /\ waves \in 0 .. MaxWaves /\ round \in 1 .. MaxRounds
  /\ last \in {"none", "green", "red", "vacuous"} /\ asked \in {"nothing", "new", "asked"}
  /\ {fresh, rejected, early, gaps, lacking, red, halted, marked, continued} \subseteq BOOLEAN
  /\ result \in Outcomes \cup {"none", "interrupted", "error"} /\ resumes \in 0 .. MaxResumes

FinishInit ==
  /\ conf \in Configs
  /\ stage = "execute" /\ board = [t \in Work |-> "ready"]
  /\ dropped = "no" /\ waves = 0 /\ round = 1
  /\ last = "none" /\ fresh = FALSE /\ asked = "nothing"
  /\ rejected = FALSE /\ gaps = FALSE /\ lacking = FALSE /\ red = FALSE
  /\ early = FALSE /\ marked = FALSE /\ result = "none"
  /\ halted = FALSE /\ continued = FALSE /\ resumes = 0

-----------------------------------------------------------------------------
\* The board's questions: AgentWorkRemaining (AllDone is its negation), FailedCount > 0
\* and boardHasEscalated.
AgentWork(b) == \E t \in Work : b[t] \in {"ready", "retry"}
Failed(b) == \E t \in Work : b[t] \in {"retry", "parked"}
Escalated(b) == \E t \in Work : b[t] \in {"parked", "noted"}

\* What a wave may leave: finished work stays finished.
AfterWave(b) == {c \in [Work -> Columns] : \A t \in Work : b[t] = "done" => c[t] = "done"}

\* Tasks a rewrite reopens or adds as tickets: none is lost, and none is done by it.
Reopened(b) == {c \in [Work -> Columns] : \A t \in Work : c[t] \in {b[t], "ready"}}

\* promoteBoardOnQAGreen: promoteEligible refuses an escalated task outright.
Promoted(b) == {c \in [Work -> Columns] : \A t \in Work :
  c[t] = b[t] \/ (b[t] \in {"ready", "retry"} /\ c[t] = "done")}

\* An agent wrote, perhaps only to files it had written before; or it wrote nothing.
AsksAnew == asked' \in IF asked = "asked" THEN {"asked", "new"} ELSE {"new"}
Wrote == fresh' = FALSE /\ last' = last /\ AsksAnew
MayWrite == Wrote \/ UNCHANGED measured

\* runSmoke: the answer to an unchanged tree is the one it gave; a canceled run kills the
\* command, which is a failure but no answer.  Only a strong command measures anything.
Answers == IF halted THEN {"red"} ELSE IF fresh THEN {last} ELSE {"green", "red", "vacuous"}
Measures(v) ==
  /\ v \in Answers
  /\ IF halted \/ conf.cmd # "strong" THEN UNCHANGED <<last, fresh>>
     ELSE last' = v /\ fresh' = TRUE

\* The tester's re-run of the red command, before which the tester itself may have written.
RunsAgain(v) ==
  \/ Measures(v) /\ UNCHANGED asked
  \/ /\ (halted => v = "red") /\ AsksAnew
     /\ IF halted \/ conf.cmd # "strong" THEN last' = last /\ fresh' = FALSE
        ELSE last' = v /\ fresh' = TRUE

Goto(s) == stage' = s

\* Mutant of Marks: the text of the error says that the run was canceled.
MarksByText(text) == text = "canceled"

\* checkpointInterrupt: the context is the authority, and the error has to be its error.
Marks(text) == halted /\ text = "canceled"

Checkpoint(text) ==
  /\ Goto("ended")
  /\ IF Marks(text) THEN result' = "interrupted" /\ marked' = TRUE
     ELSE result' = "error" /\ UNCHANGED marked
  /\ UNCHANGED <<early, resumes>>

\* runwaySpent stopped the board; unexecutedTaskCount is taken there.
OutOfTime(b) == dropped' = IF AgentWork(b) THEN "time" ELSE "no"

\* RunCorrectiveBoard: false when the budget is spent.
Budget == waves < MaxWaves
SpendWave == waves' = waves + 1 /\ board' \in AfterWave(board) /\ Wrote
             /\ (UNCHANGED dropped \/ OutOfTime(board'))

-----------------------------------------------------------------------------
\* finishFromExecute.

\* RunBoard drains the board; what is left waits behind a person's task.
Execute ==
  /\ stage = "execute" /\ Goto("pretest")
  /\ board' \in AfterWave(board) /\ MayWrite
  /\ UNCHANGED <<conf, waves, gate, ends, halted, continued>>
  /\ \/ (AgentWork(board') => Escalated(board')) /\ UNCHANGED dropped
     \/ OutOfTime(board')

\* RunBoard fails, or its context has ended; the error of a reviewer that lost its race
\* reads like the latter.
ExecuteFails ==
  /\ stage = "execute"
  /\ board' \in AfterWave(board) /\ MayWrite
  /\ \E text \in {"canceled", "other"} : Checkpoint(text)
  /\ UNCHANGED <<conf, waves, dropped, gate, halted, continued>>

\* probeObjective's refusals that both probes share.
MayProbe == conf.gate /\ conf.cmd = "strong" /\ ~ conf.baseGreen /\ ~ rejected

\* finishObjectiveMet.
FinishEarly(b) ==
  /\ early' = TRUE /\ board' \in Promoted(b)
  /\ Goto("complete") /\ UNCHANGED <<marked, result, resumes>>

\* The probe between two waves: green, and the rest of the plan is not executed.
MetBetweenWaves ==
  /\ stage = "execute" /\ MayProbe /\ ~ halted
  /\ last' = "green" /\ fresh' = TRUE /\ asked' = "asked"
  /\ \E b \in AfterWave(board) :
       FinishEarly(b) /\ dropped' = IF AgentWork(b) THEN "met" ELSE "no"
  /\ UNCHANGED <<conf, waves, gate, halted, continued>>

-----------------------------------------------------------------------------
\* finalizeAfterExecute.

\* runDeterministicPreTest, and the probe that reuses its result.  With qa_gate off,
\* post_worker_smoke decides.  A resumed run looks at its context first.
PreTest ==
  /\ stage = "pretest"
  /\ \/ halted /\ Checkpoint("canceled") /\ UNCHANGED <<board, measured>>
     \/ /\ halted => resumes = 0
        /\ \/ /\ conf.cmd # "none"
             /\ \E v \in {"green", "red", "vacuous"} :
                  /\ Measures(v)
                  /\ IF MayProbe /\ ~ AgentWork(board) /\ asked # "nothing"
                     THEN /\ asked' = "asked"
                          /\ IF v = "green" THEN FinishEarly(board)
                             ELSE Goto("tester") /\ UNCHANGED <<board, ends>>
                     ELSE Goto("tester") /\ UNCHANGED <<board, asked, ends>>
          \/ /\ conf.cmd = "none" \/ ~ conf.gate
             /\ Goto("tester") /\ UNCHANGED <<board, measured, ends>>
  /\ UNCHANGED <<conf, dropped, waves, gate, halted, continued>>

\* runTesterPhase and applyTesterFeedback: a pass after a red pre-test is measured again.
TesterPasses ==
  /\ stage = "tester"
  /\ \/ last # "red" /\ MayWrite
     \/ last = "red" /\ RunsAgain("green")
  /\ Goto("probe") /\ rejected' = FALSE
  /\ UNCHANGED <<conf, board_, gaps, lacking, red, round, ends, halted, continued>>

TesterRejects ==
  /\ stage = "tester"
  /\ MayWrite \/ RunsAgain("red")
  /\ rejected' = TRUE /\ board' \in Reopened(board)
  /\ Goto(IF AgentWork(board') THEN "corrective" ELSE "probe")
  /\ UNCHANGED <<conf, dropped, waves, gaps, lacking, red, round, ends, halted, continued>>

\* correctiveTesterWave: without a wave left, the re-verification comes at once.
CorrectiveWave ==
  /\ stage = "corrective"
  /\ \/ Budget /\ SpendWave /\ Goto("reverify") /\ UNCHANGED ends
     \/ ~ Budget /\ UNCHANGED <<board_, measured, ends>> /\ Goto("reverify")
     \/ Budget /\ SpendWave /\ Checkpoint("canceled")
  /\ UNCHANGED <<conf, gate, halted, continued>>

\* The tester's word is taken.  A second rejection may move tickets to other specialists.
ReVerify ==
  /\ stage = "reverify"
  /\ \/ rejected' = FALSE /\ UNCHANGED board /\ Goto("probe")
     \/ /\ rejected' = TRUE /\ board' \in Reopened(board)
        /\ Goto("probe") \/ (AgentWork(board') /\ Budget /\ Goto("restaffed"))
  /\ MayWrite
  /\ UNCHANGED <<conf, dropped, waves, gaps, lacking, red, round, ends, halted, continued>>

\* runRestaffedTickets.
Restaffed ==
  /\ stage = "restaffed" /\ SpendWave
  /\ rejected' \in IF halted THEN {TRUE} ELSE BOOLEAN
  /\ Goto("probe")
  /\ UNCHANGED <<conf, gaps, lacking, red, round, ends, halted, continued>>

\* ctx.Err(), then the second probe: only of something new, and when it is affordable.
Probe ==
  /\ stage = "probe"
  /\ IF halted THEN Checkpoint("canceled") /\ UNCHANGED <<board, measured>>
     ELSE \/ /\ MayProbe /\ ~ AgentWork(board) /\ asked = "new"
             /\ asked' = "asked"
             /\ \E v \in {"green", "red", "vacuous"} :
                  /\ Measures(v)
                  /\ IF v = "green" THEN FinishEarly(board)
                     ELSE Goto("polish") /\ UNCHANGED <<board, ends>>
          \/ Goto("polish") /\ UNCHANGED <<board, measured, ends>>
  /\ UNCHANGED <<conf, dropped, waves, gate, halted, continued>>

-----------------------------------------------------------------------------
\* runQualityGates.

\* runPlaceholderPass: no gap, an agent that fills them, or a wave for those that remain.
Polish ==
  /\ stage = "polish" /\ Goto("completeness")
  /\ \/ gaps' = FALSE /\ MayWrite /\ UNCHANGED board_
     \/ /\ gaps' = TRUE /\ Wrote
        /\ board' \in Reopened(board) /\ (AgentWork(board') => ~ Budget) /\ UNCHANGED <<waves, dropped>>
     \/ gaps' \in BOOLEAN /\ Budget /\ SpendWave
  /\ rejected' = (rejected \/ gaps')
  /\ UNCHANGED <<conf, lacking, red, round, ends, halted, continued>>

\* CheckProjectCompleteness.
Completeness ==
  /\ stage = "completeness" /\ Goto("gate") /\ red' = FALSE
  /\ \/ lacking' = FALSE /\ UNCHANGED <<board, rejected, measured>>
     \/ lacking' = TRUE /\ rejected' = TRUE /\ board' \in Reopened(board) /\ MayWrite
  /\ UNCHANGED <<conf, dropped, waves, gaps, round, ends, halted, continued>>

\* runQAGate returns, and its counter is gone.
GateSays(failed) == red' = failed /\ Goto("judge") /\ round' = 1

\* Mutant of NextRound: as long as fixes write something, the rounds start over.
NextRoundAgain ==
  /\ Goto("gate") /\ UNCHANGED red
  /\ round' = IF round < MaxRounds THEN round + 1 ELSE 1

NextRound ==
  /\ UNCHANGED red
  /\ IF round < MaxRounds THEN Goto("gate") /\ round' = round + 1
     ELSE Goto("lastRound") /\ UNCHANGED round

\* runQAGate's loop: one round, the fix pass of qaDiagnoseAndFix included.
GateRound ==
  /\ stage = "gate"
  /\ \/ (~ conf.gate \/ conf.cmd = "none") /\ GateSays(FALSE) /\ UNCHANGED measured
     \/ /\ conf.gate /\ conf.cmd # "none"
        /\ \/ halted /\ GateSays(FALSE) /\ UNCHANGED measured                \* qaGateNoVerdict
           \/ round > 1 /\ Goto("lastRound") /\ UNCHANGED <<round, red, measured>>  \* not affordable
           \/ \E v \in {"green", "vacuous"} :
                /\ Measures(v) /\ (v = "vacuous" => round = 1)
                /\ GateSays(FALSE) /\ UNCHANGED asked
           \/ \E v \in {"red", "vacuous"} :     \* the fix pass wrote nothing: stalled
                /\ ~ halted /\ Measures(v) /\ (v = "vacuous" => round > 1)
                /\ GateSays(TRUE) /\ UNCHANGED asked
           \/ /\ ~ halted                       \* it wrote something
              /\ \E v \in Answers \ {"green"} : (v = "vacuous" => round > 1)
                   /\ last' = IF conf.cmd = "strong" THEN v ELSE last
              /\ fresh' = FALSE /\ asked' \in {asked, "new"} /\ NextRound
  /\ UNCHANGED <<conf, board_, rejected, gaps, lacking, ends, halted, continued>>

\* The verification after the last fix pass.
LastRound ==
  /\ stage = "lastRound"
  /\ \/ halted /\ GateSays(FALSE) /\ UNCHANGED measured
     \/ /\ ~ halted /\ UNCHANGED asked
        /\ \E v \in {"green", "red", "vacuous"} : Measures(v) /\ GateSays(v # "green")
  /\ UNCHANGED <<conf, board_, rejected, gaps, lacking, ends, halted, continued>>

\* A syntax-only command clears nothing and promotes nothing that failed.
WeakKeeps ==
  /\ conf.cmd \in {"none", "weak"}
  /\ rejected \/ gaps \/ lacking \/ Escalated(board)

\* Mutant of Judge: a red gate is noted in QAFailed only.
JudgeNotesRed ==
  /\ stage = "judge" /\ Goto("continue")
  /\ IF red \/ ~ conf.gate \/ WeakKeeps \/ gaps \/ lacking
     THEN UNCHANGED <<rejected, board>>
     ELSE rejected' = FALSE /\ board' \in Promoted(board)
  /\ UNCHANGED <<conf, dropped, waves, measured, gaps, lacking, red, round, ends, halted, continued>>

\* What the gate's answer clears: a red one rejects, a green one promotes.
Judge ==
  /\ stage = "judge" /\ Goto("continue")
  /\ IF red
     THEN rejected' = TRUE /\ board' \in Reopened(board) /\ MayWrite
     ELSE /\ UNCHANGED measured
          /\ IF ~ conf.gate \/ WeakKeeps \/ gaps \/ lacking
             THEN UNCHANGED <<rejected, board>>
             ELSE rejected' = FALSE /\ board' \in Promoted(board)
  /\ UNCHANGED <<conf, dropped, waves, gaps, lacking, red, round, ends, halted, continued>>

-----------------------------------------------------------------------------
\* runContinueAsk.
NeedsContinue == gaps \/ rejected \/ red \/ Escalated(board) \/ Failed(board) \/ AgentWork(board)

\* Nothing to ask; or off, stop, flag_only, a timeout, a canceled wait.
ContinueNot ==
  /\ stage = "continue" /\ Goto("complete")
  /\ UNCHANGED <<conf, board_, measured, gate, ends, halted, continued>>

\* "continue": the tasks are reopened, all of them perhaps, one more wave if the budget has
\* one, another fill pass; then the placeholder scan decides what the rejection and the
\* gate were worth.
ContinueWave ==
  /\ stage = "continue" /\ NeedsContinue
  /\ continued' = TRUE /\ Goto("complete")
  /\ \/ /\ Budget /\ waves' = waves + 1 /\ board' \in [Work -> Columns] /\ Wrote
        /\ (UNCHANGED dropped \/ OutOfTime(board'))
     \/ board' \in Reopened(board) /\ (AgentWork(board') => ~ Budget)
        /\ UNCHANGED <<waves, dropped>> /\ MayWrite
  /\ gaps' \in BOOLEAN
  /\ IF gaps' \/ Escalated(board') THEN rejected' = TRUE /\ UNCHANGED red
     ELSE rejected' = FALSE /\ red' = FALSE
  /\ UNCHANGED <<conf, lacking, round, ends, halted>>

-----------------------------------------------------------------------------
\* completeRun.

\* A clean board, or a strong gate that is green over one that owes no agent work.
CleanSuccess == ~ rejected /\ ~ Failed(board) /\ ~ AgentWork(board) /\ ~ Escalated(board)
SoftSuccess ==
  /\ conf.gate /\ ~ red /\ conf.cmd = "strong" /\ ~ rejected
  /\ Escalated(board) => early
  /\ AgentWork(board) => dropped # "no"

\* Mutant of Verdict: a finish on the gate hides the tasks that wait for a person.
VerdictBare ==
  IF rejected \/ (Escalated(board) /\ ~ early) \/ ~ (CleanSuccess \/ SoftSuccess) THEN "failure"
  ELSE IF conf.baseGreen /\ asked # "nothing" THEN "unverified"
  ELSE IF Failed(board) THEN "success_with_failures" ELSE "success"

Verdict ==
  IF rejected \/ (Escalated(board) /\ ~ early) \/ ~ (CleanSuccess \/ SoftSuccess) THEN "failure"
  ELSE IF early /\ (Failed(board) \/ Escalated(board)) THEN "success_with_failures"
  ELSE IF conf.baseGreen /\ asked # "nothing" THEN "unverified"
  ELSE IF Failed(board) THEN "success_with_failures" ELSE "success"

CompleteRun ==
  /\ stage = "complete" /\ Goto("ended")
  /\ result' = Verdict /\ marked' = FALSE
  /\ UNCHANGED <<conf, board_, measured, gate, early, resumes, halted, continued>>

\* Ctrl-C, /stop, the end of the parent's context.
Cancel ==
  /\ ~ halted /\ stage # "ended" /\ halted' = TRUE
  /\ UNCHANGED <<conf, stage, board_, measured, gate, ends, continued>>

\* Resume: the checkpointed board, a new runner, no baseline.
ResumeRun ==
  /\ stage = "ended" /\ marked /\ resumes < MaxResumes
  /\ Goto("execute") /\ resumes' = resumes + 1
  /\ marked' = FALSE /\ result' = "none" /\ early' = FALSE /\ halted' = FALSE
  /\ board' \in {b \in Reopened(board) : \A t \in Work : board[t] \in {"done", "noted", "retry"} => b[t] = board[t]}
  /\ dropped' = "no" /\ waves' = 0 /\ asked' = "nothing" /\ fresh' = FALSE
  /\ rejected' = FALSE /\ gaps' = FALSE /\ lacking' = FALSE /\ red' = FALSE /\ round' = 1
  /\ conf' = [conf EXCEPT !.baseGreen = FALSE] /\ last' = "none" /\ continued' = FALSE

Stage ==
  \/ Execute \/ ExecuteFails \/ MetBetweenWaves \/ PreTest \/ TesterPasses \/ TesterRejects
  \/ CorrectiveWave \/ ReVerify \/ Restaffed \/ Probe \/ Polish \/ Completeness
  \/ GateRound \/ LastRound \/ Judge \/ ContinueNot \/ ContinueWave \/ CompleteRun

FinishNext == Stage \/ Cancel \/ ResumeRun

FinishSpec == FinishInit /\ [][FinishNext]_finishVars

\* The pipeline goes on: every model call and every command has its timeout.
FinishFairness == WF_finishVars(Stage)

-----------------------------------------------------------------------------
Judged == conf.gate /\ conf.cmd = "strong" /\ result \in Good

\* qagate.go:804-817, resume.go:818-826: a strong command whose last answer was red makes no
\* success, whatever the tester, the board and the later stages say; the two ways round it
\* are a continue wave and a canceled gate.
RedIsNoSuccess == Judged /\ last = "red" => continued \/ halted

\* resume.go:774-801: a plain success leaves nobody anything to look at: every task is done,
\* but for those a stop of the board announced as not executed.
BareSuccessIsClean ==
  result = "success" => \A t \in Work : board[t] = "done" \/ (board[t] = "ready" /\ dropped # "no")

\* resume.go:1097-1105: only a run whose own context ended is marked interrupted, however
\* the errors of its agents read; and a marked run has made no verdict.
InterruptIsReal == marked => halted /\ result = "interrupted"

\* Once its board was executed the pipeline ends, whatever its waves, rounds and fixes do.
RunEnds == stage \notin {"execute", "ended"} ~> stage = "ended"

\* qagate.go:1020-1022 "A canceled gate has not established that the project is green either".
NoVerdictIsNotGreen == Judged /\ last = "red" => continued
=============================================================================

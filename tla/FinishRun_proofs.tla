-------------------------- MODULE FinishRun_proofs --------------------------
(***************************************************************************)
(* Proofs about FinishRun for any board, any number of waves, of rounds of *)
(* the gate and of resumes.                                                *)
(***************************************************************************)
EXTENDS FinishRun, TLAPS

Stages == {"execute", "pretest", "tester", "corrective", "reverify", "restaffed", "probe", "polish",
           "completeness", "gate", "lastRound", "judge", "continue", "complete", "ended"}
Verdicts == Outcomes \cup {"none", "interrupted", "error"}
Says == {"none", "green", "red", "vacuous"}

BoardOK == board \in [Work -> Columns] /\ dropped \in {"no", "met", "time"} /\ waves \in 0 .. MaxWaves
MeasuredOK == last \in Says /\ fresh \in BOOLEAN /\ asked \in {"nothing", "new", "asked"}
GateOK ==
  /\ rejected \in BOOLEAN /\ gaps \in BOOLEAN /\ lacking \in BOOLEAN /\ red \in BOOLEAN
  /\ round \in 1 .. MaxRounds
EndsOK == early \in BOOLEAN /\ marked \in BOOLEAN /\ result \in Verdicts /\ resumes \in 0 .. MaxResumes
RestOK == conf \in Configs /\ stage \in Stages /\ halted \in BOOLEAN /\ continued \in BOOLEAN
Granted == stage = "restaffed" => waves < MaxWaves

LEMMA FinishParts == FinishTypeOK <=> BoardOK /\ MeasuredOK /\ GateOK /\ EndsOK /\ RestOK /\ Granted
  BY DEF FinishTypeOK, Granted, BoardOK, MeasuredOK, GateOK, EndsOK, RestOK, Stages, Verdicts, Says

LEMMA FinishPartsNext ==
  BoardOK' /\ MeasuredOK' /\ GateOK' /\ EndsOK' /\ RestOK' /\ Granted' => FinishTypeOK'
  BY DEF FinishTypeOK, Granted, BoardOK, MeasuredOK, GateOK, EndsOK, RestOK, Stages, Verdicts, Says

\* What waves, rewrites and promotions leave is a board.
LEMMA Rewrites == \A b : AfterWave(b) \cup Reopened(b) \cup Promoted(b) \subseteq [Work -> Columns]
  BY DEF AfterWave, Reopened, Promoted

LEMMA WriteType == MeasuredOK /\ MayWrite => MeasuredOK'
  BY DEF MeasuredOK, MayWrite, Wrote, AsksAnew, measured

LEMMA MeasureType ==
  ASSUME MeasuredOK, NEW v, Measures(v)
  PROVE  last' \in Says /\ fresh' \in BOOLEAN
  BY DEF MeasuredOK, Measures, Answers, Says

LEMMA RunsAgainType ==
  ASSUME MeasuredOK, NEW v \in {"green", "red"}, RunsAgain(v)
  PROVE  MeasuredOK'
<1>1. CASE Measures(v) /\ UNCHANGED asked
  BY <1>1, MeasureType DEF MeasuredOK
<1>2. CASE ~ Measures(v) \/ asked' # asked
  BY <1>2 DEF RunsAgain, AsksAnew, MeasuredOK, Says
<1> QED
  BY <1>1, <1>2

LEMMA SpendType ==
  ASSUME FinishTypeOK, Budget, SpendWave
  PROVE  BoardOK' /\ MeasuredOK'
<1>1. waves' \in 0 .. MaxWaves
  BY FinishParts, FinishBounds DEF BoardOK, Budget, SpendWave
<1>2. MeasuredOK'
  BY FinishParts DEF SpendWave, MeasuredOK, Wrote, AsksAnew
<1> QED
  BY <1>1, <1>2, FinishParts, Rewrites DEF BoardOK, SpendWave, OutOfTime

LEMMA CheckpointType ==
  ASSUME FinishTypeOK, NEW text, Checkpoint(text)
  PROVE  EndsOK' /\ stage' = "ended"
  BY FinishParts DEF Checkpoint, Goto, EndsOK, Verdicts

LEMMA EarlyType ==
  ASSUME FinishTypeOK, NEW b, FinishEarly(b)
  PROVE  EndsOK' /\ stage' = "complete" /\ board' \in [Work -> Columns]
  BY FinishParts, Rewrites DEF FinishEarly, Goto, EndsOK

LEMMA FinishTypeInit == FinishInit => FinishTypeOK
<1> SUFFICES ASSUME FinishInit PROVE FinishTypeOK
  OBVIOUS
<1>1. BoardOK
  BY FinishBounds DEF FinishInit, BoardOK, Columns
<1>2. MeasuredOK /\ RestOK
  BY DEF FinishInit, MeasuredOK, RestOK, Says, Stages
<1>3. round \in 1 .. MaxRounds /\ resumes \in 0 .. MaxResumes
  BY FinishBounds DEF FinishInit
<1>4. GateOK /\ EndsOK
  BY <1>3 DEF FinishInit, GateOK, EndsOK, Verdicts
<1> QED
  BY <1>1, <1>2, <1>4, FinishParts DEF FinishInit, Granted

LEMMA FinishTypeStep == FinishTypeOK /\ [FinishNext]_finishVars => FinishTypeOK'
<1> SUFFICES ASSUME FinishTypeOK, [FinishNext]_finishVars PROVE FinishTypeOK'
  OBVIOUS
<1>p. BoardOK /\ MeasuredOK /\ GateOK /\ EndsOK /\ RestOK
  BY FinishParts
<1>g. Granted'
  <2>1. stage' = "restaffed" => (stage = "restaffed" \/ Budget) /\ UNCHANGED waves
    BY DEF FinishNext, Stage, Execute, ExecuteFails, MetBetweenWaves, PreTest, TesterPasses,
       TesterRejects, CorrectiveWave, ReVerify, Restaffed, Probe, Polish, Completeness, GateRound,
       LastRound, Judge, ContinueNot, ContinueWave, CompleteRun, Cancel, ResumeRun, finishVars,
       board_, Goto, Checkpoint, FinishEarly, GateSays, NextRound
  <2> QED
    BY <2>1, FinishParts DEF Granted, Budget
<1> USE DEF board_, measured, gate, ends, Goto, Stages
<1>1. CASE Execute
  <2>1. BoardOK'
    BY <1>1, <1>p, Rewrites DEF Execute, BoardOK, OutOfTime
  <2>2. MeasuredOK' /\ GateOK' /\ EndsOK' /\ RestOK'
    BY <1>1, <1>p, WriteType DEF Execute, GateOK, EndsOK, RestOK
  <2> QED
    BY <2>1, <2>2, <1>g, FinishPartsNext
<1>2. CASE ExecuteFails
  <2>1. BoardOK' /\ MeasuredOK' /\ GateOK'
    BY <1>2, <1>p, Rewrites, WriteType DEF ExecuteFails, BoardOK, GateOK
  <2>2. EndsOK' /\ RestOK'
    BY <1>2, <1>p, CheckpointType DEF ExecuteFails, RestOK
  <2> QED
    BY <2>1, <2>2, <1>g, FinishPartsNext
<1>3. CASE MetBetweenWaves
  <2>1. PICK b \in AfterWave(board) : FinishEarly(b) /\ dropped' = IF AgentWork(b) THEN "met" ELSE "no"
    BY <1>3 DEF MetBetweenWaves
  <2>2. BoardOK' /\ EndsOK' /\ RestOK'
    BY <1>3, <1>p, <2>1, EarlyType DEF MetBetweenWaves, BoardOK, RestOK
  <2>3. MeasuredOK' /\ GateOK'
    BY <1>3, <1>p DEF MetBetweenWaves, MeasuredOK, GateOK, Says
  <2> QED
    BY <2>2, <2>3, <1>g, FinishPartsNext
<1>4. CASE PreTest
  <2>1. UNCHANGED <<conf, dropped, waves, gate, halted, continued>>
    BY <1>4 DEF PreTest
  <2>2. \/ Checkpoint("canceled") /\ UNCHANGED <<board, measured>>
        \/ \E v : /\ Measures(v) /\ asked' \in {asked, "asked"}
                  /\ \/ FinishEarly(board)
                     \/ Goto("tester") /\ UNCHANGED <<board, ends>>
        \/ Goto("tester") /\ UNCHANGED <<board, measured, ends>>
    BY <1>4 DEF PreTest
  <2>3. MeasuredOK'
    BY <2>2, <1>p, MeasureType DEF MeasuredOK
  <2>4. EndsOK' /\ stage' \in Stages /\ board' \in [Work -> Columns]
    BY <2>2, <1>p, CheckpointType, EarlyType DEF EndsOK, BoardOK
  <2> QED
    BY <2>1, <2>3, <2>4, <1>p, <1>g, FinishPartsNext DEF BoardOK, GateOK, RestOK
<1>5. CASE TesterPasses
  <2>1. MeasuredOK'
    BY <1>5, <1>p, WriteType, RunsAgainType DEF TesterPasses, MeasuredOK
  <2> QED
    BY <1>5, <1>p, <2>1, <1>g, FinishPartsNext DEF TesterPasses, BoardOK, GateOK, EndsOK, RestOK
<1>6. CASE TesterRejects
  <2>1. MeasuredOK'
    BY <1>6, <1>p, WriteType, RunsAgainType DEF TesterRejects
  <2>2. BoardOK'
    BY <1>6, <1>p, Rewrites DEF TesterRejects, BoardOK
  <2> QED
    BY <1>6, <1>p, <2>1, <2>2, <1>g, FinishPartsNext DEF TesterRejects, GateOK, EndsOK, RestOK
<1>7. CASE CorrectiveWave
  <2>1. BoardOK' /\ MeasuredOK'
    BY <1>7, <1>p, SpendType DEF CorrectiveWave, BoardOK, MeasuredOK
  <2>2. EndsOK' /\ stage' \in Stages
    BY <1>7, <1>p, CheckpointType DEF CorrectiveWave, EndsOK
  <2> QED
    BY <1>7, <1>p, <2>1, <2>2, <1>g, FinishPartsNext DEF CorrectiveWave, GateOK, RestOK
<1>8. CASE ReVerify
  <2>1. MeasuredOK' /\ UNCHANGED <<conf, dropped, waves, gaps, lacking, red, round, ends, halted, continued>>
    BY <1>8, <1>p, WriteType DEF ReVerify
  <2>2. rejected' \in BOOLEAN /\ stage' \in Stages /\ board' \in [Work -> Columns]
    BY <1>8, <1>p, Rewrites DEF ReVerify, BoardOK
  <2> QED
    BY <1>p, <2>1, <2>2, <1>g, FinishPartsNext DEF BoardOK, GateOK, EndsOK, RestOK
<1>9. CASE Restaffed
  <2>1. BoardOK' /\ MeasuredOK'
    BY <1>9, SpendType, FinishParts DEF Restaffed, Granted, Budget
  <2> QED
    BY <1>9, <1>p, <2>1, <1>g, FinishPartsNext DEF Restaffed, GateOK, EndsOK, RestOK
<1>10. CASE Probe
  <2>1. UNCHANGED <<conf, dropped, waves, gate, halted, continued>>
    BY <1>10 DEF Probe
  <2>2. \/ Checkpoint("canceled") /\ UNCHANGED <<board, measured>>
        \/ \E v : /\ Measures(v) /\ asked' = "asked"
                  /\ \/ FinishEarly(board)
                     \/ Goto("polish") /\ UNCHANGED <<board, ends>>
        \/ Goto("polish") /\ UNCHANGED <<board, measured, ends>>
    BY <1>10 DEF Probe
  <2>3. MeasuredOK'
    BY <2>2, <1>p, MeasureType DEF MeasuredOK
  <2>4. EndsOK' /\ stage' \in Stages /\ board' \in [Work -> Columns]
    BY <2>2, <1>p, CheckpointType, EarlyType DEF EndsOK, BoardOK
  <2> QED
    BY <2>1, <2>3, <2>4, <1>p, <1>g, FinishPartsNext DEF BoardOK, GateOK, RestOK
<1>11. CASE Polish
  <2>1. BoardOK' /\ MeasuredOK' /\ gaps' \in BOOLEAN
    <3>1. CASE gaps' = FALSE /\ MayWrite /\ UNCHANGED board_
      BY <3>1, <1>p, WriteType DEF BoardOK
    <3>2. CASE gaps' = TRUE /\ Wrote /\ board' \in Reopened(board) /\ UNCHANGED <<waves, dropped>>
      BY <3>2, <1>p, WriteType, Rewrites DEF BoardOK, MayWrite
    <3>3. CASE gaps' \in BOOLEAN /\ Budget /\ SpendWave
      BY <3>3, SpendType
    <3> QED
      BY <1>11, <3>1, <3>2, <3>3 DEF Polish
  <2>2. rejected' \in BOOLEAN
    BY <1>11 DEF Polish
  <2> QED
    BY <1>11, <1>p, <2>1, <2>2, <1>g, FinishPartsNext DEF Polish, GateOK, EndsOK, RestOK
<1>12. CASE Completeness
  <2>1. round' = round
    BY <1>12 DEF Completeness
  <2>2. MeasuredOK' /\ lacking' \in BOOLEAN /\ rejected' \in BOOLEAN /\ board' \in [Work -> Columns]
    BY <1>12, <1>p, WriteType, Rewrites DEF Completeness, BoardOK, GateOK, MeasuredOK
  <2> QED
    BY <1>12, <1>p, <2>1, <2>2, <1>g, FinishPartsNext DEF Completeness, BoardOK, GateOK, EndsOK, RestOK
<1>13. CASE GateRound
  <2>1. UNCHANGED <<conf, board_, rejected, gaps, lacking, ends, halted, continued>>
    BY <1>13 DEF GateRound
  <2>2. round' \in 1 .. MaxRounds /\ red' \in BOOLEAN /\ stage' \in Stages
    <3>1. \/ GateSays(TRUE) \/ GateSays(FALSE)
          \/ Goto("lastRound") /\ UNCHANGED <<round, red>>
          \/ NextRound
      BY <1>13 DEF GateRound
    <3>2. CASE NextRound
      <4>1. round' \in 1 .. MaxRounds
        BY <1>p, <3>2, FinishBounds DEF NextRound, GateOK
      <4> QED
        BY <1>p, <3>2, <4>1 DEF NextRound, GateOK
    <3>3. CASE GateSays(TRUE) \/ GateSays(FALSE)
      <4>1. 1 \in 1 .. MaxRounds
        BY FinishBounds
      <4>2. round' = 1 /\ red' \in BOOLEAN /\ stage' = "judge"
        BY <3>3 DEF GateSays
      <4> QED
        BY <4>1, <4>2
    <3> QED
      BY <1>p, <3>1, <3>2, <3>3 DEF GateOK
  <2>3. MeasuredOK'
    <3>1. \/ UNCHANGED measured
          \/ \E v : Measures(v) /\ UNCHANGED asked
          \/ \E v \in Answers : last' \in {v, last} /\ fresh' = FALSE /\ asked' \in {asked, "new"}
      BY <1>13 DEF GateRound
    <3> QED
      BY <1>p, <3>1, MeasureType DEF MeasuredOK, Answers, Says
  <2> QED
    BY <1>p, <2>1, <2>2, <2>3, <1>g, FinishPartsNext DEF BoardOK, GateOK, EndsOK, RestOK
<1>14. CASE LastRound
  <2>1. MeasuredOK' /\ red' \in BOOLEAN /\ stage' = "judge" /\ round' = 1
    BY <1>14, <1>p, MeasureType DEF LastRound, GateSays, MeasuredOK
  <2> QED
    BY <1>14, <1>p, <2>1, <1>g, FinishBounds, FinishPartsNext DEF LastRound, BoardOK, GateOK, EndsOK, RestOK
<1>15. CASE Judge
  <2>1. MeasuredOK' /\ board' \in [Work -> Columns] /\ rejected' \in BOOLEAN
    BY <1>15, <1>p, WriteType, Rewrites DEF Judge, BoardOK, GateOK, MeasuredOK
  <2> QED
    BY <1>15, <1>p, <2>1, <1>g, FinishPartsNext DEF Judge, BoardOK, GateOK, EndsOK, RestOK
<1>16. CASE ContinueNot
  BY <1>16, <1>p, <1>g, FinishPartsNext DEF ContinueNot, BoardOK, MeasuredOK, GateOK, EndsOK, RestOK
<1>17. CASE ContinueWave
  <2>1. BoardOK' /\ MeasuredOK'
    <3>1. CASE /\ Budget /\ waves' = waves + 1 /\ board' \in [Work -> Columns] /\ Wrote
               /\ (UNCHANGED dropped \/ OutOfTime(board'))
      <4>1. waves' \in 0 .. MaxWaves
        BY <3>1, <1>p, FinishBounds DEF BoardOK, Budget
      <4> QED
        BY <3>1, <1>p, <4>1, WriteType, Rewrites DEF BoardOK, OutOfTime, MayWrite
    <3>2. CASE board' \in Reopened(board) /\ UNCHANGED <<waves, dropped>> /\ MayWrite
      BY <3>2, <1>p, WriteType, Rewrites DEF BoardOK
    <3> QED
      BY <1>17, <3>1, <3>2 DEF ContinueWave
  <2>2. gaps' \in BOOLEAN /\ rejected' \in BOOLEAN /\ red' \in {red, FALSE}
    BY <1>17 DEF ContinueWave
  <2> QED
    BY <1>17, <1>p, <2>1, <2>2, <1>g, FinishPartsNext DEF ContinueWave, GateOK, EndsOK, RestOK
<1>18. CASE CompleteRun
  <2>1. Verdict \in Verdicts
    BY DEF Verdict, Verdicts, Outcomes
  <2>2. BoardOK' /\ MeasuredOK' /\ GateOK'
    BY <1>18, <1>p DEF CompleteRun, BoardOK, MeasuredOK, GateOK
  <2>3. EndsOK' /\ RestOK'
    BY <1>18, <1>p, <2>1 DEF CompleteRun, EndsOK, RestOK
  <2> QED
    BY <2>2, <2>3, <1>g, FinishPartsNext
<1>19. CASE Cancel
  BY <1>19, <1>p, <1>g, FinishPartsNext DEF Cancel, BoardOK, MeasuredOK, GateOK, EndsOK, RestOK
<1>20. CASE ResumeRun
  <2>1. resumes' \in 0 .. MaxResumes
    BY <1>20, <1>p, FinishBounds DEF ResumeRun, EndsOK
  <2>2. conf' \in Configs
    BY <1>20, <1>p DEF ResumeRun, RestOK, Configs
  <2>3. BoardOK'
    BY <1>20, <1>p, Rewrites, FinishBounds DEF ResumeRun, BoardOK
  <2>r. round' \in 1 .. MaxRounds
    BY <1>20, FinishBounds DEF ResumeRun
  <2>4. MeasuredOK' /\ GateOK'
    BY <1>20, <2>r DEF ResumeRun, MeasuredOK, GateOK, Says
  <2> QED
    BY <1>20, <2>1, <2>2, <2>3, <2>4, <1>g, FinishPartsNext DEF ResumeRun, EndsOK, RestOK, Verdicts
<1>21. CASE UNCHANGED finishVars
  BY <1>21, <1>p, <1>g, FinishPartsNext DEF finishVars, BoardOK, MeasuredOK, GateOK, EndsOK, RestOK
<1> QED
  BY <1>1, <1>2, <1>3, <1>4, <1>5, <1>6, <1>7, <1>8, <1>9, <1>10, <1>11, <1>12, <1>13, <1>14, <1>15,
     <1>16, <1>17, <1>18, <1>19, <1>20, <1>21 DEF FinishNext, Stage

\* Every variable of the pipeline keeps its type; waves, rounds and resumes stay in their budgets.
THEOREM TurnTypeCorrect == FinishSpec => []FinishTypeOK
<1>1. FinishInit => FinishTypeOK
  BY FinishTypeInit
<1>2. FinishTypeOK /\ [FinishNext]_finishVars => FinishTypeOK'
  BY FinishTypeStep
<1> QED
  BY <1>1, <1>2, PTL DEF FinishSpec

-----------------------------------------------------------------------------
(* What is true of the end of a run, and how each step moves it: a step of *)
(* the pipeline comes from a stage before the end; only Checkpoint,        *)
(* FinishEarly and CompleteRun touch the result, the mark or `early`.      *)
LEMMA StageMoves ==
  ASSUME Stage
  PROVE  /\ stage # "ended" /\ UNCHANGED <<conf, halted>>
         /\ \/ UNCHANGED ends /\ stage' # "ended"
            \/ \E text : Checkpoint(text)
            \/ \E b : FinishEarly(b)
            \/ CompleteRun
<1> USE DEF Goto, GateSays, NextRound, ends
<1>1. CASE Execute \/ ExecuteFails \/ MetBetweenWaves
  BY <1>1 DEF Execute, ExecuteFails, MetBetweenWaves
<1>2. CASE PreTest
  BY <1>2 DEF PreTest
<1>3. CASE TesterPasses \/ TesterRejects \/ ReVerify \/ Restaffed
  BY <1>3 DEF TesterPasses, TesterRejects, ReVerify, Restaffed
<1>4. CASE CorrectiveWave
  BY <1>4 DEF CorrectiveWave
<1>5. CASE Probe
  BY <1>5 DEF Probe
<1>6. CASE Polish \/ Completeness
  BY <1>6 DEF Polish, Completeness
<1>7. CASE GateRound
  <2>1. stage = "gate" /\ UNCHANGED <<conf, ends, halted>> /\ stage' \in {"judge", "gate", "lastRound"}
    BY <1>7 DEF GateRound
  <2> QED
    BY <2>1
<1>8. CASE LastRound \/ Judge \/ ContinueNot \/ ContinueWave
  BY <1>8 DEF LastRound, Judge, ContinueNot, ContinueWave
<1>9. CASE CompleteRun
  BY <1>9 DEF CompleteRun
<1> QED
  BY <1>1, <1>2, <1>3, <1>4, <1>5, <1>6, <1>7, <1>8, <1>9 DEF Stage

\* Until its end a run has neither a result nor a mark.
EndInv ==
  /\ stage # "ended" => result = "none" /\ marked = FALSE
  /\ InterruptIsReal

LEMMA EndStep == FinishTypeOK /\ EndInv /\ [FinishNext]_finishVars => EndInv'
<1> SUFFICES ASSUME FinishTypeOK, EndInv, [FinishNext]_finishVars PROVE EndInv'
  OBVIOUS
<1> USE DEF EndInv, InterruptIsReal
<1>1. ASSUME Stage PROVE EndInv'
  <2>1. stage # "ended" /\ UNCHANGED halted
    BY <1>1, StageMoves
  <2>2. CASE UNCHANGED ends /\ stage' # "ended"
    BY <2>1, <2>2 DEF ends
  <2>3. ASSUME NEW text, Checkpoint(text) PROVE EndInv'
    BY <2>1, <2>3 DEF Checkpoint, Marks, Goto
  <2>4. ASSUME NEW b, FinishEarly(b) PROVE EndInv'
    BY <2>1, <2>4 DEF FinishEarly, Goto
  <2>5. CASE CompleteRun
    BY <2>1, <2>5 DEF CompleteRun, Goto
  <2> QED
    BY <1>1, <2>2, <2>3, <2>4, <2>5, StageMoves
<1>2. CASE Cancel
  BY <1>2 DEF Cancel, ends
<1>3. CASE ResumeRun
  BY <1>3 DEF ResumeRun, Goto
<1>4. CASE UNCHANGED finishVars
  BY <1>4 DEF finishVars, ends
<1> QED
  BY <1>1, <1>2, <1>3, <1>4 DEF FinishNext

\* Only a run whose own context ended is marked interrupted, and it has made no verdict.
THEOREM MarksAreReal == FinishSpec => []InterruptIsReal
<1>1. FinishInit => FinishTypeOK /\ EndInv
  BY FinishTypeInit DEF FinishInit, EndInv, InterruptIsReal
<1>2. FinishTypeOK /\ EndInv /\ [FinishNext]_finishVars => (FinishTypeOK /\ EndInv)'
  BY FinishTypeStep, EndStep
<1>3. EndInv => InterruptIsReal
  BY DEF EndInv
<1> QED
  BY <1>1, <1>2, <1>3, PTL DEF FinishSpec

-----------------------------------------------------------------------------
\* A plain success is given to a board with nothing for a person on it.
LEMMA SuccessVerdict ==
  ASSUME FinishTypeOK, Verdict = "success"
  PROVE  \A t \in Work : board[t] = "done" \/ (board[t] = "ready" /\ dropped # "no")
<1>1. /\ ~ (rejected \/ (Escalated(board) /\ ~ early) \/ ~ (CleanSuccess \/ SoftSuccess))
      /\ ~ (early /\ (Failed(board) \/ Escalated(board)))
      /\ ~ Failed(board)
  BY DEF Verdict
<1>2. ~ Escalated(board) /\ ~ Failed(board) /\ (AgentWork(board) => dropped # "no")
  BY <1>1 DEF CleanSuccess, SoftSuccess
<1> SUFFICES ASSUME NEW t \in Work PROVE board[t] = "done" \/ (board[t] = "ready" /\ dropped # "no")
  OBVIOUS
<1>3. board[t] \in Columns
  BY DEF FinishTypeOK
<1> QED
  BY <1>2, <1>3 DEF Escalated, Failed, AgentWork, Columns

LEMMA CleanStep ==
  FinishTypeOK /\ EndInv /\ BareSuccessIsClean /\ [FinishNext]_finishVars => BareSuccessIsClean'
<1> SUFFICES ASSUME FinishTypeOK, EndInv, BareSuccessIsClean, [FinishNext]_finishVars
             PROVE  BareSuccessIsClean'
  OBVIOUS
<1>1. CASE CompleteRun
  <2>1. result' = Verdict /\ UNCHANGED <<board, dropped>>
    BY <1>1 DEF CompleteRun, board_
  <2> QED
    BY <2>1, SuccessVerdict DEF BareSuccessIsClean
<1>2. CASE Stage /\ ~ CompleteRun
  <2>1. stage # "ended" /\ result # "success"
    BY <1>2, StageMoves DEF EndInv
  <2>2. result' # "success"
    BY <1>2, <2>1, StageMoves DEF ends, Checkpoint, FinishEarly
  <2> QED
    BY <2>2 DEF BareSuccessIsClean
<1>3. CASE Cancel \/ UNCHANGED finishVars
  BY <1>3 DEF Cancel, finishVars, board_, ends, BareSuccessIsClean
<1>4. CASE ResumeRun
  BY <1>4 DEF ResumeRun, BareSuccessIsClean
<1> QED
  BY <1>1, <1>2, <1>3, <1>4 DEF FinishNext

\* A plain success leaves nobody anything to look at.
THEOREM PlainSuccessIsClean == FinishSpec => []BareSuccessIsClean
<1>1. FinishInit => FinishTypeOK /\ EndInv /\ BareSuccessIsClean
  BY FinishTypeInit DEF FinishInit, EndInv, InterruptIsReal, BareSuccessIsClean
<1>2. FinishTypeOK /\ EndInv /\ BareSuccessIsClean /\ [FinishNext]_finishVars
        => (FinishTypeOK /\ EndInv /\ BareSuccessIsClean)'
  BY FinishTypeStep, EndStep, CleanStep
<1> QED
  BY <1>1, <1>2, PTL DEF FinishSpec

-----------------------------------------------------------------------------
(* RedIsNoSuccess: from the gate on, somebody remembers a red answer: the  *)
(* gate until it is judged, the rejection after that.                      *)
RedAnswer == conf.gate /\ conf.cmd = "strong" /\ last = "red" /\ ~ continued /\ ~ halted

RedInv == RedAnswer =>
  /\ stage = "judge" => red
  /\ stage \in {"continue", "complete"} => rejected
  /\ result \notin Good

\* The answer of the strong command on a run that goes on is the last one.
LEMMA Answered ==
  ASSUME NEW v, Measures(v), ~ halted, conf.cmd = "strong"
  PROVE  last' = v
  BY DEF Measures

LEMMA RedStep == FinishTypeOK /\ EndInv /\ RedInv /\ [FinishNext]_finishVars => RedInv'
<1> SUFFICES ASSUME FinishTypeOK, EndInv, RedInv, [FinishNext]_finishVars, RedAnswer'
             PROVE  (/\ stage = "judge" => red
                     /\ stage \in {"continue", "complete"} => rejected
                     /\ result \notin Good)'
  BY DEF RedInv
<1>g. "none" \notin Good /\ "error" \notin Good /\ "interrupted" \notin Good /\ "failure" \notin Good
  BY DEF Good, Outcomes
<1>1. ASSUME Stage, ~ CompleteRun
      PROVE  result' \notin Good /\ ~ halted /\ conf' = conf /\ conf.gate /\ conf.cmd = "strong"
  <2>1. result = "none" /\ UNCHANGED <<conf, halted>>
    BY <1>1, StageMoves DEF EndInv
  <2>2. result' \in {"none", "error", "interrupted"}
    BY <1>1, <2>1, StageMoves DEF ends, Checkpoint, FinishEarly
  <2> QED
    BY <1>g, <2>1, <2>2 DEF RedAnswer
<1>2. CASE Execute \/ ExecuteFails \/ TesterPasses \/ TesterRejects \/ ReVerify \/ Restaffed
           \/ CorrectiveWave \/ Polish \/ Completeness
  <2>1. stage' \notin {"judge", "continue", "complete"} /\ Stage /\ ~ CompleteRun
    BY <1>2 DEF Stage, CompleteRun, Execute, ExecuteFails, TesterPasses, TesterRejects, ReVerify,
       Restaffed, CorrectiveWave, Polish, Completeness, Goto, Checkpoint
  <2> QED
    BY <1>1, <2>1
<1>3. CASE MetBetweenWaves
  BY <1>3 DEF MetBetweenWaves, RedAnswer
<1>4. CASE PreTest \/ Probe
  <2>1. Stage /\ ~ CompleteRun
    BY <1>4 DEF Stage, CompleteRun, PreTest, Probe
  <2>2. \/ stage' \notin {"judge", "continue", "complete"}
        \/ Measures("green")
    BY <1>4 DEF PreTest, Probe, Goto, Checkpoint
  <2>3. ~ Measures("green")
    BY <1>1, <2>1, Answered DEF RedAnswer
  <2> QED
    BY <1>1, <2>1, <2>2, <2>3
<1>5. CASE GateRound
  <2>1. Stage /\ ~ CompleteRun
    BY <1>5 DEF Stage, CompleteRun, GateRound
  <2>2. ~ halted /\ conf.gate /\ conf.cmd = "strong"
    BY <1>1, <2>1
  <2>3. \/ stage' \in {"gate", "lastRound"}
        \/ \E v \in {"green", "vacuous"} : Measures(v)
        \/ GateSays(TRUE)
    BY <1>5, <2>2 DEF GateRound, NextRound, Goto
  <2>4. \A v \in {"green", "vacuous"} : ~ Measures(v)
    BY <2>2, Answered DEF RedAnswer
  <2> QED
    BY <1>1, <2>1, <2>3, <2>4 DEF GateSays, Goto
<1>6. CASE LastRound
  <2>1. Stage /\ ~ CompleteRun
    BY <1>6 DEF Stage, CompleteRun, LastRound
  <2>2. PICK v \in {"green", "red", "vacuous"} : Measures(v) /\ GateSays(v # "green")
    BY <1>1, <1>6, <2>1 DEF LastRound
  <2>3. v = "red"
    BY <1>1, <2>1, <2>2, Answered DEF RedAnswer
  <2> QED
    BY <1>1, <2>1, <2>2, <2>3 DEF GateSays, Goto
<1>7. CASE Judge
  <2>1. Stage /\ ~ CompleteRun
    BY <1>7 DEF Stage, CompleteRun, Judge
  <2>2. last' = last /\ continued' = continued /\ stage = "judge" /\ stage' = "continue"
    BY <1>7 DEF Judge, MayWrite, Wrote, measured, Goto
  <2>3. red
    BY <1>1, <2>1, <2>2 DEF RedInv, RedAnswer
  <2>4. rejected'
    BY <1>7, <2>3 DEF Judge
  <2> QED
    BY <1>1, <2>1, <2>2, <2>4
<1>8. CASE ContinueNot
  <2>1. Stage /\ ~ CompleteRun
    BY <1>8 DEF Stage, CompleteRun, ContinueNot
  <2>2. stage = "continue" /\ stage' = "complete" /\ UNCHANGED <<last, continued, rejected>>
    BY <1>8 DEF ContinueNot, measured, gate, Goto
  <2> QED
    BY <1>1, <2>1, <2>2 DEF RedInv, RedAnswer
<1>9. CASE ContinueWave
  BY <1>9 DEF ContinueWave, RedAnswer
<1>10. CASE CompleteRun
  <2>1. UNCHANGED <<conf, last, rejected, continued, halted>> /\ stage = "complete" /\ stage' = "ended"
    BY <1>10 DEF CompleteRun, measured, gate, Goto
  <2>2. rejected
    BY <2>1 DEF RedInv, RedAnswer
  <2>3. result' = "failure"
    BY <1>10, <2>2 DEF CompleteRun, Verdict
  <2> QED
    BY <1>g, <2>1, <2>3
<1>11. CASE Cancel
  BY <1>11 DEF Cancel, RedAnswer
<1>12. CASE ResumeRun
  BY <1>12 DEF ResumeRun, RedAnswer
<1>13. CASE UNCHANGED finishVars
  BY <1>13 DEF finishVars, board_, measured, gate, ends, RedInv, RedAnswer
<1> QED
  BY <1>2, <1>3, <1>4, <1>5, <1>6, <1>7, <1>8, <1>9, <1>10, <1>11, <1>12, <1>13 DEF FinishNext, Stage

\* A strong command whose last answer was red makes no success, but for a continue wave or a
\* canceled gate.
THEOREM RedNeverSucceeds == FinishSpec => []RedIsNoSuccess
<1>1. FinishInit => FinishTypeOK /\ EndInv /\ RedInv
  BY FinishTypeInit DEF FinishInit, EndInv, InterruptIsReal, RedInv, RedAnswer
<1>2. FinishTypeOK /\ EndInv /\ RedInv /\ [FinishNext]_finishVars => (FinishTypeOK /\ EndInv /\ RedInv)'
  BY FinishTypeStep, EndStep, RedStep
<1>3. RedInv => RedIsNoSuccess
  BY DEF RedInv, RedAnswer, RedIsNoSuccess, Judged
<1> QED
  BY <1>1, <1>2, <1>3, PTL DEF FinishSpec
=============================================================================

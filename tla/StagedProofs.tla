---------------------------- MODULE StagedProofs ----------------------------
(***************************************************************************)
(* StagedAnalysis for any number of handlers, revisions, requests and      *)
(* mishaps: a task is sent once, progress is kept, and a finished analysis *)
(* comes to be of other words only when it was overtaken.  And Assistant, which reads what is     *)
(* shown, for any questions and any losses of its one process: answers     *)
(* stand under their questions, in turn.                                   *)
(*                                                                         *)
(* The argument about tasks: whoever is about to send one has claimed it   *)
(* himself, alone, and nobody has sent it.  A row goes from claimed back   *)
(* to none only in the hands of somebody who is about to send, so a task   *)
(* that was sent can never be claimed again.                               *)
(***************************************************************************)
EXTENDS StagedAnalysis, Assistant, FiniteSetTheorems, WellFoundedInduction, TLAPS

RunnerHand == [pc : RunnerSteps, attempt : 0 .. MaxAsks, run : Runs \cup {NoRun},
         stage : 1 .. Stages, try : Requests]
AttemptRow == [revision : Revision, status : AttemptStatus]

(* A set of positions that is not empty has a last one. *)
LEMMA LastOne ==
  ASSUME NEW n \in Nat, NEW S, S \subseteq 1 .. n, S # {}
  PROVE  \E i \in S : \A j \in S : j <= i
<1> DEFINE T == {i .. n : i \in S}
<1>1. IsFiniteSet(1 .. n)
  BY FS_Interval
<1>2. \A i \in S : (i .. n) \subseteq 1 .. n
  OBVIOUS
<1>3. T \subseteq FiniteSubsetsOf(1 .. n) /\ T # {}
  <2>1. \A i \in S : (i .. n) \in SUBSET (1 .. n) /\ IsFiniteSet(i .. n)
    BY <1>1, <1>2, FS_Subset
  <2> QED BY <2>1 DEF FiniteSubsetsOf
<1>4. IsWellFoundedOn(StrictSubsetOrdering(1 .. n), FiniteSubsetsOf(1 .. n))
  BY FS_StrictSubsetOrderingWellFounded
<1>5. PICK x \in T : \A y \in T : ~ (<<y, x>> \in StrictSubsetOrdering(1 .. n))
  BY <1>3, <1>4, WFMin
<1>6. PICK i \in S : x = i .. n
  BY <1>5
<1>7. ASSUME NEW j \in S, i < j PROVE FALSE
  <2>1. (j .. n) \in T /\ (j .. n) \subseteq 1 .. n /\ x \subseteq 1 .. n
    BY <1>2, <1>6
  <2>2. (j .. n) \subseteq x /\ i \in x /\ i \notin (j .. n)
    BY <1>6, <1>7
  <2>3. <<j .. n, x>> \in StrictSubsetOrdering(1 .. n)
    BY <2>1, <2>2 DEF StrictSubsetOrdering
  <2> QED BY <1>5, <2>1, <2>3
<1>8. \A j \in S : j \in Int /\ i \in Int
  BY <1>6
<1> QED BY <1>6, <1>7, <1>8

-----------------------------------------------------------------------------
(* Types *)

LEMMA ActiveIs ==
  ASSUME StagedTypeOK
  PROVE  /\ ActiveAttempt \in 0 .. MaxAsks
         /\ ActiveAttempt # 0 => /\ ActiveAttempt \in 1 .. Len(attempts)
                                 /\ attempts[ActiveAttempt] \in AttemptRow
<1> DEFINE open == {i \in 1 .. Len(attempts) : attempts[i].status \in ActiveStatus}
<1>1. /\ attempts \in Seq(AttemptRow) /\ Len(attempts) \in 0 .. MaxAsks
      /\ MaxAsks \in Nat
  BY StagedBounds DEF StagedTypeOK, AttemptRow
<1>2. CASE open = {}
  BY <1>1, <1>2 DEF ActiveAttempt
<1>3. CASE open # {}
  <2>1. ActiveAttempt = CHOOSE i \in open : \A j \in open : j <= i
    BY <1>3 DEF ActiveAttempt
  <2>2. \E i \in open : \A j \in open : j <= i
    <3>1. Len(attempts) \in Nat /\ open \subseteq 1 .. Len(attempts)
      BY <1>1
    <3> HIDE DEF open
    <3> QED BY <1>3, <3>1, LastOne
  <2>3. ActiveAttempt \in open
    <3> HIDE DEF open
    <3> QED BY <2>1, <2>2
  <2>4. ActiveAttempt \in 1 .. Len(attempts)
    BY <2>3
  <2> QED BY <1>1, <2>4
<1> QED BY <1>2, <1>3

LEMMA AttemptMarked ==
  ASSUME StagedTypeOK, NEW i \in 0 .. Len(attempts), NEW status \in AttemptStatus,
         MarkAttempt(i, status)
  PROVE  attempts' \in Seq(AttemptRow) /\ Len(attempts') = Len(attempts)
<1>1. attempts \in Seq(AttemptRow)
  BY DEF StagedTypeOK, AttemptRow
<1>2. CASE i = 0
  BY <1>1, <1>2 DEF MarkAttempt
<1>3. CASE i # 0
  <2>1. i \in 1 .. Len(attempts) /\ attempts[i] \in AttemptRow
    BY <1>1, <1>3
  <2> DEFINE row == [attempts[i] EXCEPT !.status = status]
  <2>2. row \in AttemptRow
    BY <2>1 DEF AttemptRow
  <2>3. attempts' = [attempts EXCEPT ![i] = row]
    BY <1>1, <1>3, <2>1 DEF MarkAttempt
  <2> HIDE DEF row
  <2> QED BY <1>1, <2>1, <2>2, <2>3
<1> QED BY <1>2, <1>3

(* What a handler holds is still of its shape when it moves on. *)
LEMMA HeldWritten ==
  ASSUME NEW held \in RunnerHand
  PROVE  /\ \A pc \in RunnerSteps : /\ [held EXCEPT !.pc = pc] \in RunnerHand
                                     /\ [held EXCEPT !.pc = pc].pc = pc
                                     /\ [held EXCEPT !.pc = pc].run = held.run
                                     /\ [held EXCEPT !.pc = pc].stage = held.stage
                                     /\ [held EXCEPT !.pc = pc].try = held.try
         /\ \A i \in 0 .. MaxAsks : /\ [held EXCEPT !.attempt = i, !.pc = "prepare"] \in RunnerHand
                                    /\ [held EXCEPT !.attempt = i, !.pc = "prepare"].pc = "prepare"
         /\ \A run \in Runs : /\ [held EXCEPT !.run = run, !.pc = "begin"] \in RunnerHand
                              /\ [held EXCEPT !.run = run, !.pc = "begin"].pc = "begin"
         /\ \A t \in Requests : /\ [held EXCEPT !.try = t, !.pc = "claim"] \in RunnerHand
                                /\ [held EXCEPT !.try = t, !.pc = "claim"].pc = "claim"
BY DEF RunnerHand, RunnerSteps

LEMMA NextStageHeld ==
  ASSUME NEW held \in RunnerHand, NEW n \in 1 .. Stages, NEW t \in Requests
  PROVE  /\ [held EXCEPT !.stage = n, !.try = t, !.pc = "claim"] \in RunnerHand
         /\ [held EXCEPT !.stage = n, !.try = t, !.pc = "claim"].pc = "claim"
BY DEF RunnerHand, RunnerSteps

LEMMA RestingHeld == Resting \in RunnerHand /\ Resting.pc = "idle"
BY StagedBounds DEF Resting, RunnerHand, RunnerSteps, Requests
-----------------------------------------------------------------------------
(* What a step does to its handler *)

SameTask(held, h) ==
  held.run = runner[h].run /\ held.stage = runner[h].stage /\ held.try = runner[h].try

(* A handler about to send has just claimed the task it is at, and one that   *)
(* waits for the provider has just sent it.                                   *)
Goes(h, held) ==
  /\ runner' = [runner EXCEPT ![h] = held]
  /\ held.pc = "reserve" => /\ TaskOf(h) \in TaskIds => taskRow[TaskOf(h)] = "none"
                            /\ taskRow' = [taskRow EXCEPT ![TaskOf(h)] = "claimed"]
                            /\ sent' = sent /\ SameTask(held, h)
  /\ held.pc = "provider" => ReserveStage(h) /\ SameTask(held, h)

LEMMA StepGoes ==
  ASSUME StagedTypeOK, NEW h \in Analyzers, NEW pc \in RunnerSteps, Step(h, pc),
         pc \notin {"reserve", "provider"}
  PROVE  \E held \in RunnerHand : Goes(h, held)
<1>1. runner \in [Analyzers -> RunnerHand] /\ runner[h] \in RunnerHand
  BY DEF StagedTypeOK, RunnerHand
<1> DEFINE held == [runner[h] EXCEPT !.pc = pc]
<1>2. held \in RunnerHand /\ held.pc = pc
  BY <1>1, HeldWritten
<1>3. runner' = [runner EXCEPT ![h] = held]
  BY <1>1 DEF Step
<1> HIDE DEF held
<1> QED BY <1>2, <1>3 DEF Goes

LEMMA RestGoes ==
  ASSUME NEW h \in Analyzers, Rest(h)
  PROVE  \E held \in RunnerHand : Goes(h, held)
BY RestingHeld DEF Rest, Goes

LEMMA NextTryGoes ==
  ASSUME StagedTypeOK, NEW h \in Analyzers, NEW error \in Errors, NextTry(h, error)
  PROVE  \E held \in RunnerHand : Goes(h, held)
<1>1. runner \in [Analyzers -> RunnerHand] /\ runner[h] \in RunnerHand
  BY DEF StagedTypeOK, RunnerHand
<1>2. CASE runner[h].try[1] < Tries
  <2> DEFINE t == <<runner[h].try[1] + 1, error>>
             held == [runner[h] EXCEPT !.try = t, !.pc = "claim"]
  <2>1. runner[h].try \in Requests
    BY <1>1 DEF RunnerHand
  <2>2. runner[h].try[1] \in 1 .. Tries
    BY <2>1, StagedBounds DEF Requests
  <2>3. t \in Requests
    BY <1>2, <2>2, StagedBounds DEF Requests
  <2>4. held \in RunnerHand /\ held.pc = "claim"
    <3> HIDE DEF t
    <3> QED BY <1>1, <2>3, HeldWritten
  <2>5. runner' = [runner EXCEPT ![h] = held]
    BY <1>1, <1>2 DEF NextTry
  <2> HIDE DEF held
  <2> QED BY <2>4, <2>5 DEF Goes
<1>3. CASE ~(runner[h].try[1] < Tries)
  <2>1. Step(h, "error")
    BY <1>3 DEF NextTry, Step
  <2> QED BY <2>1, StepGoes DEF RunnerSteps
<1> QED BY <1>2, <1>3

LEMMA RunnerGoes ==
  ASSUME StagedTypeOK, NEW h \in Analyzers, RunnerStep(h) \/ LoseRunner(h)
  PROVE  \E held \in RunnerHand : Goes(h, held)
<1>1. runner \in [Analyzers -> RunnerHand] /\ runner[h] \in RunnerHand
  BY DEF StagedTypeOK, RunnerHand
<1>2. CASE \/ TakeAnalyzeJob(h) \/ ReclaimAnalyzeJob(h) \/ CheckDuplicate(h)
           \/ MarkAnalysisRunning(h) \/ CompareRevision(h) \/ MarkAnalysisDone(h)
           \/ CloseAttempt(h) \/ LeaveSuperseded(h) \/ WaitForRow(h) \/ BeginPipeline(h)
  BY <1>2, StepGoes DEF TakeAnalyzeJob, ReclaimAnalyzeJob, CheckDuplicate, MarkAnalysisRunning,
     CompareRevision, MarkAnalysisDone, CloseAttempt, LeaveSuperseded, WaitForRow,
     BeginPipeline, RunnerSteps
<1>3. CASE ReportAnalyzed(h) \/ RetryAnalysis(h) \/ MarkAnalyzeCallFailed(h) \/ LoseRunner(h)
  BY <1>3, RestGoes DEF ReportAnalyzed, RetryAnalysis, MarkAnalyzeCallFailed, LoseRunner
<1>4. CASE TakeAttempt(h)
  <2>0. PICK i \in 0 .. MaxAsks : i = ActiveAttempt
    BY ActiveIs
  <2> DEFINE held == [runner[h] EXCEPT !.attempt = i, !.pc = "prepare"]
  <2>1. held \in RunnerHand /\ held.pc = "prepare"
    BY <1>1, HeldWritten
  <2>2. runner' = [runner EXCEPT ![h] = held]
    BY <1>1, <1>4, <2>0 DEF TakeAttempt
  <2> HIDE DEF held
  <2> QED BY <2>1, <2>2 DEF Goes
<1>5. CASE ChooseRun(h)
  <2> DEFINE r == IF ActiveAttempt = 0 THEN activeRevision ELSE attempts[ActiveAttempt].revision
  <2>1. r \in Revision
    BY ActiveIs, StagedBounds DEF AttemptRow, StagedTypeOK, Revision
  <2>2. PICK run \in Runs : run = <<r, ActiveAttempt>>
    BY <2>1, ActiveIs DEF Runs
  <2> DEFINE held == [runner[h] EXCEPT !.run = run, !.pc = "begin"]
  <2>3. held \in RunnerHand /\ held.pc = "begin"
    BY <1>1, HeldWritten
  <2>4. runner' = [runner EXCEPT ![h] = held]
    BY <1>1, <1>5, <2>2 DEF ChooseRun
  <2> HIDE DEF held
  <2> QED BY <2>3, <2>4 DEF Goes
<1>6. CASE ClaimAnalysisTask(h)
  <2>1. CASE ClaimOutcome(taskRow[TaskOf(h)]) = "new"
    <3> DEFINE held == [runner[h] EXCEPT !.pc = "reserve"]
    <3>1. held \in RunnerHand /\ held.pc = "reserve" /\ SameTask(held, h)
      BY <1>1, HeldWritten DEF SameTask, RunnerSteps
    <3>2. /\ Step(h, "reserve") /\ sent' = sent
          /\ taskRow' = [taskRow EXCEPT ![TaskOf(h)] = "claimed"]
      BY <1>6, <2>1 DEF ClaimAnalysisTask
    <3>3. TaskOf(h) \in TaskIds => taskRow[TaskOf(h)] = "none"
      BY <2>1 DEF ClaimOutcome, StagedTypeOK
    <3>4. runner' = [runner EXCEPT ![h] = held]
      BY <1>1, <3>2 DEF Step
    <3> HIDE DEF held
    <3> QED BY <3>1, <3>2, <3>3, <3>4 DEF Goes
  <2>2. CASE ClaimOutcome(taskRow[TaskOf(h)]) # "new"
    BY <1>6, <2>2, StepGoes, NextTryGoes DEF ClaimAnalysisTask, Errors, RunnerSteps
  <2> QED BY <2>1, <2>2
<1>7. CASE ReserveStage(h)
  <2> DEFINE held == [runner[h] EXCEPT !.pc = "provider"]
  <2>1. held \in RunnerHand /\ held.pc = "provider" /\ SameTask(held, h)
    BY <1>1, HeldWritten DEF SameTask, RunnerSteps
  <2>2. runner' = [runner EXCEPT ![h] = held]
    BY <1>1, <1>7 DEF ReserveStage, Step
  <2> HIDE DEF held
  <2> QED BY <1>7, <2>1, <2>2 DEF Goes
<1>8. CASE ReleaseAnalysisTask(h) \/ ProviderRefuses(h) \/ SaveAnalysisTask(h)
  BY <1>8, StepGoes, NextTryGoes DEF ReleaseAnalysisTask, ProviderRefuses, SaveAnalysisTask, Errors,
     RunnerSteps
<1>9. CASE SaveProgress(h)
  <2>1. CASE \E pc \in {"compare", "superseded"} : Step(h, pc)
    BY <2>1, StepGoes DEF RunnerSteps
  <2>2. CASE ~ \E pc \in {"compare", "superseded"} : Step(h, pc)
    <3>1. runner[h].stage \in 1 .. Stages /\ runner[h].stage # Stages
      BY <1>1, <1>9, <2>2 DEF SaveProgress, RunnerHand
    <3>2. PICK n \in 1 .. Stages : n = runner[h].stage + 1
      BY <3>1, StagedBounds
    <3> DEFINE t == <<1, "first">>
    <3>5. t \in Requests
      BY DEF Requests
    <3> HIDE DEF t
    <3> DEFINE held == [runner[h] EXCEPT !.stage = n, !.try = t, !.pc = "claim"]
    <3>3. held \in RunnerHand /\ held.pc = "claim"
      BY <1>1, <3>5, NextStageHeld
    <3>4. runner' = [runner EXCEPT ![h] = held]
      BY <1>1, <1>9, <2>2, <3>2 DEF SaveProgress, t
    <3> HIDE DEF held
    <3> QED BY <3>3, <3>4 DEF Goes
  <2> QED BY <2>1, <2>2
<1> QED BY <1>2, <1>3, <1>4, <1>5, <1>6, <1>7, <1>8, <1>9 DEF RunnerStep
-----------------------------------------------------------------------------
(* What steps do to the row of the analysis *)

LEMMA AnalysisWritten ==
  ASSUME NEW row \in Analyses
  PROVE  /\ row.status \in CallAnalysisStatus /\ row.run \in Runs \cup {NoRun}
         /\ row.progress \in 0 .. Complete
         /\ \A status \in CallAnalysisStatus :
              /\ [row EXCEPT !.status = status] \in Analyses
              /\ [row EXCEPT !.status = status].status = status
              /\ [row EXCEPT !.status = status].run = row.run
              /\ [row EXCEPT !.status = status].progress = row.progress
         /\ \A n \in 0 .. Complete :
              /\ [row EXCEPT !.progress = n] \in Analyses
              /\ [row EXCEPT !.progress = n].status = row.status
              /\ [row EXCEPT !.progress = n].run = row.run
              /\ [row EXCEPT !.progress = n].progress = n
         /\ \A n \in 0 .. Complete :
              /\ [row EXCEPT !.status = "done", !.progress = n] \in Analyses
              /\ [row EXCEPT !.status = "done", !.progress = n].status = "done"
              /\ [row EXCEPT !.status = "done", !.progress = n].run = row.run
              /\ [row EXCEPT !.status = "done", !.progress = n].progress = n
BY DEF Analyses, CallAnalysisStatus

(* A row after a step: it is done only if it was, if the run just finished is *)
(* of the active revision, or if its handler had waited for the row.          *)
RowGoes ==
  /\ analysis' \in Analyses
  /\ analysis'.run = analysis.run => analysis'.progress >= analysis.progress
  /\ analysis'.status = "done" =>
       \/ analysis.status = "done" /\ analysis'.run = analysis.run
       \/ RevisionOf(analysis'.run) = activeRevision
       \/ WaitEnds

LEMMA WaitIsOver ==
  ASSUME StagedTypeOK, NEW h \in Analyzers, At(h, "beginning") \/ At(h, "finishing"),
         NEW pc, pc \notin {"beginning", "finishing"}, Step(h, pc)
  PROVE  WaitEnds
<1>1. runner'[h].pc = pc
  BY DEF StagedTypeOK, Step
<1> QED BY <1>1 DEF WaitEnds, At

LEMMA StatusGoes ==
  ASSUME StagedTypeOK, NEW status \in CallAnalysisStatus, status # "done",
         analysis' = [analysis EXCEPT !.status = status]
  PROVE  RowGoes
<1>1. analysis \in Analyses
  BY DEF StagedTypeOK
<1>2. \A n \in 0 .. Complete : n >= n
  BY StagedBounds DEF Complete
<1> QED BY <1>1, <1>2, AnalysisWritten DEF RowGoes

LEMMA SameRowGoes ==
  ASSUME StagedTypeOK, UNCHANGED analysis
  PROVE  RowGoes
<1>1. analysis \in Analyses
  BY DEF StagedTypeOK
<1>2. \A n \in 0 .. Complete : n >= n
  BY StagedBounds DEF Complete
<1> QED BY <1>1, <1>2, AnalysisWritten DEF RowGoes

LEMMA BeginGoes ==
  ASSUME StagedTypeOK, NEW h \in Analyzers, BeginPipeline(h)
  PROVE  RowGoes
<1>1. analysis \in Analyses /\ runner[h].run \in Runs \cup {NoRun}
  BY DEF StagedTypeOK
<1>2. analysis.progress \in 0 .. Complete /\ 0 \in 0 .. Complete
  <2>1. 0 \in 0 .. Complete
    BY StagedBounds DEF Complete
  <2> QED BY <1>1, <2>1, AnalysisWritten
<1>3. CASE /\ At(h, "beginning") \/ RevisionOf(runner[h].run) = activeRevision
           /\ Step(h, "claim")
           /\ analysis' = [analysis EXCEPT !.run = runner[h].run,
                             !.progress = IF analysis.run = runner[h].run THEN @ ELSE 0]
  <2>1. PICK n \in 0 .. Complete, run \in Runs \cup {NoRun} :
          /\ run = runner[h].run
          /\ n = IF analysis.run = run THEN analysis.progress ELSE 0
    BY <1>1, <1>2
  <2>3. PICK row : analysis' = row /\ row = [analysis EXCEPT !.run = run, !.progress = n]
    BY <1>1, <1>3, <2>1
  <2>2. row \in Analyses /\ row.run = run /\ row.progress = n /\ row.status = analysis.status
    <3>1. analysis \in Analyses /\ n \in 0 .. Complete /\ run \in Runs \cup {NoRun}
      BY <1>1
    <3> QED BY <3>1, <2>3 DEF Analyses
  <2>4. analysis'.run = analysis.run => analysis'.progress = analysis.progress
    BY <2>1, <2>2, <2>3
  <2>5. analysis'.progress \in Int /\ analysis.progress \in Int
    BY <1>2, <2>2, <2>3
  <2>6. At(h, "beginning") => WaitEnds
    BY <1>3, WaitIsOver
  <2> QED BY <1>3, <2>1, <2>2, <2>3, <2>4, <2>5, <2>6 DEF RowGoes
<1>4. CASE UNCHANGED analysis
  BY <1>4, SameRowGoes
<1> QED BY <1>3, <1>4 DEF BeginPipeline

LEMMA SaveGoes ==
  ASSUME StagedTypeOK, NEW h \in Analyzers, SaveProgress(h)
  PROVE  RowGoes
<1>1. analysis \in Analyses /\ runner[h].stage \in 1 .. Stages
  BY DEF StagedTypeOK
<1>2. PICK n \in 0 .. Complete : n = runner[h].stage
  BY <1>1, StagedBounds DEF Complete
<1>3. CASE analysis' = [analysis EXCEPT !.progress = n] /\ AcceptsProgress(n)
  <2>1. analysis.progress <= n /\ analysis.progress \in 0 .. Complete
    BY <1>1, <1>3, AnalysisWritten DEF AcceptsProgress
  <2>2. n >= analysis.progress
    BY <2>1, StagedBounds DEF Complete
  <2> QED BY <1>1, <1>3, <2>2, AnalysisWritten DEF RowGoes
<1>4. CASE UNCHANGED analysis
  BY <1>4, SameRowGoes
<1> QED BY <1>2, <1>3, <1>4 DEF SaveProgress

LEMMA DoneGoes ==
  ASSUME StagedTypeOK, NEW h \in Analyzers, MarkAnalysisDone(h)
  PROVE  RowGoes
<1>1. analysis \in Analyses /\ Complete \in 0 .. Complete
  BY StagedBounds DEF StagedTypeOK, Complete
<1>2. analysis.progress \in 0 .. Complete
  BY <1>1, AnalysisWritten
<1>3. CASE /\ Step(h, "close")
           /\ At(h, "finishing") \/ RunIsCurrent(runner[h].run)
           /\ analysis' = [analysis EXCEPT !.status = "done", !.progress = Complete]
  <2>1. PICK n \in 0 .. Complete : n = Complete
    BY <1>1
  <2>2. analysis' = [analysis EXCEPT !.status = "done", !.progress = n]
    BY <1>3, <2>1
  <2>3. RevisionOf(analysis.run) = activeRevision \/ WaitEnds
    BY <1>3, WaitIsOver DEF RunIsCurrent
  <2>4. n >= analysis.progress
    BY <1>2, <2>1, StagedBounds DEF Complete
  <2> QED BY <1>1, <2>2, <2>3, <2>4, AnalysisWritten DEF RowGoes
<1>4. CASE UNCHANGED analysis
  BY <1>4, SameRowGoes
<1> QED BY <1>3, <1>4 DEF MarkAnalysisDone

LEMMA RunnerRowGoes ==
  ASSUME StagedTypeOK, NEW h \in Analyzers, RunnerStep(h) \/ LoseRunner(h)
  PROVE  RowGoes
<1>1. CASE MarkAnalyzeCallFailed(h) \/ MarkAnalysisRunning(h)
  BY <1>1, StatusGoes DEF MarkAnalyzeCallFailed, MarkAnalysisRunning, CallAnalysisStatus
<1>2. CASE ~(MarkAnalyzeCallFailed(h) \/ MarkAnalysisRunning(h) \/ BeginPipeline(h)
             \/ SaveProgress(h) \/ MarkAnalysisDone(h))
  <2>1. UNCHANGED analysis
    BY <1>2 DEF RunnerStep, TakeAnalyzeJob, ReclaimAnalyzeJob, ReportAnalyzed, RetryAnalysis,
       CheckDuplicate, TakeAttempt, ChooseRun, WaitForRow, ClaimAnalysisTask, ReserveStage,
       ReleaseAnalysisTask, ProviderRefuses, SaveAnalysisTask, CompareRevision,
       CloseAttempt, LeaveSuperseded, LoseRunner
  <2> QED BY <2>1, SameRowGoes
<1> QED BY <1>1, <1>2, BeginGoes, SaveGoes, DoneGoes

(* People reset the row, or mark it stale when their edit is committed. *)
LEMMA PeopleRowGoes ==
  ASSUME StagedTypeOK,
         \/ CreateAttempt \/ ResetAnalysisRow \/ EnqueueAnalysisAgain
         \/ OpenEdit \/ MarkAnalysisStale \/ CommitEdit \/ AbandonEdit
  PROVE  RowGoes
<1>1. CASE UNCHANGED analysis
  BY <1>1, SameRowGoes
<1>2. CASE ResetAnalysisRow
  BY <1>2, StatusGoes DEF ResetAnalysisRow, CallAnalysisStatus
<1>3. CASE CommitEdit
  BY <1>1, <1>3, StatusGoes DEF CommitEdit, CallAnalysisStatus
<1> QED BY <1>1, <1>2, <1>3 DEF CreateAttempt, EnqueueAnalysisAgain, OpenEdit,
           MarkAnalysisStale, AbandonEdit

LEMMA EveryRowGoes ==
  ASSUME StagedTypeOK, [StagedNext]_stagedVars PROVE RowGoes
BY RunnerRowGoes, PeopleRowGoes, SameRowGoes DEF StagedNext, stagedVars

-----------------------------------------------------------------------------
(* Types are kept *)

LEMMA RunnersTyped ==
  ASSUME StagedTypeOK, [StagedNext]_stagedVars
  PROVE  runner' \in [Analyzers -> RunnerHand]
<1>1. runner \in [Analyzers -> RunnerHand]
  BY DEF StagedTypeOK, RunnerHand
<1>2. ASSUME NEW h \in Analyzers, RunnerStep(h) \/ LoseRunner(h)
      PROVE  runner' \in [Analyzers -> RunnerHand]
  <2>1. PICK held \in RunnerHand : Goes(h, held)
    BY <1>2, RunnerGoes
  <2> QED BY <1>1, <2>1 DEF Goes
<1> QED BY <1>1, <1>2 DEF StagedNext, stagedVars, CreateAttempt, ResetAnalysisRow,
           EnqueueAnalysisAgain, OpenEdit, MarkAnalysisStale,
           CommitEdit, AbandonEdit

LEMMA TranscriptTyped ==
  ASSUME StagedTypeOK, [StagedNext]_stagedVars
  PROVE  /\ revisions' \in Seq(Content) /\ Len(revisions') \in Revision
         /\ activeRevision' \in 1 .. Len(revisions')
         /\ Len(revisions') >= Len(revisions)
         /\ \A r \in 1 .. Len(revisions) : revisions'[r] = revisions[r]
<1>1. /\ revisions \in Seq(Content) /\ Len(revisions) \in Revision
      /\ activeRevision \in 1 .. Len(revisions)
  BY DEF StagedTypeOK
<1>2. CASE UNCHANGED <<revisions, activeRevision>>
  BY <1>1, <1>2, StagedBounds DEF Revision
<1>3. CASE CommitEdit
  <2>1. editing.target \in 1 .. Len(revisions) + 1 /\ editing.target \in 0 .. MaxRevisions
    BY <1>3 DEF CommitEdit, RowLocked, StagedTypeOK, Edits
  <2>2. activeRevision' = editing.target
    BY <1>3 DEF CommitEdit
  <2>3. CASE editing.target <= Len(revisions)
    <3>1. revisions' = revisions
      BY <1>1, <1>3, <2>1, <2>3, StagedBounds DEF CommitEdit, Revision
    <3> QED BY <1>1, <2>1, <2>2, <2>3, <3>1, StagedBounds DEF Revision
  <2>4. CASE editing.target > Len(revisions)
    <3>1. PICK c \in Content : revisions' = Append(revisions, c)
      BY <1>1, <1>3, <2>1, <2>4, StagedBounds DEF CommitEdit, Revision
    <3> QED BY <1>1, <2>1, <2>2, <2>4, <3>1, StagedBounds DEF Revision
  <2> QED BY <1>1, <2>1, <2>3, <2>4, StagedBounds DEF Revision
<1>4. CASE OpenEdit \/ MarkAnalysisStale \/ AbandonEdit
  BY <1>2, <1>4 DEF OpenEdit, MarkAnalysisStale, AbandonEdit
<1>5. CASE \E h \in Analyzers : RunnerStep(h) \/ LoseRunner(h)
  <2>1. UNCHANGED transcriptVars
    BY <1>5 DEF RunnerStep, TakeAnalyzeJob, ReclaimAnalyzeJob, ReportAnalyzed, RetryAnalysis,
       MarkAnalyzeCallFailed, CheckDuplicate, TakeAttempt, MarkAnalysisRunning, ChooseRun,
       WaitForRow, BeginPipeline, ClaimAnalysisTask, ReserveStage,
       ReleaseAnalysisTask, ProviderRefuses, SaveAnalysisTask, SaveProgress, CompareRevision, MarkAnalysisDone, CloseAttempt,
       LeaveSuperseded, LoseRunner
  <2> QED BY <1>2, <2>1 DEF transcriptVars
<1> QED BY <1>2, <1>3, <1>4, <1>5 DEF StagedNext, stagedVars, transcriptVars, CreateAttempt,
           ResetAnalysisRow, EnqueueAnalysisAgain

(* An edit is of a revision there is, or of the next.                         *)
LEMMA EditTyped ==
  ASSUME StagedTypeOK, [StagedNext]_stagedVars
  PROVE  /\ editing' \in Edits
         /\ editing'.pc # "no" => editing'.target \in 1 .. Len(revisions') + 1
<1>1. /\ editing \in Edits /\ Len(revisions) \in Revision
      /\ editing.pc # "no" => editing.target \in 1 .. Len(revisions) + 1
  BY DEF StagedTypeOK
<1>2. CASE OpenEdit
  <2>1. PICK t \in 1 .. Len(revisions) + 1, f \in BOOLEAN :
          /\ editing' = [pc |-> "open", target |-> t, finished |-> f]
          /\ t <= Len(revisions) \/ t <= MaxRevisions
    BY <1>2 DEF OpenEdit
  <2>2. t \in 0 .. MaxRevisions
    BY <1>1, <2>1, StagedBounds DEF Revision
  <2> QED BY <1>2, <2>1, <2>2 DEF OpenEdit, Edits
<1>3. CASE MarkAnalysisStale
  <2>1. editing' = [editing EXCEPT !.pc = "locked"] /\ revisions' = revisions
    BY <1>3 DEF MarkAnalysisStale
  <2>2. editing.pc # "no"
    BY <1>3 DEF MarkAnalysisStale
  <2>3. editing' \in Edits /\ editing'.target = editing.target
    BY <1>1, <2>1 DEF Edits
  <2> QED BY <1>1, <2>1, <2>2, <2>3
<1>4. CASE CommitEdit \/ AbandonEdit
  <2>1. editing' = NoEdit
    BY <1>4 DEF CommitEdit, AbandonEdit
  <2>2. NoEdit \in Edits /\ NoEdit.pc = "no"
    BY StagedBounds DEF NoEdit, Edits
  <2> QED BY <2>1, <2>2
<1>5. CASE UNCHANGED transcriptVars
  BY <1>1, <1>5 DEF transcriptVars
<1>6. ASSUME NEW h \in Analyzers, RunnerStep(h) \/ LoseRunner(h)
      PROVE  UNCHANGED transcriptVars
  BY <1>6 DEF RunnerStep, TakeAnalyzeJob, ReclaimAnalyzeJob, ReportAnalyzed, RetryAnalysis,
     MarkAnalyzeCallFailed, CheckDuplicate, TakeAttempt, MarkAnalysisRunning, ChooseRun,
     WaitForRow, BeginPipeline, ClaimAnalysisTask, ReserveStage, ReleaseAnalysisTask,
     ProviderRefuses, SaveAnalysisTask, SaveProgress, CompareRevision, MarkAnalysisDone,
     CloseAttempt, LeaveSuperseded, LoseRunner
<1> QED BY <1>2, <1>3, <1>4, <1>5, <1>6 DEF StagedNext, stagedVars, transcriptVars, CreateAttempt,
           ResetAnalysisRow, EnqueueAnalysisAgain

LEMMA AttemptsTyped ==
  ASSUME StagedTypeOK, [StagedNext]_stagedVars
  PROVE  attempts' \in Seq(AttemptRow) /\ Len(attempts') \in 0 .. MaxAsks
<1>1. attempts \in Seq(AttemptRow) /\ Len(attempts) \in 0 .. MaxAsks /\ MaxAsks \in Nat
  BY StagedBounds DEF StagedTypeOK, AttemptRow
<1>2. CASE UNCHANGED attempts
  BY <1>1, <1>2
<1>3. CASE CreateAttempt
  <2> DEFINE row == [revision |-> activeRevision, status |-> "pending"]
  <2>1. row \in AttemptRow
    BY StagedBounds DEF StagedTypeOK, AttemptRow, AttemptStatus, Revision
  <2>2. attempts' = Append(attempts, row) /\ Len(attempts) < MaxAsks
    BY <1>3 DEF CreateAttempt
  <2> HIDE DEF row
  <2> QED BY <1>1, <2>1, <2>2
<1>4. ASSUME NEW h \in Analyzers, RunnerStep(h) \/ LoseRunner(h)
      PROVE  attempts' \in Seq(AttemptRow) /\ Len(attempts') \in 0 .. MaxAsks
  <2>1. CASE TakeAttempt(h) \/ MarkAnalyzeCallFailed(h)
    <3>1. \E status \in AttemptStatus : MarkAttempt(ActiveAttempt, status)
      BY <2>1 DEF TakeAttempt, MarkAnalyzeCallFailed, AttemptStatus
    <3>2. ActiveAttempt \in 0 .. Len(attempts)
      BY <1>1, ActiveIs
    <3> QED BY <1>1, <3>1, <3>2, AttemptMarked
  <2>2. CASE CloseAttempt(h) \/ LeaveSuperseded(h)
    <3>1. \E status \in AttemptStatus : MarkAttempt(runner[h].attempt, status)
      BY <2>2 DEF CloseAttempt, LeaveSuperseded, AttemptStatus
    <3>2. CASE runner[h].attempt \in 0 .. Len(attempts)
      BY <1>1, <3>1, <3>2, AttemptMarked
    <3>3. CASE runner[h].attempt \notin 0 .. Len(attempts)
      <4>1. attempts' = attempts
        BY <1>1, <3>1, <3>3 DEF MarkAttempt
      <4> QED BY <1>2, <4>1
    <3> QED BY <3>2, <3>3
  <2>3. CASE UNCHANGED attempts
    BY <1>2, <2>3
  <2> QED BY <1>4, <2>1, <2>2, <2>3 DEF RunnerStep, TakeAnalyzeJob, ReclaimAnalyzeJob,
       ReportAnalyzed, RetryAnalysis, CheckDuplicate, MarkAnalysisRunning, ChooseRun,
       WaitForRow, BeginPipeline, ClaimAnalysisTask, ReserveStage,
       ReleaseAnalysisTask, ProviderRefuses, SaveAnalysisTask, SaveProgress, CompareRevision, MarkAnalysisDone, LoseRunner
<1> QED BY <1>2, <1>3, <1>4 DEF StagedNext, stagedVars, ResetAnalysisRow,
           EnqueueAnalysisAgain, OpenEdit, MarkAnalysisStale,
           CommitEdit, AbandonEdit

LEMMA TasksTyped ==
  ASSUME StagedTypeOK, [StagedNext]_stagedVars
  PROVE  taskRow' \in [TaskIds -> {"none", "claimed", "saved"}] /\ sent' \in [TaskIds -> Nat]
<1>1. taskRow \in [TaskIds -> {"none", "claimed", "saved"}] /\ sent \in [TaskIds -> Nat]
  BY DEF StagedTypeOK
<1>2. ASSUME NEW id, NEW value \in {"none", "claimed", "saved"}
      PROVE  [taskRow EXCEPT ![id] = value] \in [TaskIds -> {"none", "claimed", "saved"}]
  BY <1>1
<1>3. ASSUME NEW h \in Analyzers, RunnerStep(h) \/ LoseRunner(h)
      PROVE  taskRow' \in [TaskIds -> {"none", "claimed", "saved"}] /\ sent' \in [TaskIds -> Nat]
  <2>1. CASE ReserveStage(h)
    <3>1. sent' = [sent EXCEPT ![TaskOf(h)] = @ + 1] /\ taskRow' = taskRow
      BY <2>1 DEF ReserveStage
    <3>2. ASSUME NEW id PROVE [sent EXCEPT ![id] = @ + 1] \in [TaskIds -> Nat]
      <4>1. CASE id \in TaskIds
        BY <1>1, <4>1
      <4>2. CASE id \notin TaskIds
        BY <1>1, <4>2
      <4> QED BY <4>1, <4>2
    <3> QED BY <1>1, <3>1, <3>2
  <2>2. CASE ClaimAnalysisTask(h)
    BY <1>1, <2>2 DEF ClaimAnalysisTask
  <2>3. CASE ReleaseAnalysisTask(h)
    BY <1>1, <2>3 DEF ReleaseAnalysisTask
  <2>4. CASE SaveAnalysisTask(h)
    BY <1>1, <2>4 DEF SaveAnalysisTask
  <2>5. CASE UNCHANGED <<taskRow, sent>>
    BY <1>1, <2>5
  <2> QED BY <1>3, <2>1, <2>2, <2>3, <2>4, <2>5 DEF RunnerStep, TakeAnalyzeJob,
       ReclaimAnalyzeJob, ReportAnalyzed, RetryAnalysis, MarkAnalyzeCallFailed, CheckDuplicate,
       TakeAttempt, MarkAnalysisRunning, ChooseRun, WaitForRow, BeginPipeline,
       ProviderRefuses, SaveProgress,
       CompareRevision, MarkAnalysisDone, CloseAttempt, LeaveSuperseded, LoseRunner
<1> QED BY <1>1, <1>3 DEF StagedNext, stagedVars, CreateAttempt, ResetAnalysisRow,
           EnqueueAnalysisAgain, OpenEdit, MarkAnalysisStale,
           CommitEdit, AbandonEdit
LEMMA JobTyped ==
  ASSUME StagedTypeOK, [StagedNext]_stagedVars
  PROVE  analyzeJob' \in AnalyzeJobs
<1>1. analyzeJob \in AnalyzeJobs /\ analyzeJob.takes \in 0 .. MaxTakes
  BY DEF StagedTypeOK, AnalyzeJobs
<1>2. \A status \in {"pending", "running", "done", "failed"} :
        [analyzeJob EXCEPT !.status = status] \in AnalyzeJobs
  BY <1>1 DEF AnalyzeJobs
<1>3. ASSUME NEW h \in Analyzers, RunnerStep(h) \/ LoseRunner(h)
      PROVE  analyzeJob' \in AnalyzeJobs
  <2>1. CASE TakeAnalyzeJob(h)
    BY <1>1, <2>1, StagedBounds DEF TakeAnalyzeJob, AnalyzeJobs
  <2>2. CASE ReclaimAnalyzeJob(h)
    <3>1. analyzeJob.takes < MaxTakes /\ analyzeJob.takes + 1 \in 0 .. MaxTakes
      BY <1>1, <2>2, StagedBounds DEF ReclaimAnalyzeJob
    <3>2. analyzeJob' = [analyzeJob EXCEPT !.takes = analyzeJob.takes + 1]
      BY <2>2 DEF ReclaimAnalyzeJob
    <3> QED BY <1>1, <3>1, <3>2 DEF AnalyzeJobs
  <2>3. CASE ReportAnalyzed(h) \/ RetryAnalysis(h) \/ MarkAnalyzeCallFailed(h)
    BY <1>2, <2>3 DEF ReportAnalyzed, RetryAnalysis, MarkAnalyzeCallFailed
  <2>4. CASE UNCHANGED analyzeJob
    BY <1>1, <2>4
  <2> QED BY <1>3, <2>1, <2>2, <2>3, <2>4 DEF RunnerStep, CheckDuplicate, TakeAttempt,
       MarkAnalysisRunning, ChooseRun, WaitForRow, BeginPipeline, ClaimAnalysisTask, ReserveStage,
       ReleaseAnalysisTask, ProviderRefuses, SaveAnalysisTask, SaveProgress, CompareRevision,
       MarkAnalysisDone, CloseAttempt, LeaveSuperseded, LoseRunner
<1>4. CASE EnqueueAnalysisAgain
  BY <1>1, <1>4, StagedBounds DEF EnqueueAnalysisAgain, AnalyzeJobs
<1> QED BY <1>1, <1>3, <1>4 DEF StagedNext, stagedVars, CreateAttempt, ResetAnalysisRow,
           OpenEdit, MarkAnalysisStale, CommitEdit, AbandonEdit

LEMMA BudgetTyped ==
  ASSUME StagedTypeOK, [StagedNext]_stagedVars
  PROVE  /\ asking' \in {"no", "reset", "enqueue"}
         /\ mishaps' \in 0 .. MaxMishaps /\ selects' \in 0 .. MaxSelects
<1>1. /\ asking \in {"no", "reset", "enqueue"} /\ mishaps \in 0 .. MaxMishaps
      /\ selects \in 0 .. MaxSelects
  BY DEF StagedTypeOK
<1>2. ASSUME NEW h \in Analyzers, RunnerStep(h) \/ LoseRunner(h)
      PROVE  /\ UNCHANGED <<asking, selects>>
             /\ UNCHANGED mishaps \/ (mishaps > 0 /\ mishaps' = mishaps - 1)
  BY <1>2 DEF RunnerStep, TakeAnalyzeJob, ReclaimAnalyzeJob, ReportAnalyzed, RetryAnalysis,
     MarkAnalyzeCallFailed, CheckDuplicate, TakeAttempt, MarkAnalysisRunning, ChooseRun,
     WaitForRow, BeginPipeline, ClaimAnalysisTask, ReserveStage,
     ReleaseAnalysisTask, ProviderRefuses, SaveAnalysisTask, SaveProgress, CompareRevision, MarkAnalysisDone, CloseAttempt,
     LeaveSuperseded, LoseRunner, budgetVars
<1> QED BY <1>1, <1>2, StagedBounds DEF StagedNext, stagedVars, CreateAttempt, ResetAnalysisRow,
           EnqueueAnalysisAgain, OpenEdit, MarkAnalysisStale,
           CommitEdit, AbandonEdit, budgetVars

LEMMA StagedTyped ==
  ASSUME StagedTypeOK, [StagedNext]_stagedVars
  PROVE  StagedTypeOK'
BY RunnersTyped, TranscriptTyped, EditTyped, AttemptsTyped, TasksTyped, JobTyped, BudgetTyped,
   EveryRowGoes DEF StagedTypeOK, RunnerHand, AttemptRow, RowGoes

LEMMA StagedBegins == ASSUME StagedInit PROVE StagedTypeOK
<1>1. /\ revisions \in Seq(Content) /\ Len(revisions) \in Revision
      /\ activeRevision \in 1 .. Len(revisions)
      /\ editing \in Edits /\ editing.pc = "no"
  BY StagedBounds DEF StagedInit, Revision, NoEdit, Edits
<1>2. analysis \in Analyses
  BY StagedBounds DEF StagedInit, Analyses, CallAnalysisStatus, Complete
<1>3. attempts \in Seq(AttemptRow) /\ Len(attempts) \in 0 .. MaxAsks
  BY StagedBounds DEF StagedInit
<1>4. taskRow \in [TaskIds -> {"none", "claimed", "saved"}] /\ sent \in [TaskIds -> Nat]
  BY DEF StagedInit
<1>5. analyzeJob \in AnalyzeJobs
  BY StagedBounds DEF StagedInit, AnalyzeJobs
<1>6. runner \in [Analyzers -> RunnerHand]
  BY RestingHeld DEF StagedInit
<1>7. /\ asking \in {"no", "reset", "enqueue"}
      /\ mishaps \in 0 .. MaxMishaps /\ selects \in 0 .. MaxSelects
  BY StagedBounds DEF StagedInit
<1> QED BY <1>1, <1>2, <1>3, <1>4, <1>5, <1>6, <1>7 DEF StagedTypeOK, RunnerHand, AttemptRow

-----------------------------------------------------------------------------
(* Tasks *)

(* A task nobody has claimed was not sent; who is about to send one has        *)
(* claimed it himself, and who waits for an answer has sent it.               *)
TasksOwned ==
  \A id \in TaskIds :
    /\ sent[id] <= 1
    /\ taskRow[id] = "none" => sent[id] = 0
    /\ \A h \in Analyzers : At(h, "reserve") /\ TaskOf(h) = id
         => /\ taskRow[id] = "claimed" /\ sent[id] = 0
            /\ \A g \in Analyzers : At(g, "reserve") /\ TaskOf(g) = id => g = h
    /\ \A h \in Analyzers : At(h, "provider") /\ TaskOf(h) = id => sent[id] = 1
(* How a step of one handler can touch the task id. *)
TakesUp(h, id) == /\ taskRow[id] = "none" /\ taskRow'[id] = "claimed" /\ sent'[id] = sent[id]
Sends(h, id) == /\ At(h, "reserve") /\ TaskOf(h) = id
                /\ sent'[id] = sent[id] + 1 /\ taskRow'[id] = taskRow[id]
Releases(h, id) == /\ At(h, "reserve") /\ TaskOf(h) = id
                   /\ sent'[id] = sent[id] /\ taskRow'[id] \in {"none", taskRow[id]}
Saves(h, id) == /\ At(h, "provider") /\ TaskOf(h) = id
                /\ sent'[id] = sent[id] /\ taskRow'[id] = "saved"
Leaves(id) == sent'[id] = sent[id] /\ taskRow'[id] = taskRow[id]

LEMMA TaskTouched ==
  ASSUME StagedTypeOK, NEW h \in Analyzers, RunnerStep(h) \/ LoseRunner(h), NEW id \in TaskIds
  PROVE  \/ TakesUp(h, id) \/ Sends(h, id)
         \/ Releases(h, id) \/ Saves(h, id) \/ Leaves(id)
<1>1. taskRow \in [TaskIds -> {"none", "claimed", "saved"}] /\ sent \in [TaskIds -> Nat]
  BY DEF StagedTypeOK
<1>2. CASE ClaimAnalysisTask(h)
  <2>1. sent' = sent
    BY <1>2 DEF ClaimAnalysisTask
  <2>2. CASE taskRow' = taskRow
    BY <2>1, <2>2 DEF Leaves
  <2>3. CASE taskRow' # taskRow
    <3>1. /\ ClaimOutcome(taskRow[TaskOf(h)]) = "new"
          /\ taskRow' = [taskRow EXCEPT ![TaskOf(h)] = "claimed"]
      BY <1>2, <2>3 DEF ClaimAnalysisTask
    <3>2. CASE TaskOf(h) = id
      <4>1. taskRow[id] \in {"none", "claimed", "saved"}
        BY <1>1
      <4>2. ClaimOutcome(taskRow[id]) = "new"
        BY <3>1, <3>2
      <4>3. taskRow[id] = "none"
        BY <4>1, <4>2 DEF ClaimOutcome
      <4>4. taskRow'[id] = "claimed"
        BY <1>1, <3>1, <3>2
      <4> QED BY <2>1, <4>3, <4>4 DEF TakesUp
    <3>3. CASE TaskOf(h) # id
      BY <1>1, <2>1, <3>1, <3>3 DEF Leaves
    <3> QED BY <3>2, <3>3
  <2> QED BY <2>2, <2>3
<1>3. CASE ReserveStage(h)
  <2>1. /\ sent' = [sent EXCEPT ![TaskOf(h)] = @ + 1] /\ taskRow' = taskRow
        /\ At(h, "reserve")
    BY <1>3 DEF ReserveStage
  <2>2. CASE TaskOf(h) = id
    BY <1>1, <1>3, <2>1, <2>2 DEF Sends
  <2>3. CASE TaskOf(h) # id
    BY <1>1, <2>1, <2>3 DEF Leaves
  <2> QED BY <2>2, <2>3
<1>4. CASE ReleaseAnalysisTask(h)
  <2>1. /\ sent' = sent /\ At(h, "reserve")
        /\ taskRow' = [taskRow EXCEPT ![TaskOf(h)] = IF @ = "claimed" THEN "none" ELSE @]
    BY <1>4 DEF ReleaseAnalysisTask
  <2>2. CASE TaskOf(h) = id
    BY <1>1, <2>1, <2>2 DEF Releases
  <2>3. CASE TaskOf(h) # id
    BY <1>1, <2>1, <2>3 DEF Leaves
  <2> QED BY <2>2, <2>3
<1>5. CASE SaveAnalysisTask(h)
  <2>1. /\ sent' = sent /\ At(h, "provider") /\ taskRow' = [taskRow EXCEPT ![TaskOf(h)] = "saved"]
    BY <1>5 DEF SaveAnalysisTask
  <2>2. CASE TaskOf(h) = id
    BY <1>1, <2>1, <2>2 DEF Saves
  <2>3. CASE TaskOf(h) # id
    BY <1>1, <2>1, <2>3 DEF Leaves
  <2> QED BY <2>2, <2>3
<1>6. CASE UNCHANGED <<taskRow, sent>>
  BY <1>6 DEF Leaves
<1> QED BY <1>2, <1>3, <1>4, <1>5, <1>6 DEF RunnerStep, TakeAnalyzeJob,
     ReclaimAnalyzeJob, ReportAnalyzed, RetryAnalysis, MarkAnalyzeCallFailed, CheckDuplicate,
     TakeAttempt, MarkAnalysisRunning, ChooseRun, WaitForRow, BeginPipeline,
       ProviderRefuses, SaveProgress,
     CompareRevision, MarkAnalysisDone, CloseAttempt, LeaveSuperseded, LoseRunner

LEMMA ReserveSends ==
  ASSUME StagedTypeOK, NEW h \in Analyzers, ReserveStage(h), TaskOf(h) \in TaskIds
  PROVE  Sends(h, TaskOf(h)) /\ sent[TaskOf(h)] \in Nat
BY DEF StagedTypeOK, ReserveStage, Sends

LEMMA ClaimsKept ==
  ASSUME StagedTypeOK, TasksOwned, NEW h \in Analyzers, RunnerStep(h) \/ LoseRunner(h)
  PROVE  TasksOwned'
<1>1. PICK held \in RunnerHand : Goes(h, held)
  BY RunnerGoes
<1>2. runner \in [Analyzers -> RunnerHand]
  BY DEF StagedTypeOK, RunnerHand
<1>3. \A g \in Analyzers : runner'[g] = IF g = h THEN held ELSE runner[g]
  BY <1>1, <1>2 DEF Goes
<1>4. SUFFICES ASSUME NEW id \in TaskIds
               PROVE  /\ sent'[id] <= 1
                      /\ taskRow'[id] = "none" => sent'[id] = 0
                      /\ \A g \in Analyzers : At(g, "reserve")' /\ TaskOf(g)' = id
                           => /\ taskRow'[id] = "claimed" /\ sent'[id] = 0
                              /\ \A f \in Analyzers : At(f, "reserve")' /\ TaskOf(f)' = id => f = g
                      /\ \A g \in Analyzers : At(g, "provider")' /\ TaskOf(g)' = id => sent'[id] = 1
  BY DEF TasksOwned
<1> DEFINE Ready(g) == At(g, "reserve") /\ TaskOf(g) = id
           Waits(g) == At(g, "provider") /\ TaskOf(g) = id
<1>5. /\ sent[id] \in Nat /\ sent[id] <= 1 /\ (taskRow[id] = "none" => sent[id] = 0)
      /\ \A g \in Analyzers : Ready(g) => /\ taskRow[id] = "claimed" /\ sent[id] = 0
                                         /\ \A f \in Analyzers : Ready(f) => f = g
      /\ \A g \in Analyzers : Waits(g) => sent[id] = 1
  BY DEF TasksOwned, StagedTypeOK
<1>6. \A g \in Analyzers : g # h => (Ready(g)' <=> Ready(g)) /\ (Waits(g)' <=> Waits(g))
  BY <1>3 DEF At, TaskOf
<1>7. /\ Ready(h)' => /\ taskRow[id] = "none" /\ taskRow'[id] = "claimed" /\ sent'[id] = sent[id]
      /\ Waits(h)' => Sends(h, id)
  <2>1. Ready(h)' => held.pc = "reserve" /\ held.run = id[1] /\ held.stage = id[2] /\ held.try = id[3]
    BY <1>3 DEF At, TaskOf
  <2>2. Waits(h)' => held.pc = "provider" /\ held.run = id[1] /\ held.stage = id[2] /\ held.try = id[3]
    BY <1>3 DEF At, TaskOf
  <2>3. id = <<id[1], id[2], id[3]>>
    BY DEF TaskIds
  <2>4. SameTask(held, h) /\ held.run = id[1] /\ held.stage = id[2] /\ held.try = id[3]
          => TaskOf(h) = id
    BY <2>3 DEF SameTask, TaskOf
  <2>5. taskRow \in [TaskIds -> {"none", "claimed", "saved"}]
    BY DEF StagedTypeOK
  <2>6. Ready(h)' => /\ TaskOf(h) = id /\ taskRow[id] = "none" /\ sent' = sent
                     /\ taskRow' = [taskRow EXCEPT ![id] = "claimed"]
    BY <1>1, <2>1, <2>4 DEF Goes
  <2>7. Waits(h)' => Sends(h, id)
    BY <1>1, <2>2, <2>4, ReserveSends DEF Goes
  <2> QED BY <2>5, <2>6, <2>7
<1>8. Ready(h) <=> At(h, "reserve") /\ TaskOf(h) = id
  OBVIOUS
<1>9. Waits(h) <=> At(h, "provider") /\ TaskOf(h) = id
  OBVIOUS
<1>10. Waits(h)' => At(h, "reserve") /\ sent'[id] = sent[id] + 1
  BY <1>7 DEF Sends
<1>11. At(h, "reserve") => ~At(h, "provider")
  BY DEF At
<1> SUFFICES /\ sent'[id] <= 1
             /\ taskRow'[id] = "none" => sent'[id] = 0
             /\ \A g \in Analyzers : Ready(g)'
                  => /\ taskRow'[id] = "claimed" /\ sent'[id] = 0
                     /\ \A f \in Analyzers : Ready(f)' => f = g
             /\ \A g \in Analyzers : Waits(g)' => sent'[id] = 1
  OBVIOUS
<1> HIDE DEF Ready, Waits
<1>12. CASE TakesUp(h, id)
  BY <1>5, <1>6, <1>7, <1>8, <1>10, <1>12 DEF TakesUp
<1>13. CASE Sends(h, id)
  BY <1>5, <1>6, <1>7, <1>8, <1>13 DEF Sends
<1>14. CASE Releases(h, id)
  BY <1>5, <1>6, <1>7, <1>8, <1>10, <1>14 DEF Releases
<1>15. CASE Saves(h, id)
  BY <1>5, <1>6, <1>7, <1>9, <1>10, <1>11, <1>15 DEF Saves
<1>16. CASE Leaves(id)
  BY <1>5, <1>6, <1>7, <1>8, <1>10, <1>16 DEF Leaves
<1> QED BY <1>12, <1>13, <1>14, <1>15, <1>16, TaskTouched
-----------------------------------------------------------------------------
(* Words *)

(* Only an edit that is committed changes what is shown.                      *)
LEMMA ShownChanges ==
  ASSUME [StagedNext]_stagedVars, ~CommitEdit
  PROVE  UNCHANGED <<revisions, activeRevision>>
<1>1. ASSUME NEW h \in Analyzers, RunnerStep(h) \/ LoseRunner(h)
      PROVE  UNCHANGED <<revisions, activeRevision>>
  BY <1>1 DEF RunnerStep, TakeAnalyzeJob, ReclaimAnalyzeJob, ReportAnalyzed, RetryAnalysis,
     MarkAnalyzeCallFailed, CheckDuplicate, TakeAttempt, MarkAnalysisRunning, ChooseRun,
     WaitForRow, BeginPipeline, ClaimAnalysisTask, ReserveStage, ReleaseAnalysisTask,
     ProviderRefuses, SaveAnalysisTask, SaveProgress, CompareRevision, MarkAnalysisDone,
     CloseAttempt, LeaveSuperseded, LoseRunner, transcriptVars
<1> QED BY <1>1 DEF StagedNext, stagedVars, transcriptVars, CreateAttempt, ResetAnalysisRow,
           EnqueueAnalysisAgain, OpenEdit, MarkAnalysisStale, AbandonEdit

(* The edit that commits either marks the analysis, shows the same words, or  *)
(* could not see it finished.                                                 *)
LEMMA CommitGoes ==
  ASSUME StagedTypeOK, CommitEdit, DoneMatchesText, ~DoneMatchesText'
  PROVE  UnseenEditEnds
<1>1. analysis \in Analyses /\ editing \in Edits /\ Len(revisions) \in Nat
  BY DEF StagedTypeOK
<1>2. ~RowLocked
  <2>1. ASSUME RowLocked PROVE analysis'.status = "stale"
    BY <1>1, <2>1, AnalysisWritten DEF CommitEdit, CallAnalysisStatus
  <2> QED BY <2>1 DEF DoneMatchesText
<1>3. editing.pc = "open" /\ ~NeedsMark /\ analysis' = analysis /\ editing'.pc = "no"
  BY <1>2 DEF CommitEdit, NoEdit
<1>4. CASE editing.finished
  <2>1. /\ editing.target \in DOMAIN revisions
        /\ TextOf(editing.target) = TextOf(activeRevision)
    BY <1>3, <1>4 DEF NeedsMark, TextOf
  <2>2. revisions' = revisions /\ activeRevision' = editing.target
    <3>1. DOMAIN revisions = 1 .. Len(revisions)
      BY DEF StagedTypeOK
    <3> QED BY <1>1, <2>1, <3>1 DEF CommitEdit
  <2> QED BY <1>3, <2>1, <2>2 DEF DoneMatchesText, TextOf
<1> QED BY <1>3, <1>4 DEF UnseenEditEnds

LEMMA WordsStep ==
  ASSUME StagedTypeOK, [StagedNext]_stagedVars, DoneMatchesText, ~DoneMatchesText'
  PROVE  UnseenEditEnds \/ WaitEnds
<1>1. CASE CommitEdit
  BY <1>1, CommitGoes
<1>2. CASE ~CommitEdit
  BY <1>2, ShownChanges, EveryRowGoes DEF RowGoes, DoneMatchesText, TextOf
<1> QED BY <1>1, <1>2

-----------------------------------------------------------------------------
(* The theorems *)

StagedInv == StagedTypeOK /\ TasksOwned

LEMMA StagedStep ==
  ASSUME StagedInv, [StagedNext]_stagedVars PROVE StagedInv'
<1>1. TasksOwned'
  <2>1. CASE \E h \in Analyzers : RunnerStep(h) \/ LoseRunner(h)
    BY <2>1, ClaimsKept DEF StagedInv
  <2>2. CASE UNCHANGED <<taskRow, sent, runner>>
    BY <2>2 DEF StagedInv, TasksOwned, At, TaskOf
  <2> QED BY <2>1, <2>2 DEF StagedNext, stagedVars, CreateAttempt, ResetAnalysisRow,
             EnqueueAnalysisAgain, OpenEdit, MarkAnalysisStale,
           CommitEdit, AbandonEdit
<1> QED BY <1>1, StagedTyped DEF StagedInv

LEMMA StagedInvariant == StagedSpec => []StagedInv
<1>1. StagedInit => StagedInv
  <2>1. ASSUME StagedInit PROVE TasksOwned
    <3>1. \A h \in Analyzers : ~At(h, "reserve") /\ ~At(h, "provider")
      BY <2>1, RestingHeld DEF StagedInit, At
    <3> QED BY <2>1, <3>1 DEF StagedInit, TasksOwned
  <2> QED BY <2>1, StagedBegins DEF StagedInv
<1>2. StagedInv /\ [StagedNext]_stagedVars => StagedInv'
  BY StagedStep
<1> QED BY <1>1, <1>2, PTL DEF StagedSpec

(* Everything the stages write has its type: a task has a request of the run, *)
(* an attempt a revision there is, a result no more than all its stages.      *)
THEOREM StagesTyped == StagedSpec => []StagedTypeOK
<1>1. StagedInv => StagedTypeOK
  BY DEF StagedInv
<1> QED BY <1>1, StagedInvariant, PTL

(* A task is asked of the provider at most once, whatever is lost, reclaimed  *)
(* or tried again (progress.go:51-53).                                        *)
THEOREM TasksSentOnce == StagedSpec => []TaskSentOnce
<1>1. StagedInv => TaskSentOnce
  BY DEF StagedInv, TasksOwned, TaskSentOnce
<1> QED BY <1>1, StagedInvariant, PTL

(* A finished analysis of the words shown comes to be of others only when an  *)
(* edit is committed that opened before the analysis was finished, or when a  *)
(* statement goes on that had waited for an edit: whoever else edits, selects,*)
(* asks again or is late (update_status.go:39, service.go:165, 241, 424).     *)
THEOREM DoneIsOfShownWords == StagedSpec => WordsLostOnlyOvertaken
<1>1. StagedInv /\ [StagedNext]_stagedVars
        => [DoneMatchesText /\ ~DoneMatchesText' => UnseenEditEnds \/ WaitEnds]_stagedVars
  BY WordsStep DEF StagedInv
<1> QED BY <1>1, StagedInvariant, PTL DEF StagedSpec, WordsLostOnlyOvertaken

(* No step of a handler takes back what is published of a run                 *)
(* (progress.go:35-38, 16-18).                                                *)
THEOREM ProgressIsKept == StagedSpec => ProgressKept
<1>1. StagedInv /\ [StagedNext]_stagedVars
        => [analysis'.run = analysis.run => analysis'.progress >= analysis.progress]_stagedVars
  BY EveryRowGoes DEF StagedInv, RowGoes
<1> QED BY <1>1, StagedInvariant, PTL DEF StagedSpec, ProgressKept

-----------------------------------------------------------------------------
ChatMessage == [role : {"user", "assistant"}, run : ChatRuns, sources : BOOLEAN]
RecoverySteps == {"idle", "search", "reserve", "mark", "generate", "settle", "save", "fail"}
Taken == [pc : RecoverySteps, run : ChatRuns, sources : BOOLEAN]

ChatShapes ==
  /\ runState \in [ChatRuns -> ActiveStates \cup {"none", "completed", "failed"}]
  /\ runOp \in [ChatRuns -> Unsettled \cup {"none", "settled"}]
  /\ messages \in Seq(ChatMessage)
  /\ recovering \in [Assistants -> Taken]

(* The question of a run that is active is the last message.                  *)
QuestionIsLast ==
  \A r \in ChatRuns : Underway(r) =>
    Len(messages) > 0 /\ messages[Len(messages)] = Question(r)

(* The process has an active run in hand, and has settled what it saves.      *)
HandsRight ==
  \A p \in Assistants :
    /\ recovering[p].pc # "idle" => Underway(recovering[p].run)
    /\ recovering[p].pc = "save" /\ recovering[p].sources
         => runOp[recovering[p].run] = "settled"

AnswerInv == ChatShapes /\ QuestionIsLast /\ HandsRight /\ AnswersInTurn

(* One process, as deploy/docker-compose.yaml starts one.                     *)
OneProcess == \A p, q \in Assistants : p = q

LEMMA AnswerBegins == ASSUME AssistantInit PROVE AnswerInv
<1>1. ChatShapes
  BY AssistantAssumption
     DEF AssistantInit, ChatShapes, Taken, NoneTaken, RecoverySteps, ChatRuns
<1>2. QuestionIsLast /\ HandsRight /\ AnswersInTurn
  BY DEF AssistantInit, QuestionIsLast, HandsRight, AnswersInTurn, Underway, ActiveStates,
     NoneTaken
<1> QED BY <1>1, <1>2 DEF AnswerInv

(* An operation that is settled stays so, in every step.                      *)
LEMMA SettledStays ==
  ASSUME ChatShapes, [AssistantNext]_assistantVars, NEW q \in ChatRuns, runOp[q] = "settled"
  PROVE  runOp'[q] = "settled"
<1>1. ASSUME NEW r \in ChatRuns, NEW status, Operation(r, status),
             r # q \/ status = "settled"
      PROVE  runOp'[q] = "settled"
  BY <1>1 DEF Operation, ChatShapes
<1>2. ASSUME NEW p \in Assistants,
             \/ ReserveGeneration(p) \/ MarkGeneration(p) \/ Generate(p) \/ SettleGeneration(p)
      PROVE  runOp'[q] = "settled"
  <2>1. recovering[p].run \in ChatRuns
    BY DEF ChatShapes, Taken
  <2>2. ASSUME Doubt(recovering[p].run) PROVE runOp'[q] = "settled"
    BY <1>1, <2>1, <2>2 DEF Doubt, Unsettled
  <2>3. CASE ReserveGeneration(p)
    BY <1>1, <2>1, <2>3 DEF ReserveGeneration
  <2>4. CASE MarkGeneration(p)
    BY <1>1, <2>1, <2>4 DEF MarkGeneration, Unsettled
  <2>5. CASE Generate(p)
    BY <2>2, <2>5 DEF Generate
  <2>6. CASE SettleGeneration(p)
    BY <1>1, <2>1, <2>2, <2>6 DEF SettleGeneration
  <2> QED BY <1>2, <2>3, <2>4, <2>5, <2>6
<1>3. ASSUME NEW r \in ChatRuns, ReconcileRun(r) PROVE runOp'[q] = "settled"
  BY <1>1, <1>3 DEF ReconcileRun
<1>4. ASSUME \/ UNCHANGED runOp
             \/ \E p \in Assistants :
                  \/ \E r \in ChatRuns : ClaimRun(p, r)
                  \/ SearchContent(p) \/ SaveAnswer(p) \/ GiveUpRun(p) \/ FailRun(p) \/ LeaveRun(p)
             \/ \E r \in ChatRuns : CreateMessage(r) \/ TwoMinutesPass(r)
             \/ DeleteChat
      PROVE  runOp'[q] = "settled"
  BY <1>4 DEF ClaimRun, SearchContent, SaveAnswer, GiveUpRun, FailRun, LeaveRun,
     CreateMessage, TwoMinutesPass, DeleteChat
<1> QED BY <1>2, <1>3, <1>4 DEF AssistantNext, assistantVars

(* What a step that adds no message has to keep.                              *)
LEMMA TurnsKept ==
  ASSUME ChatShapes, AnswersInTurn, [AssistantNext]_assistantVars, UNCHANGED messages
  PROVE  AnswersInTurn'
<1>1. \A i \in DOMAIN messages : messages[i].run \in ChatRuns
  <2>1. \A i \in DOMAIN messages : messages[i] \in ChatMessage
    BY DEF ChatShapes
  <2> QED BY <2>1 DEF ChatMessage
<1> QED BY <1>1, SettledStays DEF AnswersInTurn, Question

(* The process goes on with the run it has in hand.                           *)
LEMMA ThenKeeps ==
  ASSUME ChatShapes, NEW p \in Assistants, NEW pc \in RecoverySteps, Then(p, pc)
  PROVE  /\ recovering' \in [Assistants -> Taken]
         /\ recovering'[p].pc = pc
         /\ recovering'[p].run = recovering[p].run
         /\ recovering'[p].sources = recovering[p].sources
<1>1. recovering[p] \in Taken
  BY DEF ChatShapes
<1>2. PICK t : t = [recovering[p] EXCEPT !.pc = pc]
  OBVIOUS
<1>3. t \in Taken /\ t.pc = pc /\ t.run = recovering[p].run /\ t.sources = recovering[p].sources
  BY <1>1, <1>2 DEF Taken
<1>4. recovering' = [recovering EXCEPT ![p] = t]
  BY <1>2 DEF Then, ChatShapes
<1> QED BY <1>3, <1>4 DEF ChatShapes

(* A step of the process that holds a run and writes no state.                *)
LEMMA PayingKeeps ==
  ASSUME AnswerInv, OneProcess, NEW p \in Assistants,
         \/ ReserveGeneration(p) \/ MarkGeneration(p) \/ Generate(p) \/ SettleGeneration(p)
         \/ GiveUpRun(p) \/ LeaveRun(p)
  PROVE  AnswerInv'
<1> DEFINE r == recovering[p].run
<1>0. r \in ChatRuns
  BY DEF AnswerInv, ChatShapes, Taken
<1>1. UNCHANGED <<runState, messages>> /\ recovering[p].pc # "idle"
  BY DEF ReserveGeneration, MarkGeneration, Generate, SettleGeneration, GiveUpRun, LeaveRun
<1>2. PICK pc \in RecoverySteps : Then(p, pc) /\ (pc = "save" => runOp'[r] = "settled")
  <2>1. ASSUME Operation(r, "settled") PROVE runOp'[r] = "settled"
    BY <1>0, <2>1 DEF Operation, AnswerInv, ChatShapes
  <2> QED BY <2>1 DEF ReserveGeneration, MarkGeneration, Generate, SettleGeneration, GiveUpRun,
     LeaveRun, RecoverySteps
<1>3. runOp' \in [ChatRuns -> Unsettled \cup {"none", "settled"}]
  <2>1. ASSUME NEW status \in Unsettled \cup {"none", "settled"}, Operation(r, status)
        PROVE  runOp' \in [ChatRuns -> Unsettled \cup {"none", "settled"}]
    BY <2>1 DEF Operation, AnswerInv, ChatShapes
  <2>2. UNCHANGED runOp \/ \E status \in Unsettled \cup {"settled"} : Operation(r, status)
    <3>1. CASE ReserveGeneration(p)
      BY <3>1 DEF ReserveGeneration, Unsettled
    <3>2. CASE MarkGeneration(p)
      BY <3>2 DEF MarkGeneration, Unsettled
    <3>3. CASE Generate(p) \/ SettleGeneration(p)
      BY <3>3 DEF Generate, SettleGeneration, Doubt, Unsettled
    <3>4. CASE GiveUpRun(p) \/ LeaveRun(p)
      BY <3>4 DEF GiveUpRun, LeaveRun
    <3> QED BY <3>1, <3>2, <3>3, <3>4
  <2> QED BY <2>1, <2>2 DEF AnswerInv, ChatShapes
<1>4. ChatShapes'
  BY <1>1, <1>2, <1>3, ThenKeeps DEF AnswerInv, ChatShapes
<1>5. HandsRight'
  <2>1. \A q \in Assistants : q = p
    BY DEF OneProcess
  <2>2. /\ recovering'[p].pc = pc /\ recovering'[p].run = r
    BY <1>2, ThenKeeps DEF AnswerInv
  <2>3. runState'[r] \in ActiveStates
    BY <1>1 DEF AnswerInv, HandsRight, Underway
  <2> QED BY <1>2, <2>1, <2>2, <2>3 DEF HandsRight, Underway
<1>6. QuestionIsLast'
  BY <1>1 DEF AnswerInv, QuestionIsLast, Underway
<1>7. AnswersInTurn'
  BY <1>1, TurnsKept DEF AnswerInv, AssistantNext
<1> QED BY <1>4, <1>5, <1>6, <1>7 DEF AnswerInv

(* A run is taken, and searched for.                                          *)
LEMMA TakingKeeps ==
  ASSUME AnswerInv, OneProcess, NEW p \in Assistants,
         (\E r \in ChatRuns : ClaimRun(p, r)) \/ SearchContent(p)
  PROVE  AnswerInv'
<1>1. PICK t \in Taken, state \in ActiveStates :
        /\ recovering' = [recovering EXCEPT ![p] = t]
        /\ Underway(t.run)
        /\ runState' = [runState EXCEPT ![t.run] = state] \/ UNCHANGED runState
        /\ t.pc = "save" => ~ t.sources
        /\ UNCHANGED <<runOp, messages>>
  <2>1. ASSUME NEW r \in ChatRuns, ClaimRun(p, r)
        PROVE  /\ Underway(r)
               /\ runState' = [runState EXCEPT ![r] = "retrieving"]
               /\ UNCHANGED <<runOp, messages>>
               /\ \E t \in Taken : /\ recovering' = [recovering EXCEPT ![p] = t]
                                   /\ t.run = r /\ t.pc = "search"
    <3>1. PICK t : t = [NoneTaken EXCEPT !.pc = "search", !.run = r]
      OBVIOUS
    <3>2. t \in Taken /\ t.run = r /\ t.pc = "search"
      BY <3>1 DEF NoneTaken, Taken, RecoverySteps
    <3> QED BY <2>1, <3>1, <3>2 DEF ClaimRun, Recoverable, Underway, ActiveStates, Writes
  <2>2. ASSUME SearchContent(p)
        PROVE  /\ Underway(recovering[p].run)
               /\ \/ runState' = [runState EXCEPT ![recovering[p].run] = "generating"]
                  \/ UNCHANGED runState
               /\ UNCHANGED <<runOp, messages>>
               /\ \E t \in Taken : /\ recovering' = [recovering EXCEPT ![p] = t]
                                   /\ t.run = recovering[p].run
                                   /\ t.pc = "save" => ~ t.sources
    <3>1. PICK found \in BOOLEAN :
            recovering' = [recovering EXCEPT ![p].sources = found,
                                             ![p].pc = IF found THEN "reserve" ELSE "save"]
      BY <2>2 DEF SearchContent
    <3>2. recovering[p] \in Taken /\ recovering \in [Assistants -> Taken]
      BY DEF AnswerInv, ChatShapes
    <3>3. PICK t : t = [recovering[p] EXCEPT !.sources = found,
                                            !.pc = IF found THEN "reserve" ELSE "save"]
      OBVIOUS
    <3>4. t \in Taken /\ t.run = recovering[p].run /\ (t.pc = "save" => ~ t.sources)
      BY ONLY <3>2, <3>3, found \in BOOLEAN DEF Taken, RecoverySteps
    <3>5. recovering' = [recovering EXCEPT ![p] = t]
      BY ONLY <3>1, <3>2, <3>3, p \in Assistants
    <3> QED BY <2>2, <3>4, <3>5 DEF SearchContent, Writes, AnswerInv, HandsRight
  <2>3. {"retrieving", "generating"} \subseteq ActiveStates
    BY DEF ActiveStates
  <2>4. CASE SearchContent(p)
    BY <2>2, <2>3, <2>4
  <2>5. CASE \E r \in ChatRuns : ClaimRun(p, r)
    <3>1. PICK r \in ChatRuns : ClaimRun(p, r)
      BY <2>5
    <3>2. PICK t \in Taken : /\ recovering' = [recovering EXCEPT ![p] = t]
                             /\ t.run = r /\ t.pc = "search"
      BY <2>1, <3>1
    <3> QED BY <2>1, <2>3, <3>1, <3>2
  <2> QED BY <2>4, <2>5
<1>2. t.run \in ChatRuns /\ \A q \in Assistants : q = p
  BY DEF Taken, OneProcess
<1>3. ChatShapes' /\ recovering'[p] = t
  BY <1>1, <1>2 DEF AnswerInv, ChatShapes
<1>4. \A r \in ChatRuns : Underway(r)' <=> Underway(r)
  BY <1>1, <1>2 DEF AnswerInv, ChatShapes, Underway
<1>5. HandsRight'
  BY <1>1, <1>2, <1>3, <1>4 DEF HandsRight
<1>6. QuestionIsLast'
  BY <1>1, <1>4 DEF AnswerInv, QuestionIsLast
<1>7. AnswersInTurn'
  BY <1>1, TurnsKept DEF AnswerInv, AssistantNext
<1> QED BY <1>3, <1>5, <1>6, <1>7 DEF AnswerInv

(* A run ends, with an answer or without.                                     *)
LEMMA EndingKeeps ==
  ASSUME AnswerInv, OneProcess, NEW p \in Assistants, SaveAnswer(p) \/ FailRun(p)
  PROVE  AnswerInv'
<1> DEFINE r == recovering[p].run
           answer == AnswerTo(r, recovering[p].sources)
<1>0. r \in ChatRuns /\ recovering[p].sources \in BOOLEAN /\ \A q \in Assistants : q = p
  BY DEF AnswerInv, ChatShapes, Taken, OneProcess
<1>1. /\ Underway(r) /\ Then(p, "idle") /\ UNCHANGED runOp
      /\ \E state \in {"completed", "failed"} : runState' = [runState EXCEPT ![r] = state]
  BY DEF SaveAnswer, FailRun, AnswerInv, HandsRight, Writes, Underway, ActiveStates
<1>2. /\ Len(messages) > 0 /\ messages[Len(messages)] = Question(r)
      /\ \A x \in ChatRuns : Underway(x) => x = r
  <2>1. \A x \in ChatRuns : Question(x) = Question(r) => x = r
    BY DEF Question
  <2> QED BY <1>0, <1>1, <2>1 DEF AnswerInv, QuestionIsLast
<1>3. \A x \in ChatRuns : ~ Underway(x)'
  BY <1>0, <1>1, <1>2 DEF AnswerInv, ChatShapes, Underway, ActiveStates
<1>4. answer \in ChatMessage
  BY <1>0 DEF AnswerTo, ChatMessage
<1>5. messages' = messages \/ (SaveAnswer(p) /\ messages' = Append(messages, answer))
  BY DEF SaveAnswer, FailRun
<1>6. ChatShapes' /\ recovering'[p].pc = "idle"
  <2>1. recovering' \in [Assistants -> Taken] /\ recovering'[p].pc = "idle"
    BY <1>1, ThenKeeps DEF AnswerInv, RecoverySteps
  <2> HIDE DEF answer
  <2>2. messages' \in Seq(ChatMessage)
    BY <1>4, <1>5 DEF AnswerInv, ChatShapes
  <2> QED BY <1>0, <1>1, <2>1, <2>2 DEF AnswerInv, ChatShapes
<1>7. HandsRight' /\ QuestionIsLast'
  BY <1>0, <1>3, <1>6 DEF HandsRight, QuestionIsLast
<1>8. AnswersInTurn'
  <2>1. CASE messages' = messages
    BY <2>1, TurnsKept DEF AnswerInv, AssistantNext
  <2>2. CASE SaveAnswer(p) /\ messages' = Append(messages, answer)
    <3>1. answer.run = r /\ answer.sources = recovering[p].sources
      BY DEF AnswerTo
    <3>2. recovering[p].sources => runOp[r] = "settled"
      BY <2>2 DEF SaveAnswer, AnswerInv, HandsRight
    <3> HIDE DEF answer
    <3>3. messages \in Seq(ChatMessage) /\ Len(messages) \in Nat
      BY DEF AnswerInv, ChatShapes
    <3>4. /\ DOMAIN messages' = 1 .. Len(messages) + 1
          /\ messages'[Len(messages) + 1] = answer
          /\ \A i \in 1 .. Len(messages) : messages'[i] = messages[i]
      BY <1>4, <2>2, <3>3
    <3>5. ASSUME NEW i \in 1 .. Len(messages), messages[i].role = "assistant"
          PROVE  /\ i > 1 /\ messages'[i - 1] = Question(messages[i].run)
                 /\ messages[i].sources => runOp'[messages[i].run] = "settled"
      <4>1. i > 1 /\ messages[i - 1] = Question(messages[i].run)
        BY <3>3, <3>5 DEF AnswerInv, AnswersInTurn
      <4>2. messages[i].sources => runOp[messages[i].run] = "settled"
        BY <3>3, <3>5 DEF AnswerInv, AnswersInTurn
      <4>3. i - 1 \in 1 .. Len(messages)
        BY <3>3, <4>1
      <4> QED BY <1>1, <3>4, <4>1, <4>2, <4>3
    <3>6. /\ Len(messages) + 1 > 1
          /\ messages'[Len(messages) + 1 - 1] = Question(r)
      BY <1>2, <3>3, <3>4
    <3>7. \A i \in DOMAIN messages' : i \in 1 .. Len(messages) \/ i = Len(messages) + 1
      BY <3>3, <3>4
    <3>8. /\ messages'[Len(messages) + 1].run = r
          /\ messages'[Len(messages) + 1].sources => runOp'[r] = "settled"
      BY <1>1, <3>1, <3>2, <3>4
    <3>9. ASSUME NEW i \in DOMAIN messages', messages'[i].role = "assistant"
          PROVE  /\ i > 1 /\ messages'[i - 1] = Question(messages'[i].run)
                 /\ messages'[i].sources => runOp'[messages'[i].run] = "settled"
      <4>1. CASE i \in 1 .. Len(messages)
        BY <3>4, <3>5, <3>9, <4>1
      <4>2. CASE i = Len(messages) + 1
        BY <3>6, <3>8, <4>2
      <4> QED BY <3>7, <4>1, <4>2
    <3> QED BY <3>9 DEF AnswersInTurn, Question
  <2> QED BY <1>5, <2>1, <2>2
<1> QED BY <1>6, <1>7, <1>8 DEF AnswerInv

(* A question is asked when nothing is underway.                              *)
LEMMA AskingKeeps ==
  ASSUME AnswerInv, NEW r \in ChatRuns, CreateMessage(r)
  PROVE  AnswerInv'
<1>1. /\ messages' = Append(messages, Question(r)) /\ UNCHANGED <<runOp, recovering>>
      /\ runState' = [runState EXCEPT ![r] = "queued"] /\ \A x \in ChatRuns : ~ Underway(x)
  BY DEF CreateMessage, ChatBusy
<1>2. Question(r) \in ChatMessage /\ Question(r).role = "user"
  BY DEF Question, ChatMessage
<1>3. messages \in Seq(ChatMessage) /\ Len(messages) \in Nat
  BY DEF AnswerInv, ChatShapes
<1>4. /\ messages' \in Seq(ChatMessage) /\ DOMAIN messages' = 1 .. Len(messages) + 1
      /\ Len(messages') = Len(messages) + 1
      /\ messages'[Len(messages) + 1] = Question(r)
      /\ \A i \in 1 .. Len(messages) : messages'[i] = messages[i]
  BY <1>1, <1>2, <1>3
<1>5. ChatShapes'
  BY <1>1, <1>4 DEF AnswerInv, ChatShapes, ActiveStates
<1>6. QuestionIsLast'
  BY <1>1, <1>3, <1>4 DEF AnswerInv, ChatShapes, QuestionIsLast, Underway
<1>7. HandsRight'
  <2>1. \A p \in Assistants : recovering[p].pc = "idle"
    BY <1>1 DEF AnswerInv, HandsRight, ChatShapes, Taken
  <2> QED BY <1>1, <2>1 DEF HandsRight
<1>8. AnswersInTurn'
  <2>1. ASSUME NEW i \in 1 .. Len(messages), messages[i].role = "assistant"
        PROVE  /\ i > 1 /\ messages'[i - 1] = Question(messages[i].run)
               /\ messages[i].sources => runOp'[messages[i].run] = "settled"
    <3>1. i > 1 /\ messages[i - 1] = Question(messages[i].run)
      BY <1>3, <2>1 DEF AnswerInv, AnswersInTurn
    <3>2. messages[i].sources => runOp[messages[i].run] = "settled"
      BY <1>3, <2>1 DEF AnswerInv, AnswersInTurn
    <3>3. i - 1 \in 1 .. Len(messages)
      BY <1>3, <3>1
    <3> QED BY <1>1, <1>4, <3>1, <3>2, <3>3
  <2>2. \A i \in DOMAIN messages' : i \in 1 .. Len(messages) \/ i = Len(messages) + 1
    BY <1>3, <1>4
  <2> QED BY <1>2, <1>4, <2>1, <2>2 DEF AnswersInTurn
<1> QED BY <1>5, <1>6, <1>7, <1>8 DEF AnswerInv

(* Time passes, the ledger gives up a reservation, the chat goes.             *)
LEMMA AsideKeeps ==
  ASSUME AnswerInv,
         \/ UNCHANGED assistantVars \/ DeleteChat
         \/ \E r \in ChatRuns : TwoMinutesPass(r) \/ ReconcileRun(r)
  PROVE  AnswerInv'
<1>1. UNCHANGED <<runState, messages, recovering>>
  BY DEF assistantVars, DeleteChat, TwoMinutesPass, ReconcileRun
<1>2. runOp' \in [ChatRuns -> Unsettled \cup {"none", "settled"}]
  <2>1. ASSUME NEW r \in ChatRuns, ReconcileRun(r)
        PROVE  runOp' \in [ChatRuns -> Unsettled \cup {"none", "settled"}]
    <3>1. PICK status \in {"settled", "reconciling"} : runOp' = [runOp EXCEPT ![r] = status]
      BY <2>1 DEF ReconcileRun, Operation
    <3> QED BY <3>1 DEF AnswerInv, ChatShapes, Unsettled
  <2>2. ASSUME UNCHANGED runOp
        PROVE  runOp' \in [ChatRuns -> Unsettled \cup {"none", "settled"}]
    BY <2>2 DEF AnswerInv, ChatShapes
  <2> QED BY <2>1, <2>2 DEF assistantVars, DeleteChat, TwoMinutesPass
<1>3. [AssistantNext]_assistantVars
  BY DEF AssistantNext
<1>4. ChatShapes' /\ QuestionIsLast'
  BY <1>1, <1>2 DEF AnswerInv, ChatShapes, QuestionIsLast, Underway
<1>5. HandsRight'
  <2>1. \A p \in Assistants : recovering[p].run \in ChatRuns
    BY DEF AnswerInv, ChatShapes, Taken
  <2> QED BY <1>1, <1>3, <2>1, SettledStays DEF AnswerInv, HandsRight, Underway
<1>6. AnswersInTurn'
  BY <1>1, <1>3, TurnsKept DEF AnswerInv
<1> QED BY <1>4, <1>5, <1>6 DEF AnswerInv

LEMMA AnswerStep ==
  ASSUME OneProcess, AnswerInv, [AssistantNext]_assistantVars
  PROVE  AnswerInv'
BY PayingKeeps, TakingKeeps, EndingKeeps, AskingKeeps, AsideKeeps DEF AssistantNext

(* However often the one process dies and a run is taken up again, an answer  *)
(* stands directly under its question, once, and what was paid for it is      *)
(* settled (service.go:58-60, 763-770, 883-889, 1003).                        *)
THEOREM AnswersStandInTurn ==
  ASSUME OneProcess
  PROVE  AssistantSpec => []AnswersInTurn
<1>1. AssistantInit => AnswerInv
  BY AnswerBegins
<1>2. AnswerInv /\ [AssistantNext]_assistantVars => AnswerInv'
  BY AnswerStep
<1>3. AnswerInv => AnswersInTurn
  BY DEF AnswerInv
<1> QED BY <1>1, <1>2, <1>3, PTL DEF AssistantSpec

-----------------------------------------------------------------------------
(* However many processes take the runs of a chat.                            *)
ChatTyped == ChatShapes /\ agedRuns \subseteq ChatRuns /\ chatDeleted \in BOOLEAN

(* A process goes on, and writes the run it has in hand as it may.            *)
LEMMA RunWritten ==
  ASSUME ChatShapes, NEW r \in ChatRuns,
         NEW state \in ActiveStates \cup {"none", "completed", "failed"},
         NEW status \in Unsettled \cup {"none", "settled"}
  PROVE  /\ Writes(r, state) =>
              runState' \in [ChatRuns -> ActiveStates \cup {"none", "completed", "failed"}]
         /\ Operation(r, status) => runOp' \in [ChatRuns -> Unsettled \cup {"none", "settled"}]
BY DEF ChatShapes, Writes, Operation

LEMMA ChatStep == ASSUME ChatTyped, [AssistantNext]_assistantVars PROVE ChatTyped'
<1> DEFINE RunStates == [ChatRuns -> ActiveStates \cup {"none", "completed", "failed"}]
           OpStates == [ChatRuns -> Unsettled \cup {"none", "settled"}]
<1>0. ChatShapes /\ runState \in RunStates /\ runOp \in OpStates
  BY DEF ChatTyped, ChatShapes
<1>1. ASSUME NEW p \in Assistants, NEW r \in ChatRuns, ClaimRun(p, r) PROVE ChatTyped'
  <2>1. runState' \in RunStates
    BY <1>0, <1>1, RunWritten DEF ClaimRun, ActiveStates
  <2>2. [NoneTaken EXCEPT !.pc = "search", !.run = r] \in Taken
    BY DEF NoneTaken, Taken, RecoverySteps
  <2>3. recovering' \in [Assistants -> Taken]
    BY <1>0, <1>1, <2>2 DEF ClaimRun, ChatShapes
  <2> QED BY <1>1, <2>1, <2>3 DEF ClaimRun, ChatTyped, ChatShapes
<1>2. ASSUME NEW p \in Assistants, SearchContent(p) PROVE ChatTyped'
  <2>1. recovering[p] \in Taken /\ recovering[p].run \in ChatRuns
    BY <1>0 DEF ChatShapes, Taken
  <2>2. runState' \in RunStates
    BY <1>0, <1>2, <2>1, RunWritten DEF SearchContent, ActiveStates
  <2>3. PICK found \in BOOLEAN :
          recovering' = [recovering EXCEPT ![p].sources = found,
                                           ![p].pc = IF found THEN "reserve" ELSE "save"]
    BY <1>2 DEF SearchContent
  <2>4. PICK t : t = [recovering[p] EXCEPT !.sources = found,
                                          !.pc = IF found THEN "reserve" ELSE "save"]
    OBVIOUS
  <2>5. t \in Taken
    BY ONLY <2>1, <2>4, found \in BOOLEAN DEF Taken, RecoverySteps
  <2>6. recovering \in [Assistants -> Taken]
    BY <1>0 DEF ChatShapes
  <2>7. recovering' = [recovering EXCEPT ![p] = t]
    BY ONLY <2>3, <2>4, <2>6, p \in Assistants
  <2>8. recovering' \in [Assistants -> Taken]
    BY <2>5, <2>6, <2>7
  <2> QED BY <1>2, <2>2, <2>8 DEF SearchContent, ChatTyped, ChatShapes
<1>3. ASSUME NEW p \in Assistants,
             \/ ReserveGeneration(p) \/ MarkGeneration(p) \/ Generate(p) \/ SettleGeneration(p)
             \/ GiveUpRun(p) \/ LeaveRun(p)
      PROVE  ChatTyped'
  <2> DEFINE r == recovering[p].run
  <2>1. r \in ChatRuns
    BY <1>0 DEF ChatShapes, Taken
  <2>2. UNCHANGED runOp \/ \E status \in Unsettled \cup {"settled"} : Operation(r, status)
    <3>1. CASE ReserveGeneration(p)
      BY <3>1 DEF ReserveGeneration, Unsettled
    <3>2. CASE MarkGeneration(p)
      BY <3>2 DEF MarkGeneration, Unsettled
    <3>3. CASE Generate(p) \/ SettleGeneration(p)
      BY <3>3 DEF Generate, SettleGeneration, Doubt, Unsettled
    <3>4. CASE GiveUpRun(p) \/ LeaveRun(p)
      BY <3>4 DEF GiveUpRun, LeaveRun
    <3> QED BY <1>3, <3>1, <3>2, <3>3, <3>4
  <2>3. runOp' \in OpStates
    BY <1>0, <2>1, <2>2, RunWritten
  <2>4. PICK pc \in RecoverySteps : Then(p, pc)
    BY <1>3 DEF ReserveGeneration, MarkGeneration, Generate, SettleGeneration, GiveUpRun,
       LeaveRun, RecoverySteps
  <2>5. recovering' \in [Assistants -> Taken]
    BY <1>0, <2>4, ThenKeeps
  <2>6. UNCHANGED <<runState, agedRuns, messages, chatDeleted>>
    BY <1>3 DEF ReserveGeneration, MarkGeneration, Generate, SettleGeneration, GiveUpRun, LeaveRun
  <2> QED BY <2>3, <2>5, <2>6 DEF ChatTyped, ChatShapes
<1>4. ASSUME NEW p \in Assistants, SaveAnswer(p) \/ FailRun(p) PROVE ChatTyped'
  <2> DEFINE r == recovering[p].run
             answer == AnswerTo(r, recovering[p].sources)
  <2>1. r \in ChatRuns /\ recovering[p].sources \in BOOLEAN
    BY <1>0 DEF ChatShapes, Taken
  <2>2. answer \in ChatMessage
    BY <2>1 DEF AnswerTo, ChatMessage
  <2>3. runState' \in RunStates
    BY <1>0, <1>4, <2>1, RunWritten DEF SaveAnswer, FailRun
  <2>4. recovering' \in [Assistants -> Taken]
    BY <1>0, <1>4, ThenKeeps DEF SaveAnswer, FailRun, RecoverySteps
  <2>5. messages' = messages \/ messages' = Append(messages, answer)
    BY <1>4 DEF SaveAnswer, FailRun
  <2> HIDE DEF answer
  <2>6. messages' \in Seq(ChatMessage)
    BY <1>0, <2>2, <2>5 DEF ChatShapes
  <2>7. UNCHANGED <<agedRuns, runOp, chatDeleted>>
    BY <1>4 DEF SaveAnswer, FailRun
  <2> QED BY <2>3, <2>4, <2>6, <2>7 DEF ChatTyped, ChatShapes
<1>5. ASSUME NEW r \in ChatRuns, CreateMessage(r) PROVE ChatTyped'
  <2>1. Question(r) \in ChatMessage
    BY DEF Question, ChatMessage
  <2>2. messages' \in Seq(ChatMessage)
    BY <1>0, <1>5, <2>1 DEF CreateMessage, ChatShapes
  <2>3. runState' \in RunStates
    BY <1>0, <1>5 DEF CreateMessage, ActiveStates
  <2> QED BY <1>5, <2>2, <2>3 DEF CreateMessage, ChatTyped, ChatShapes
<1>6. ASSUME NEW r \in ChatRuns, TwoMinutesPass(r) PROVE ChatTyped'
  BY <1>6 DEF TwoMinutesPass, ChatTyped, ChatShapes
<1>7. ASSUME NEW r \in ChatRuns, ReconcileRun(r) PROVE ChatTyped'
  <2>1. \E status \in {"settled", "reconciling"} : Operation(r, status)
    BY <1>7 DEF ReconcileRun
  <2>2. runOp' \in OpStates
    BY <1>0, <2>1, RunWritten DEF Unsettled
  <2> QED BY <1>7, <2>2 DEF ReconcileRun, ChatTyped, ChatShapes
<1>8. CASE DeleteChat \/ UNCHANGED assistantVars
  BY <1>8 DEF DeleteChat, assistantVars, ChatTyped, ChatShapes
<1> QED BY <1>1, <1>2, <1>3, <1>4, <1>5, <1>6, <1>7, <1>8 DEF AssistantNext

(* The runs, operations and messages of a chat, and what each process has in  *)
(* hand, keep their columns, for any number of processes and questions.       *)
THEOREM ChatsAreTyped == AssistantSpec => []AssistantTypeOK
<1>1. AssistantInit => ChatTyped
  BY AnswerBegins DEF AssistantInit, AnswerInv, ChatTyped
<1>2. ChatTyped /\ [AssistantNext]_assistantVars => ChatTyped'
  BY ChatStep
<1>3. ChatTyped => AssistantTypeOK
  <2>1. ASSUME ChatTyped, NEW i \in DOMAIN messages PROVE messages[i] \in ChatMessage
    BY <2>1 DEF ChatTyped, ChatShapes
  <2> QED BY <2>1 DEF ChatTyped, ChatShapes, ChatMessage, Taken, RecoverySteps, AssistantTypeOK
<1> QED BY <1>1, <1>2, <1>3, PTL DEF AssistantSpec
=============================================================================

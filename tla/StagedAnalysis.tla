--------------------------- MODULE StagedAnalysis ---------------------------
(***************************************************************************)
(* The analysis of one call in stages: service/analysis with the runner of *)
(* analyzer/analysisflow, against the people who edit the transcript, go   *)
(* back to an older revision of it or ask for another analysis.            *)
(*                                                                         *)
(* A run is named by its key: the revision of the transcript it reads and  *)
(* the attempt it is made for (0, "upload", for the first analysis).  Each *)
(* stage is asked of the provider under a task row, at most Tries times;   *)
(* the row is claimed before the request and filled after it.  Everything  *)
(* a handler writes is one statement, and between two of its statements    *)
(* the row may have moved on.  An edit is a transaction: what it sees of   *)
(* the analysis is fixed when it opens, what it did is seen when it        *)
(* commits.  A handler takes the windows of a transcript one after the     *)
(* other; two handlers are at work when a lock went stale.                 *)
(***************************************************************************)
EXTENDS Naturals, Sequences, FiniteSets

CONSTANTS
  Analyzers,        \* goroutines that run the analyze job
  Texts,            \* what the words of a transcript may be
  Voices,           \* who may have said them
  MaxRevisions,     \* revisions of the transcript (bound)
  MaxAsks,          \* analyses asked for by hand (bound)
  MaxSelects,       \* times an old revision is selected (bound)
  Stages,           \* provider steps of a run, numbered in order
  Tries,            \* requests per stage (3 in the code)
  MaxTakes,         \* max_attempts of the job
  MaxMishaps        \* lost handlers, stale locks, failed or refused requests (bound)

ASSUME StagedBounds ==
  /\ MaxRevisions \in Nat \ {0} /\ MaxAsks \in Nat /\ MaxSelects \in Nat
  /\ Stages \in Nat \ {0} /\ Tries \in Nat \ {0} /\ MaxTakes \in Nat \ {0}
  /\ MaxMishaps \in Nat

VARIABLES
  revisions,        \* contents of call_transcription_revisions, by revision
  activeRevision,
  editing,          \* the transaction of an edit or of a selection
  analysis,         \* the row of call_analyses
  attempts,         \* rows of call_analysis_attempts, oldest first
  taskRow,          \* rows of call_analysis_tasks
  sent,             \* requests made to the provider, per task
  analyzeJob,       \* the analyze row of processing_jobs
  runner,           \* the handlers
  asking,           \* the step of a request for another analysis
  mishaps, selects

stagedVars == <<revisions, activeRevision, editing, analysis, attempts, taskRow,
                sent, analyzeJob, runner, asking, mishaps, selects>>
transcriptVars == <<revisions, activeRevision, editing>>
budgetVars == <<mishaps, selects>>

Content == [text : Texts, voice : Voices]
Revision == 1 .. MaxRevisions
Runs == Revision \X (0 .. MaxAsks)
NoRun == <<0, 0>>
(* The identity of a task holds what it asks: which request of the stage it  *)
(* is, and the error of the one before, which is sent along.                 *)
Errors == {"refused", "invalid", "uncertain", "no credits"}
Requests == {<<1, "first">>} \cup (2 .. Tries) \X Errors
TaskIds == Runs \X (1 .. Stages) \X Requests
Complete == Stages + 1

CallAnalysisStatus == {"none", "pending", "processing", "done", "failed", "stale"}
Analyses == [status : CallAnalysisStatus, run : Runs \cup {NoRun}, progress : 0 .. Complete]
AttemptStatus == {"pending", "processing", "done", "superseded", "failed"}
ActiveStatus == {"pending", "processing"}
AnalyzeJobs == [status : {"pending", "running", "done", "failed"}, takes : 0 .. MaxTakes]

(* An edit has the revision it makes active, and whether the analysis was     *)
(* finished when it opened; "locked" it has written the row of the analysis.  *)
Edits == [pc : {"no", "open", "locked"}, target : 0 .. MaxRevisions, finished : BOOLEAN]
NoEdit == [pc |-> "no", target |-> 0, finished |-> FALSE]

Resting == [pc |-> "idle", attempt |-> 0, run |-> NoRun, stage |-> 1, try |-> <<1, "first">>]
RunnerSteps == {"idle", "check", "attempt", "prepare", "choose", "begin", "beginning",
                "claim", "reserve", "provider", "publish", "compare", "finish",
                "finishing", "close", "report", "error", "superseded"}

StagedTypeOK ==
  /\ revisions \in Seq(Content) /\ Len(revisions) \in Revision
  /\ activeRevision \in 1 .. Len(revisions)
  /\ editing \in Edits /\ (editing.pc # "no" => editing.target \in 1 .. Len(revisions) + 1)
  /\ analysis \in Analyses
  /\ attempts \in Seq([revision : Revision, status : AttemptStatus])
  /\ Len(attempts) \in 0 .. MaxAsks
  /\ taskRow \in [TaskIds -> {"none", "claimed", "saved"}]
  /\ sent \in [TaskIds -> Nat]
  /\ analyzeJob \in AnalyzeJobs
  /\ runner \in [Analyzers -> [pc : RunnerSteps, attempt : 0 .. MaxAsks,
                               run : Runs \cup {NoRun}, stage : 1 .. Stages,
                               try : Requests]]
  /\ asking \in {"no", "reset", "enqueue"}
  /\ mishaps \in 0 .. MaxMishaps
  /\ selects \in 0 .. MaxSelects

(* A call that was just transcribed: its analysis is queued, nothing began. *)
StagedInit ==
  /\ \E c \in Content : revisions = <<c>>
  /\ activeRevision = 1
  /\ editing = NoEdit
  /\ analysis = [status |-> "none", run |-> NoRun, progress |-> 0]
  /\ attempts = <<>>
  /\ taskRow = [id \in TaskIds |-> "none"]
  /\ sent = [id \in TaskIds |-> 0]
  /\ analyzeJob = [status |-> "pending", takes |-> 0]
  /\ runner = [h \in Analyzers |-> Resting]
  /\ asking = "no"
  /\ mishaps = MaxMishaps /\ selects = MaxSelects

-----------------------------------------------------------------------------
(* Helpers *)

RevisionOf(run) == run[1]

(* ActiveAttempt: the newest that is not over, 0 if there is none. *)
ActiveAttempt ==
  LET open == {i \in 1 .. Len(attempts) : attempts[i].status \in ActiveStatus} IN
  IF open = {} THEN 0 ELSE CHOOSE i \in open : \A j \in open : j <= i

MarkAttempt(i, status) ==
  attempts' = IF i = 0 THEN attempts ELSE [attempts EXCEPT ![i].status = status]

TaskOf(h) == <<runner[h].run, runner[h].stage, runner[h].try>>

At(h, pc) == runner[h].pc = pc
Step(h, pc) == runner' = [runner EXCEPT ![h].pc = pc]
Rest(h) == runner' = [runner EXCEPT ![h] = Resting]

(* Mutant of AcceptsProgress: a save of the same run always replaces. *)
AcceptsAnyProgress(n) == TRUE

(* SaveProgress keeps the further of two results. *)
AcceptsProgress(n) == analysis.progress <= n

(* Mutant of RunIsCurrent: the key alone, as if edits changed it. *)
RunKeyMatches(run) == analysis.run = run

(* What SaveProgress and MarkDone ask of the row and of the transcript. *)
RunIsCurrent(run) == analysis.run = run /\ RevisionOf(run) = activeRevision

(* Other statements that would write the row wait for the edit that has. *)
RowLocked == editing.pc = "locked"

-----------------------------------------------------------------------------
(* The job *)

TakeAnalyzeJob(h) ==
  /\ At(h, "idle")
  /\ analyzeJob.status = "pending" /\ analyzeJob.takes < MaxTakes
  /\ analyzeJob' = [status |-> "running", takes |-> analyzeJob.takes + 1]
  /\ Step(h, "check")
  /\ UNCHANGED <<transcriptVars, analysis, attempts, taskRow, sent, asking, budgetVars>>

(* The lock went stale: its holder is gone, or could not renew it in time. *)
ReclaimAnalyzeJob(h) ==
  /\ At(h, "idle")
  /\ analyzeJob.status = "running" /\ analyzeJob.takes < MaxTakes
  /\ IF \A g \in Analyzers : At(g, "idle") THEN UNCHANGED mishaps
     ELSE mishaps > 0 /\ mishaps' = mishaps - 1
  /\ analyzeJob' = [analyzeJob EXCEPT !.takes = @ + 1]
  /\ Step(h, "check")
  /\ UNCHANGED <<transcriptVars, analysis, attempts, taskRow, sent, asking, selects>>

ReportAnalyzed(h) ==
  /\ At(h, "report")
  /\ analyzeJob' = [analyzeJob EXCEPT !.status = "done"]
  /\ Rest(h)
  /\ UNCHANGED <<transcriptVars, analysis, attempts, taskRow, sent, asking, budgetVars>>

(* An error: the job is tried again, or the analysis has failed for good. *)
RetryAnalysis(h) ==
  /\ At(h, "error") /\ analyzeJob.takes < MaxTakes
  /\ analyzeJob' = [analyzeJob EXCEPT !.status = "pending"]
  /\ Rest(h)
  /\ UNCHANGED <<transcriptVars, analysis, attempts, taskRow, sent, asking, budgetVars>>

MarkAnalyzeCallFailed(h) ==
  /\ At(h, "error") /\ analyzeJob.takes = MaxTakes /\ ~RowLocked
  /\ analyzeJob' = [analyzeJob EXCEPT !.status = "failed"]
  /\ MarkAttempt(ActiveAttempt, "failed")
  /\ analysis' = [analysis EXCEPT !.status = "failed"]
  /\ Rest(h)
  /\ UNCHANGED <<transcriptVars, taskRow, sent, asking, budgetVars>>

(* The process dies, and with it the handler, at any statement. *)
LoseRunner(h) ==
  /\ ~At(h, "idle")
  /\ mishaps > 0 /\ mishaps' = mishaps - 1
  /\ Rest(h)
  /\ UNCHANGED <<transcriptVars, analysis, attempts, taskRow, sent, analyzeJob,
                 asking, selects>>

-----------------------------------------------------------------------------
(* A run, up to its stages *)

(* A job whose analysis is over is a duplicate. *)
CheckDuplicate(h) ==
  /\ At(h, "check")
  /\ Step(h, IF analysis.status \in {"none", "pending", "processing"}
             THEN "attempt" ELSE "report")
  /\ UNCHANGED <<transcriptVars, analysis, attempts, taskRow, sent, analyzeJob,
                 asking, budgetVars>>

TakeAttempt(h) ==
  /\ At(h, "attempt")
  /\ runner' = [runner EXCEPT ![h].attempt = ActiveAttempt, ![h].pc = "prepare"]
  /\ MarkAttempt(ActiveAttempt, "processing")
  /\ UNCHANGED <<transcriptVars, analysis, taskRow, sent, analyzeJob, asking, budgetVars>>

(* createPendingAnalysis and MarkProcessing, whatever the status was. *)
MarkAnalysisRunning(h) ==
  /\ At(h, "prepare") /\ ~RowLocked
  /\ analysis' = [analysis EXCEPT !.status = "processing"]
  /\ Step(h, "choose")
  /\ UNCHANGED <<transcriptVars, attempts, taskRow, sent, analyzeJob, asking, budgetVars>>

(* The attempt is read again: it may be a newer one than the handler took. *)
ChooseRun(h) ==
  /\ At(h, "choose")
  /\ LET i == ActiveAttempt
         r == IF i = 0 THEN activeRevision ELSE attempts[i].revision IN
     runner' = [runner EXCEPT ![h].run = <<r, i>>, ![h].pc = "begin"]
  /\ UNCHANGED <<transcriptVars, analysis, attempts, taskRow, sent, analyzeJob,
                 asking, budgetVars>>

(* A statement that finds the row as it asks and locked waits for the edit;   *)
(* the revision it asked for is not looked up again when it goes on.          *)
WaitForRow(h) ==
  /\ RowLocked
  /\ \/ At(h, "begin") /\ RevisionOf(runner[h].run) = activeRevision /\ Step(h, "beginning")
     \/ At(h, "finish") /\ RunIsCurrent(runner[h].run) /\ Step(h, "finishing")
  /\ UNCHANGED <<transcriptVars, analysis, attempts, taskRow, sent, analyzeJob,
                 asking, budgetVars>>

(* BeginPipeline: the result of another run is dropped. *)
BeginPipeline(h) ==
  /\ LET run == runner[h].run IN
     \/ /\ At(h, "beginning") \/ (At(h, "begin") /\ RevisionOf(run) = activeRevision)
        /\ ~RowLocked
        /\ analysis' = [analysis EXCEPT !.run = run,
                           !.progress = IF analysis.run = run THEN @ ELSE 0]
        /\ Step(h, "claim")
     \/ /\ At(h, "begin") /\ RevisionOf(run) # activeRevision
        /\ Step(h, "superseded") /\ UNCHANGED analysis
  /\ UNCHANGED <<transcriptVars, attempts, taskRow, sent, analyzeJob, asking, budgetVars>>

-----------------------------------------------------------------------------
(* One stage *)

(* The runner takes any error of a task for a wrong answer and tries again *)
(* under the next task, until it has none left.                            *)
NextTry(h, error) ==
  runner' = IF runner[h].try[1] < Tries
            THEN [runner EXCEPT ![h].try = <<@[1] + 1, error>>, ![h].pc = "claim"]
            ELSE [runner EXCEPT ![h].pc = "error"]

(* Mutant of ClaimOutcome: a claim without an answer is nobody's. *)
ClaimOutcomeTrusting(row) == CASE row = "saved" -> "cached" [] OTHER -> "new"

ClaimOutcome(row) ==
  CASE row = "none"    -> "new"
    [] row = "claimed" -> "uncertain"
    [] row = "saved"   -> "cached"

(* ClaimAnalysisTask; an answer that is there already is used again. *)
ClaimAnalysisTask(h) ==
  /\ At(h, "claim")
  /\ LET id == TaskOf(h)
         outcome == ClaimOutcome(taskRow[id]) IN
     \/ /\ outcome = "new"
        /\ taskRow' = [taskRow EXCEPT ![id] = "claimed"]
        /\ Step(h, "reserve")
     \/ outcome = "uncertain" /\ NextTry(h, "uncertain") /\ UNCHANGED taskRow
     \/ outcome = "cached" /\ (Step(h, "publish") \/ NextTry(h, "invalid")) /\ UNCHANGED taskRow
  /\ UNCHANGED <<transcriptVars, analysis, attempts, sent, analyzeJob, asking, budgetVars>>

ReserveStage(h) ==
  /\ At(h, "reserve")
  /\ sent' = [sent EXCEPT ![TaskOf(h)] = @ + 1]
  /\ Step(h, "provider")
  /\ UNCHANGED <<transcriptVars, analysis, attempts, taskRow, analyzeJob, asking, budgetVars>>

(* No credits: the claim is released, nothing has been sent. *)
ReleaseAnalysisTask(h) ==
  /\ At(h, "reserve")
  /\ mishaps > 0 /\ mishaps' = mishaps - 1
  /\ taskRow' = [taskRow EXCEPT ![TaskOf(h)] = IF @ = "claimed" THEN "none" ELSE @]
  /\ NextTry(h, "no credits")
  /\ UNCHANGED <<transcriptVars, analysis, attempts, sent, analyzeJob, asking, selects>>

(* The provider fails: the claim stays, its outcome is unknown. *)
ProviderRefuses(h) ==
  /\ At(h, "provider")
  /\ mishaps > 0 /\ mishaps' = mishaps - 1
  /\ NextTry(h, "refused")
  /\ UNCHANGED <<transcriptVars, analysis, attempts, taskRow, sent, analyzeJob,
                 asking, selects>>

(* SaveAnalysisTask; the answer may not stand up to its validation. *)
SaveAnalysisTask(h) ==
  /\ At(h, "provider")
  /\ taskRow' = [taskRow EXCEPT ![TaskOf(h)] = "saved"]
  /\ \/ Step(h, "publish") /\ UNCHANGED mishaps
     \/ mishaps > 0 /\ mishaps' = mishaps - 1 /\ NextTry(h, "invalid")
  /\ UNCHANGED <<transcriptVars, analysis, attempts, sent, analyzeJob, asking, selects>>

(* SaveProgress, then the next stage; the last stage is kept for MarkDone. *)
SaveProgress(h) ==
  /\ At(h, "publish")
  /\ LET run == runner[h].run
         n == runner[h].stage IN
     IF n = Stages THEN Step(h, "compare") /\ UNCHANGED analysis
     ELSE IF RunIsCurrent(run) /\ analysis.status = "processing"
     THEN /\ analysis' = IF AcceptsProgress(n) THEN [analysis EXCEPT !.progress = n]
                                               ELSE analysis
          /\ runner' = [runner EXCEPT ![h].stage = n + 1, ![h].try = <<1, "first">>, ![h].pc = "claim"]
     ELSE Step(h, "superseded") /\ UNCHANGED analysis
  /\ UNCHANGED <<transcriptVars, attempts, taskRow, sent, analyzeJob, asking, budgetVars>>

-----------------------------------------------------------------------------
(* The end of a run *)

CompareRevision(h) ==
  /\ At(h, "compare")
  /\ Step(h, IF ActiveAttempt # 0 /\ attempts[ActiveAttempt].revision # activeRevision
             THEN "superseded" ELSE "finish")
  /\ UNCHANGED <<transcriptVars, analysis, attempts, taskRow, sent, analyzeJob,
                 asking, budgetVars>>

(* MarkDone finds no row when the run is not current: an ordinary error.      *)
(* After a wait only the key is compared again.                               *)
MarkAnalysisDone(h) ==
  /\ LET run == runner[h].run
         found == \/ At(h, "finish") /\ RunIsCurrent(run)
                  \/ At(h, "finishing") /\ analysis.run = run IN
     \/ /\ found /\ ~RowLocked
        /\ analysis' = [analysis EXCEPT !.status = "done", !.progress = Complete]
        /\ Step(h, "close")
     \/ /\ At(h, "finish") \/ (At(h, "finishing") /\ ~RowLocked)
        /\ ~found /\ Step(h, "error") /\ UNCHANGED analysis
  /\ UNCHANGED <<transcriptVars, attempts, taskRow, sent, analyzeJob, asking, budgetVars>>

CloseAttempt(h) ==
  /\ At(h, "close")
  /\ LET i == runner[h].attempt IN
     MarkAttempt(i, IF i # 0 /\ attempts[i].revision # activeRevision
                    THEN "superseded" ELSE "done")
  /\ Step(h, "report")
  /\ UNCHANGED <<transcriptVars, analysis, taskRow, sent, analyzeJob, asking, budgetVars>>

(* With an attempt a superseded run is no error, without one it is. *)
LeaveSuperseded(h) ==
  /\ At(h, "superseded")
  /\ MarkAttempt(runner[h].attempt, "superseded")
  /\ Step(h, IF runner[h].attempt = 0 THEN "error" ELSE "report")
  /\ UNCHANGED <<transcriptVars, analysis, taskRow, sent, analyzeJob, asking, budgetVars>>

-----------------------------------------------------------------------------
(* People *)

(* AnalyzeCall, in three statements: an attempt, ... *)
CreateAttempt ==
  /\ asking = "no" /\ Len(attempts) < MaxAsks
  /\ attempts' = Append(attempts, [revision |-> activeRevision, status |-> "pending"])
  /\ asking' = "reset"
  /\ UNCHANGED <<transcriptVars, analysis, taskRow, sent, analyzeJob, runner, budgetVars>>

(* ... the row back to pending, with its result, ... *)
ResetAnalysisRow ==
  /\ asking = "reset" /\ ~RowLocked
  /\ analysis' = [analysis EXCEPT !.status = "pending"]
  /\ asking' = "enqueue"
  /\ UNCHANGED <<transcriptVars, attempts, taskRow, sent, analyzeJob, runner, budgetVars>>

(* ... and the job, unless it runs. *)
EnqueueAnalysisAgain ==
  /\ asking = "enqueue"
  /\ analyzeJob' = IF analyzeJob.status = "running" THEN analyzeJob
                   ELSE [status |-> "pending", takes |-> 0]
  /\ asking' = "no"
  /\ UNCHANGED <<transcriptVars, analysis, attempts, taskRow, sent, runner, budgetVars>>

(* Update and Restore, in SERIALIZABLE transactions: the first statement      *)
(* locks the transcription, so there is one at a time, and fixes what the     *)
(* transaction sees.  Update makes a revision, Restore selects one.           *)
OpenEdit ==
  /\ editing.pc = "no"
  /\ \E r \in 1 .. Len(revisions) + 1 :
       /\ editing' = [pc |-> "open", target |-> r, finished |-> analysis.status = "done"]
       /\ \/ r > Len(revisions) /\ r <= MaxRevisions /\ UNCHANGED selects
          \/ r <= Len(revisions) /\ selects > 0 /\ selects' = selects - 1
  /\ UNCHANGED <<revisions, activeRevision, analysis, attempts, taskRow, sent,
                 analyzeJob, runner, asking, mishaps>>

(* An analysis seen finished is marked for other words, or for other voices   *)
(* in a new revision; one that was not finished yet is no row to the UPDATE.  *)
NeedsMark ==
  /\ editing.finished
  /\ editing.target \in DOMAIN revisions
       => revisions[editing.target].text # revisions[activeRevision].text

(* A row written since the edit opened ends it with an error; a row that is   *)
(* done again is let through here, as if the edit had opened later.           *)
MarkAnalysisStale ==
  /\ editing.pc = "open" /\ NeedsMark /\ analysis.status = "done"
  /\ editing' = [editing EXCEPT !.pc = "locked"]
  /\ UNCHANGED <<revisions, activeRevision, analysis, attempts, taskRow, sent,
                 analyzeJob, runner, asking, budgetVars>>

CommitEdit ==
  /\ RowLocked \/ (editing.pc = "open" /\ ~NeedsMark)
  /\ \/ /\ editing.target > Len(revisions)
        /\ \E c \in Content \ {revisions[activeRevision]} : revisions' = Append(revisions, c)
     \/ editing.target <= Len(revisions) /\ UNCHANGED revisions
  /\ activeRevision' = editing.target
  /\ analysis' = IF RowLocked THEN [analysis EXCEPT !.status = "stale"] ELSE analysis
  /\ editing' = NoEdit
  /\ UNCHANGED <<attempts, taskRow, sent, analyzeJob, runner, asking, budgetVars>>

(* An error or a lost connection: nothing of the edit was ever seen. *)
AbandonEdit ==
  /\ editing.pc # "no"
  /\ editing' = NoEdit
  /\ UNCHANGED <<revisions, activeRevision, analysis, attempts, taskRow, sent,
                 analyzeJob, runner, asking, budgetVars>>

-----------------------------------------------------------------------------
RunnerStep(h) ==
  \/ TakeAnalyzeJob(h) \/ ReclaimAnalyzeJob(h) \/ ReportAnalyzed(h)
  \/ RetryAnalysis(h) \/ MarkAnalyzeCallFailed(h)
  \/ CheckDuplicate(h) \/ TakeAttempt(h) \/ MarkAnalysisRunning(h)
  \/ ChooseRun(h) \/ WaitForRow(h) \/ BeginPipeline(h)
  \/ ClaimAnalysisTask(h) \/ ReserveStage(h) \/ ReleaseAnalysisTask(h)
  \/ ProviderRefuses(h) \/ SaveAnalysisTask(h) \/ SaveProgress(h)
  \/ CompareRevision(h) \/ MarkAnalysisDone(h) \/ CloseAttempt(h)
  \/ LeaveSuperseded(h)

StagedNext ==
  \/ \E h \in Analyzers : RunnerStep(h) \/ LoseRunner(h)
  \/ CreateAttempt \/ ResetAnalysisRow \/ EnqueueAnalysisAgain
  \/ OpenEdit \/ MarkAnalysisStale \/ CommitEdit \/ AbandonEdit

StagedSpec == StagedInit /\ [][StagedNext]_stagedVars

-----------------------------------------------------------------------------
(* Properties *)

TextOf(r) == revisions[r].text

(* A finished analysis is of the words that are shown: words that changed     *)
(* leave it stale, to be run again "before anyone trusts it again"            *)
(* (transcriptionedit/service.go:237-241, update_status.go:39).  It can be     *)
(* lost, but only as the next three definitions say.                         *)
DoneMatchesText ==
  analysis.status = "done" => TextOf(RevisionOf(analysis.run)) = TextOf(activeRevision)

(* An edit ends that opened before the analysis was finished. *)
UnseenEditEnds == editing.pc = "open" /\ ~editing.finished /\ editing'.pc = "no"

(* A statement goes on that waited for the row. *)
WaitEnds ==
  \E h \in Analyzers : /\ runner[h].pc \in {"beginning", "finishing"}
                       /\ runner'[h].pc \notin {"beginning", "finishing"}

(* Nothing but these two leaves a finished analysis of other words: not   *)
(* a late handler, an edit, a selected revision or a new request, in any      *)
(* order (update_status.go:39, progress.go:16-20, service.go:165, 241, 424).  *)
WordsLostOnlyOvertaken ==
  [][DoneMatchesText /\ ~DoneMatchesText' => UnseenEditEnds \/ WaitEnds]_stagedVars

(* What a reader has seen of a run does not shrink: of two handlers with one *)
(* run the slower one never takes back what the faster published, and a      *)
(* retry starts from it (progress.go:35-38, 16-18).                          *)
ProgressKept ==
  [][analysis'.run = analysis.run => analysis'.progress >= analysis.progress]_stagedVars

(* A task reaches the provider at most once, however often its job is taken  *)
(* again (progress.go:51-53, ClaimAnalysisTask).                             *)
TaskSentOnce == \A id \in TaskIds : sent[id] <= 1

(* An uncertain answer is not asked for again in the same run: a stage has   *)
(* at most one task that was claimed and has no answer (progress.go:51-52).  *)
UncertainNotRepeated ==
  \A run \in Runs, s \in 1 .. Stages :
    Cardinality({t \in Requests : taskRow[<<run, s, t>>] = "claimed"}) <= 1
=============================================================================

# VerbaTrace backend: models, checks and proofs

TLA+ modules of the parts of the VerbaTrace backend (`src/Monolit`) whose
correctness depends on the order in which processes, people and failures act.
Paths below are relative to `src/Monolit/internal` unless they begin with
`src/`. `PROJECT.json` maps every definition to the lines it translates, lists
the components, the runs, the mutants that break each property, the hazards and
the theorems.

To check: `tlc -config <run>.cfg <module>` for a run (section 3 names the
module), `tlapm <M>Proofs.tla` for the proofs.

## 1. The system

A monolith in Go on PostgreSQL. A user or an integration uploads the recording
of a call; a queue of jobs takes it through transcription and analysis by
outside providers; the work is paid from a credit ledger. Around the analysed
call there are people: they edit its transcript, review its analysis, act on
what it found, ask an assistant about it, and delete it in the end. Everything
talks through the database: HTTP handlers, the workers of one process and the
workers of its replicas share tables and nothing else. Providers are slow
(minutes), may fail, and may have done the work when the answer is lost.

| Component | State | Operations | Hard behaviour | What makes it correct | Module |
|---|---|---|---|---|---|
| **Processing queue and worker** `repository/processing_job`, `service/processing/worker.go` | `processing_jobs`; the errgroup and context of a batch | Create, Enqueue, TakeNext, MarkDone / Retry / Failed / WaitingForCredits, heartbeats, DELETE by cancel and bin; the loop of `runBatch` | several workers, stale reclaim after a crash, a context shared by a batch, reports by `job_uuid` alone | a healthy goroutine keeps its claim; attempts stay within their budget; no job is forgotten | `ProcessingQueue` |
| **Call pipeline** `service/processing/process_call.go`, `service/analysis/analyze_call.go`, `service/call` | `calls`, `call_transcriptions`, `call_analyses`, the job rows, local copies of handlers and requests | the two job handlers, cancel, restart, switch, delete, restore, analyse again | sequences of statements with no lock; each may be lost after any of them | nothing is published before its money is decided; a busy call has a job; a cancel is final until undone; a requested analysis ends | `CallPipeline` |
| **Credit ledger** `repository/billing`, `service/billing` | grants, `usage_operations`, allocations, postings, caps | reserve, mark running, settle, reconcile, release, open and expire grants, set caps | workers, a canceller and a reconciler act on one operation; retries; costs above the maximum | no credit is lost or made; charged once, at most the maximum; caps are hard; what reached the provider is not given away | `CreditLedger` |
| **Staged analysis** `service/analysis/progressive.go`, `analyzer/analysisflow/runner.go`, `repository/analysis`, `service/transcriptionedit` | revisions, the analysis row, attempts, tasks per stage | claim a stage, ask, save progress, finish; edit, select a revision, ask again | late results of a run that was superseded; two handlers with one run; an answer of unknown outcome | a finished analysis is of the shown words; progress never shrinks; a task is sent once | `StagedAnalysis` |
| **Quality review** `service/qualityreview` | review, verdicts, appeals, challenges | open, claim, draft, publish, appeal, resolve | several people with a page each that may be old; edits and re-runs under a review | one verdict in force; two opinions of two people; no verdict of an unseen analysis | `QualityReview` |
| **Sessions and reset** `service/auth`, `service/passwordreset`, `repository/refresh_session` | refresh sessions with a previous hash, reset links | login, rotate, reuse, logouts, change of role, request and confirm a reset | two tabs with one token, an administrator between two statements | one successor per token; access tokens have the present role; an ended session stays ended | `Sessions` |
| **Ingest and webhooks** `service/integration`, `repository/integration` | leased items and events, deliveries | accept, claim, make a call, complete or fail; claim, ask, record | at least once, a lease lost between work and record | one completion per item; an event ends when all endpoints have answered | `Ingest` |
| **Delivery** `service/delivery` | marks, bells, letters with leases | mark, claim a batch, send, finish | two replicas with one fact; sent and not recorded | told once; so many sends; a letter is sent or given up | `Delivery` |
| **Companies** `repository/company`, `service/company`, `service/invitation` | owners, members, deputies, invitations, offers, plans | create, freeze, delete; invite, accept; offer, accept | offers and invitations that outlive what they were made for | the owner has the owner's seat; a plan moves whole | `Ownership` |
| **Tasks in Bitrix24** `service/bitrix24` | syncs with state, lease and version | ask, approve, create, compare, decide | the portal's answer is lost; two replicas and a person on a row | one task per decision of a person; a link is kept | `ActionSync` |
| **Actions** `service/action` | actions, transfers | start, finish, cancel, move, hand over, take back; two workers | a worker's page is old when it comes to a row | a closed action is not changed | `CallActions` |
| **Retention and bin** `service/retention`, `service/privacy`, `service/report` | calls, the manifest of their files, the files | bin, restore, purge, resume; make a copy, a cache | a crash between rows and files; overlapping runs; files in the making | a file that is left is on an unfinished manifest | `Purge` |
| **Assistant** `assistant/service.go` | messages and runs of a chat | ask, recover, pay, answer, fail | a process dies anywhere; the recovery has no lease | questions are answered in their order | `Assistant` |
| Indexer, analytics, reports, search, instructions, admin, HTTP, providers, storage, the portal's import | their tables | reads, projections, single-transaction edits, input and output | little | SQL filters and layout, not orderings | none (section 7) |

How the first three interact: an upload writes the call and its job in one
transaction. A worker claims the job (`TakeNext`), the handler reserves credits,
calls the provider, settles, persists the text, enqueues the analysis job and
reports on its own job. A cancel deletes the jobs and releases reservations; the
reconciler looks after operations nobody settled. The analysis job runs the
stages of `StagedAnalysis`; a review holds edits of the transcript back, and an
edit supersedes an analysis; ingest makes calls as an upload does, and hears of
their end through the outbox; actions come out of an analysis, become tasks in
the portal, and go with their call. Each hand-over is stated in the headers of
the modules and in section 7.

## 2. Modules

| Module | Stands for | |
|---|---|---|
| `JobRows` | one row of `processing_jobs`, an operator per SQL statement | used by the next two |
| `ProcessingQueue` | the queue with its workers, batches and contexts | what a job does is its outcome |
| `CallPipeline` | one call, every statement of the two handlers and of the requests on it | claims are assumed exclusive |
| `CreditLedger` | the credits of one account | the meter, the canceller, the reconciler and the owner as processes |
| `Wallet` | what a customer is promised about credits | abstract; `CreditLedger` implements it |
| `StagedAnalysis` | one analysis: stages, attempts, revisions | handlers and people |
| `QualityReview` | one review | each reviewer with the version they read |
| `Sessions` | the sessions of one user | requests in flight |
| `Ingest` | items and the event about each | two kinds of workers |
| `Delivery` | alerts and letters | senders with batches |
| `Ownership` | companies, people, plans | everything checked before it is written is in `checked` |
| `ActionSync` | the rows of one action and one connection | workers and people who decide |
| `CallActions` | one action | requests, two workers |
| `Purge` | one call with its files | runs of the purge, makers of files |
| `Assistant` | one chat | processes with their recovery |
| `MCProcessingQueue`, `MCCallPipeline`, `MCCreditLedger` | small instances | constants and symmetry only |
| `MCLive` | queue, ledger and letters on one graph | what must happen in the end |
| `MCSuite` | the nine components without liveness on one graph | safety |
| `*Proofs` (eight) | theorems | section 6 |

The three older modules have runs of their own. The others are checked on two
graphs. `MCLive` instantiates the queue and the ledger (`Q`, `L`) beside
`Delivery`, and `MCSuite` extends nine components: in both, a variable `focus`
chooses at the start which component a behaviour is about; that one takes its
own steps, and the others keep an initial state. These components share no
state that their properties rest on, so the graph is the union of the graphs of
the components, and nothing that one of them does is lost; what they do share
(an edit, a re-run, a call in the bin) each has as an action of its own.

### ProcessingQueue

`rows` is the table; of the timestamps only what a WHERE clause compares is
kept: whether `available_at` has come (`ripe`) and the age of `locked_at` in
ticks, counted to the first stale value. `id` numbers the inserts of a row and
stands for `job_uuid`, so that a Mark statement can miss. `holder` is
`locked_by`, `gor` the goroutines, `phase` and `batch` the place of a worker in
`runBatch`, `dead` the batch contexts that are cancelled.

A claim and its start are two actions (`TakeNext`, `Start`), since `group.Go`
blocks on a full group after the row was claimed. `Report` is the end of a job
under a live context; a row that is gone is the error that cancels the context
of the whole batch, after which the siblings `Abandon` their rows. `LeaveBatch`
is `runBatch` returning without `group.Wait`: the next poll makes a second group
beside goroutines that still run. `Crash` is a dead process and a shutdown
alike, because a cancelled root context fails every Mark statement. `Tick` ages
running rows; a goroutine ends or sends a heartbeat within `MaxQuiet` ticks, the
promise on which the margin of `WORKER_STALE_AFTER` rests.

### CallPipeline

Each statement of a handler or a request is an action, and what the code read
before it is a local copy: `handler[h].only` is `TranscriptionOnly` of the row
it read, `user[u].seen` the status a request has seen. `Start`,
`CreateTranscription`, `Reserve`, `MarkProviderRunning`, `ProviderAnswers`,
`Settle`, `Persist`, `EnqueueAnalysis` are `processTranscribeCallWithMode` from
top to bottom; `AnalyzeRead` to `MarkAnalyzed` are `ProcessAnalyzeCall` and
`analyzeCall`; `Report`, `MarkAwaiting`, `FailWork`, `FailCall` are the ends
that `worker.go` makes of them. `Stumble` is a failed statement or provider,
`Vanish` a handler that is gone: crash, shutdown, the context of its batch, or
its own Mark statement failing. `Reconcile` may come at any position of a
handler, because the 45 minutes count from the first reservation, which a retry
does not renew.

### CreditLedger

Every transaction of the repository is one action: those that move credits are
serializable and lock the account first. Postings are kept as the balances they
add up to, per grant and per allocation. A worker goes from `Reserve` (or
`ReserveAgain`, the key is known) over `MarkProviderRunning` and the provider to
`Settle`; between two of them everything else may happen. The canceller and the
reconciler first list operations read as reserved and then settle them at
nothing, one transaction each (`ListCallReservations`, `Scan`, `Release`).
`Scan(batch)` is one round of the reconciler: of the operations that were older
than 45 minutes, the `ReconcileBatch` that started first, without those somebody
has locked (`ORDER BY started_at LIMIT ... FOR UPDATE SKIP LOCKED`). `before` is
the order of `started_at`; what is `reconciling` is in the query again and stays
in front of what came later (`Ahead`).
The loops that spend grants in order, and that split a charge over allocations,
are given by what they compute (`Portions`): the amount exactly, never more than
a balance, one emptied before the next is touched.

### StagedAnalysis

A run is named as its key is made: the revision it reads and the attempt it is
for. `analysis` is the row with its status, run and progress; `taskRow` a task
per run, stage and try; `sent` counts what the provider was asked. A handler
reads the row and the active revision, checks that they belong together, claims
a task, reserves, asks, saves the answer and the progress, statement by
statement (`RunnerStep`), and its last write is guarded by the run it has.
`LoseRunner` is a handler that is gone, `ReclaimAnalyzeJob` its job taken again.
People ask for another analysis in three statements (`CreateAttempt`,
`ResetAnalysisRow`, `EnqueueAnalysisAgain`).

`Update` writes a new revision and `Restore` goes back to another, each in a
SERIALIZABLE transaction, while a handler's statements are autocommit and lock
nothing of the transcript. `editing` is that transaction, one at a time because
its first statement locks the transcription. `OpenEdit` fixes what it sees of
the analysis, `MarkAnalysisStale` writes the row if it saw it finished,
`CommitEdit` makes everything visible, `AbandonEdit` nothing. Until then other
writers of a row it wrote wait (`RowLocked`); a statement that had already found
the row (`WaitForRow`) goes on afterwards with the revision it looked up before,
as READ COMMITTED compares the columns of the new row and not its subquery.

### QualityReview

Every request is one transaction under the lock of the review, and refuses a
version that is not the present one; `fresh` is who holds it. `verdicts` keeps
drafts, the published verdict and superseded ones with their authors and the
analysis they are of. `EnsureNotUnderReview` and `EditWords` are the two halves
of an edit, which asks before its transaction; `RerunBegins` and `RerunEnds`
replace the analysis under a review.

### Sessions

Tokens are numbered as they are generated. A refresh reads the session by hash,
rotates it by a conditional UPDATE or, when that hits nothing, classifies the
token as the previous one within its grace or as reuse, and issues an access
token with the role it read last (`GetRefreshSessionByHash`,
`RotateRefreshSession`, `ClassifyPreviousToken`, `RevokeReused`,
`IssueAccess`). A login compares the password and inserts in two statements. A
reset voids older links in one transaction and stores its own at the commit
(`VoidLinks`, `StoreLink`), confirms in one. Logouts, expiry and `ChangeRole`
come between any two.

### Ingest

`ingestItem` has the lease and the claims of the row, `ingestWorker` what each
worker has in hand: `MakeCall` is the work in another component, after which
the completion may find the item taken by somebody else. `told` counts what the
outbox was given about an item. A webhook worker claims the event, computes the
endpoints that have not answered, asks each and records it
(`RecordWebhookDelivery` with `Remaining`), while endpoints are revoked and
leases end.

### Delivery

`Deliver` is the transaction of mark, bell and letter, in the channels the
person has on at that time (`EnabledChannels`): the bell alone, which is the
default, letters alone, both or neither; `ClaimBatch` leases
due letters up to `BatchSize` with one attempt more for each; `Send` and
`Finish` are the loop, where a letter may have been sent and its record be lost
(`FinishFails`, `LoseSender`, `LeaseEnds`). `whole` says that the secret of a
letter is still there: it is wiped with the end of the letter. A frozen company
has its letters cancelled at the claim.

### Ownership

Ownership is kept twice, in `owner` and in `member`, as in the tables. A request
that checks in one statement and inserts in another puts what it checked into
`checked`; an invitation or an offer may be written and answered when it is no
longer right. `AcceptOffer` hands over the companies `OwnershipCompanies` gives,
the seats (`HandedOver`) and the plan in one transaction. The lifecycle freezes,
deletes and restores companies under all of it.

### ActionSync

`sync[i]` is a row: its state, lease, link, code; `tasks[i]` is what the portal
has with its marker. A worker claims, writes that it is sending, asks the portal
and saves what it heard, four steps (`ClaimActionSync`, `PrepareActionSync`,
`CreateTask`, `SaveOutcome`); an expired lease is recovered by another replica
and an unknown outcome waits for a person. Statements of workers are guarded by
the state of the row, those of people by its `lock_version`: `unmoved` is whose
version is still the present one.

### CallActions

A request reads the action, sees that the call is not in the bin, and writes
under the version it read; `asRead` is for whom that version holds. `undo` is
the hour in which a status can be taken back. The workers write under other
guards: `FallOverdue` in one statement, `MoveInvalid` from a page it selected
before.

### Purge

`DeleteRows` deletes the rows and leaves the manifest in one transaction;
`DeleteFile` is one file, `StorageFails` a refusal, `CrashPurger` a run that is
lost, `ResumeFiles` a later run from the manifest. Runs may overlap, because the
advisory lock is taken on a pooled connection. Makers start a file, write it and
name it in a row (`StartFile`, `WriteFile`, `RecordFile`); what was not named
when the row went is in `strays`, and no later run knows of it.

### Assistant

A run goes from queued over searching and generating to its end. The recovery
worker claims a queued run or an active one that is two minutes old, without a
name and a lease; the process reserves, marks the operation, generates, settles,
and saves message and end in one transaction. `LeaveRun` is a process that dies
between any two of them; `ReconcileRun` is the ledger's reconciler, as far as it
meets the operation of a run.

## 3. Runs

| Run | Module | Instance | Properties | Result |
|---|---|---|---|---|
| `queue_roomy` | `MCProcessingQueue` | 2 workers, groups of 2, 2 jobs, 1 fault, 3 requests | `TypeOK`, `AttemptsWithinBudget`, `ClaimKept` | hold |
| `queue_blocked` | `MCProcessingQueue` | 1 worker, group of 1 (the default), no fault | `ClaimKept` | **violated** |
| `pipeline_users` | `MCCallPipeline` | 2 handlers, 2 people, every request, 1 fault | `TypeOK`, `SettledBeforeShown` | hold |
| `pipeline_faults` | `MCCallPipeline` | 2 handlers, 3 attempts, 2 faults, re-analysis, empty wallet | `BusyCallHasJob`, `AnalysisIsQueued`, `ShownTextExists`, `CallComesToRest` | hold |
| `pipeline_cancel` | `MCCallPipeline` | 2 handlers, one cancel, no fault | `CancelSticks` | **violated** |
| `pipeline_rerun` | `MCCallPipeline` | 2 handlers, one re-analysis, no fault | `RequestedAnalysisEnds` | **violated** |
| `ledger` | `MCCreditLedger` | 2 workers, 2 grants (3 + 2 credits), 2 operations (2, 3), cap of 3 edited once, 1 fault | `TypeOK`, `GrantsBalance`, `ChargeCovered`, `SettledIsFinal`, `CapIsHard`, `ImplementsWallet` | hold |
| `ledger_release` | `MCCreditLedger` | 1 worker, no fault | `ProviderChargeKept` | **violated** |
| `live` | `MCLive` | queue: 1 worker, group of 2, 1 fault; ledger: 1 worker, 2 faults, a reconciler that takes 1; letters: 2 senders, 1 loss or delay | `DeliveryTypeOK`, `SendsBounded`, `ToldOnce`; `NoJobForgotten`, `ReservationMoves`, `LetterSettles` | hold |
| `suite` | `MCSuite` | section 4 | `SuiteTypeOK` and the properties of nine components, below | hold |
| `analysis_uncertain` | `StagedAnalysis` | 2 handlers, 2 stages, 3 tries, 2 mishaps, no edit | `UncertainNotRepeated` | **violated** |
| `ownership_plan` | `Ownership` | 2 companies, 2 people | `PlanMovesWhole` | **violated** |

What they show:

* **queue_roomy**: as long as every claim finds room in its group, no crash, no
  deleted row and no dead context makes a healthy goroutine lose its claim, and
  late reports of goroutines that have lost theirs never push a row past its
  attempts or leave one pending with none.
* **pipeline_users**: in every interleaving of two handlers with cancels,
  restarts, the bin, re-analyses, reconciliation and a fault, a text or an
  analysis exists only over a settled operation.
* **pipeline_faults**: two faults at any statement. A retry goes on from where
  its predecessor was lost: `processing` is no dead end, a transcribed call gets
  its analysis queued and does not have its text cleared. No cancels and no bin:
  with them these properties fail for the reasons of the findings below.
* **ledger**: five properties of the sum of all processes, and the refinement:
  seen through totals, every step is a deposit, a hold of the full maximum, or a
  close that gives back what was not charged.
* **live**: what has to end does.
  `NoJobForgotten`: a job in the table ends, is removed, or is left `running`
  with every attempt spent; the last case is in the property because it is in
  the code: `TakeNext` does not reclaim such a row and nothing else looks at it.
  `ReservationMoves`: whatever becomes of a worker, a reservation with fewer than
  a batch of older unfinished operations in front of it reaches the provider or
  is handed back, since the reconciler comes back every five minutes. Without
  that condition it fails: with two faults and a batch of one, an operation in
  `reconciling` keeps the reservation behind it for ever. `LetterSettles`: a queued letter is sent, dead or stopped, past lost
  senders and leases that end under a living one. `ToldOnce`: a
  mark is told once, in the channels wanted then: it never rings again, and no
  letter is added for a channel that was switched on later; `SendsBounded`: only a worker that is lost or late takes a
  letter past its five attempts, by one each, because the attempt is counted at
  the claim and the limit looked at after a refusal.
* **suite**, by component:
  * analysis: `WordsLostOnlyOvertaken`, `ProgressKept`, `TaskSentOnce` — a late
    handler, a redelivered job, an edit, a selected revision and a new request
    in any order never take published progress back or send a task a second
    time, and leave a done analysis of other words in two ways only: an edit
    commits that opened before the analysis was done (`UnseenEditEnds`, see
    below), or a statement goes on that waited for an edit's lock (`WaitEnds`);
  * review: `OneVerdictInForce`, `SecondOpinionIsAnothers`,
    `VerdictOfSeenAnalysis` — appeals, re-runs and pages that are old by the
    time they are used;
  * sessions: `OneSuccessor`, `AccessHasPresentRole`, `EndedForGood` — two tabs
    with one token, logouts, resets and a change of the role between any two
    statements of a refresh;
  * ingest: `CompletedOnce`, `CopiesBounded`, `DeliveredIsAnswered` — a lease
    that ends under its worker may make a second call of a recording (at most
    one per claim), and still the customer hears of one;
  * companies: `OwnerSeated` — offers, invitations, departures and deputies
    answered after what they were made for has changed;
  * tasks: `TaskPerDecision`, `TaskLinkKept` — the portal has a task for the
    approval and one more for every decision to create it again;
  * actions: `ClosedKept` — no worker and no request that chose an action while
    it was open changes it once it is closed;
  * files: `PurgedFilesTracked` — overlapping purges, refusals, crashes and
    makers of files;
  * assistant: `AnswersInTurn` — a process may die anywhere and be started
    again, and every answer stands under its question, once, paid for.

### Findings

The six runs marked violated check what a comment or a document of the
repository says; `PROJECT.json` quotes it.

1. `queue_blocked`: a job is claimed before there is room to run it. While
   `group.Go` waits, nobody refreshes its lock; it goes stale and is claimed
   again, and both goroutines run it. With `WORKER_LIMIT=1`, the default, one
   long analysis with heartbeats is enough.
2. `pipeline_cancel`: a running handler is not told of a cancel and its next
   status write has no condition on the status: the call leaves `cancelled`.
3. `pipeline_rerun`: `Enqueue` keeps a running row. A re-analysis asked for
   after the previous job saved its result and before it reported is swallowed
   by that report, and the analysis stays pending.
4. `ledger_release`: an operation listed as reserved may have reached the
   provider when it is settled at nothing, since the settlement accepts
   `provider_running`; in the canceller and in the reconciler.
5. `analysis_uncertain`: a task whose answer is unknown is to be reconciled and
   not asked for again (`repository/analysis/progress.go:50-51`), but the runner
   takes that error for a bad answer and asks for the same stage under its next
   try, another key, another charge (`analyzer/analysisflow/runner.go:949`).
6. `ownership_plan`: a plan that covers several companies is to move with all of
   them (`service/company/ownership.go:27-29`). That is looked at when an offer
   is made; when it is answered the offer moves the company it named and the
   whole plan (`repository/company/ownership.go:270`), and a second company
   opened in between stays behind without one.

Met on the way, without a run:

* Edits of a transcript: words that changed are to leave an analysis stale, to be
  run again "before anyone trusts it again"
  (`service/transcriptionedit/service.go:237-239`). The edit marks what was done
  when its transaction opened; `MarkDone` asks for the revision that is committed
  (`repository/analysis/update_status.go:39-40`). An analysis that is finished
  between the two is marked by neither: the new words are shown with a finished
  analysis of the old ones. `DoneMatchesText` is the promise and does not hold;
  `WordsLostOnlyOvertaken` checks that nothing else breaks it.
* Reconciler: it takes the 200 oldest of what is reserved, with the provider or
  reconciling (`credit_reconciliation.go:65`, `reconciliation_worker.go:27`), and
  nothing moves a row out of `reconciling` but a retry of its work: 200 such rows
  keep every newer stale reservation from being released. No document promises
  otherwise; `ReservationMoves` says how far the code goes.
* Ingest: the audit row that a retried item writes names a column the table does
  not have (`RetryIngest`), so that transaction cannot commit.
* Queue, pipeline, ledger: the group limit does not hold across batches when
  `runBatch` returns without waiting; restarting a cancelled call conflicts with
  its own settled operation on every attempt; switching to transcription only
  leaves the analysis job in the queue; an operation in `reconciling` is settled
  by nobody but a retry of its work; an allowance grant expires after a calendar
  month and its period after 30 days.
* Actions: taking a status back restores `overdue` though the action was
  rescheduled in between (`service/action/mutations.go:155`); an action handed to
  a successor who is no member of the department is found invalid again by the
  next run (`worker.go:228`, `208`); an approved transfer leaves the mark of an
  invalid assignment (`mutations.go:467`); the bin is asked before the
  transaction (`service.go:34-43`), so an action of a binned call may change; a
  transfer asked for after the action was cancelled stays pending
  (`mutations.go:359`).
* Files: a report or a masked copy that was written when the row went and not
  named yet is on no manifest (`service/report/create.go:118-130`,
  `service/privacy/media.go:305`). `PurgedFilesTracked` excepts them by name.
* Assistant: with two processes an old run would be taken from a living one
  (`assistant/service.go:101`, `827`, `949` against `58-60`), so `AnswersInTurn`
  is stated for one; a run whose answer was paid for and lost is refused by the
  ledger when it is taken up again, and fails.
* Bitrix24: a failed sync keeps the unique row of its action and cannot be sent
  again (`action_sync.go:96`); a decision that fails gives back the lease
  whosever it is (`action_reconciliation.go:343`); accepting the portal's task
  rewrites an action that is closed (`action_reconciliation.go:287`).

## 4. Bounds, and why they are enough

* **Queue.** Two jobs of different calls, because what one job does to another
  goes through the batch they share and a heartbeat refreshes a call; one of
  each type, since only an analysis sends heartbeats. Two workers are the
  smallest number that can take a claim from each other. `StaleAfter = 1`,
  `MaxQuiet = 1` put the margin at its smallest legal value. Two attempts: a
  first, and a last one. Two batch names per worker: one left behind, one in use.
  Three goroutine names in `queue_blocked`: at work, blocked, reclaiming.
* **Pipeline.** One call: calls meet only in the batch (the queue's subject) and
  in the wallet (`funded`, which others drain and billing fills). Two handlers
  run the two jobs of the call at once, or one job twice after a loss. Two
  people and three requests allow a restart against a delete against a cancel.
  Handlers outlive any number of retries, `MaxAttempts` is the bound.
* **Ledger.** Two grants, so that the second operation has to take both and a
  split charge can go wrong; a credit total of five against maximums of 2 + 3
  and a cap of 3, so that both the wallet and the cap refuse; costs of 1 and 5,
  under and above a maximum (in `live` 1: what a charge comes to moves no
  reservation); `ReconcileBatch = 1` for the 200 of the code, so that one
  unfinished operation fills the batch and hides the other; one company stands for company, department and
  application caps, which the code checks by the same expression.
* **Letters** (`live`). Two replicas, an alert and a reset, batches of two, so
  that one sender can hold both while the other takes one back; two attempts, a
  first and a last; one loss or delay.
* **Staged analysis** (`suite`). Two handlers, two texts of two revisions, two
  stages (one that saves progress, one that finishes), two claims of the job and
  one try per stage; a second try is the subject of `analysis_uncertain`. An
  edit and a selection may be open at any statement of both handlers, one at a
  time as in the code, and be abandoned any number of times.
  `MaxStirs = 3`: of an edit, a selection, a new request and a mishap, three in
  one behaviour.
* **Review.** Three people, one who manages, one who is counted, one who is
  both; two verdicts and an appeal, two revisions of the words, one re-run.
* **Sessions.** Two logins, two requests in flight, three tokens (a first, its
  successor, one of the other login), versions 1 and 2, two roles, one link.
* **Ingest.** One recording with two workers and two claims; two endpoints, two
  webhook workers, two tries, one loss: the second endpoint is what a late
  worker would forget.
* **Companies.** Two companies and two people, who can hold the two roles of an
  offer both ways round; one invitation, one offer and one frozen or deleted
  company at a time, and of an invitation, an offer and a request that was
  checked and not written, two. `OwnerSeated` is proved for any number.
* **Bitrix24.** One row, two replicas, a person; two tasks in the portal, and
  two decisions to create one.
* **Actions.** Two requests, a worker with an old page, a seller and an owner.
* **Purge.** Two runs, the recording with its ASR cache and masked copy, by
  retention or by the bin.
* **Assistant.** One process, two questions; the second is the one an answer
  that comes late would follow.
* Larger instances, checked by themselves and without an error: two rows in
  Bitrix24 (835 000 states), a leader beside the owner in the department of an
  action (811 000), a report and a third ground for the purge (1.25 million), a
  third question to the assistant (51 000).
* Counters that only go down, or that a guard compares with a bound (`MaxFaults`,
  `MaxRequests`, `MaxEdits`, `MaxMishaps`, `MaxSelects`, `MaxLosses`,
  `MaxDelays`, `MaxStirs`, `MaxStopped`, `MaxOutstanding`), limit how often something outside the
  program happens; no guard of the code depends on them. `MaxAttempts`,
  `MaxTakes`, `MaxClaims`, `MaxHookTries`, `MaxSends` and `CompanyLimit` are
  limits of the code.
* Symmetry over workers, goroutines, handlers and people is used in runs of
  safety properties only. In `suite` interchangeable things of different
  components share their names, so that one group of permutations serves all.
* Deadlock is not checked: requests and faults are bounded and a quiet system
  stops. The liveness properties say that it does not stop too early.

## 5. Fairness, and what justifies it

* Weak fairness of the worker loop and of every goroutine and handler: a running
  Go process schedules them and every call they make has a timeout.
* Strong fairness of claiming a given job: `TakeNext` orders by `available_at`
  and skips locked rows, so a claimable row cannot be passed for ever, though
  the worker that would take it may be busy again and again.
* Clocks (`Tick`, `GoStale`, `Ripen`) and `TopUp`: time passes, and billing
  periods begin; a job parked for credits is tried every 15 minutes for ever.
* The reconciler: a ticker of five minutes, for ever. Weak fairness of a round
  that has a given operation in its batch (`ScanReaches`), only while fewer than
  `ReconcileBatch` unfinished ones started before it: then no age, lock or order
  keeps it out for good, as time passes and transactions end. Nothing is asked
  for an operation with a full batch in front of it.
* Senders of letters (`SenderStep`): every replica ticks, and a send has a
  timeout. Backoffs and leases are times in a column and end by themselves
  (`BackoffEnds`, `LeaseEnds`).
* The rest of a request that has begun. That nobody begins one, and that nothing
  fails, is always allowed: requests, losses, delays and faults have no fairness.
* In `MCLive` each condition is that of its module, for the behaviours whose
  focus it is: `Focus` is a conjunct of every fair action, so that fairness asks
  nothing of components that stand still. `suite` checks safety and assumes none.

## 6. Proofs

Assumed of the constants: only the named ASSUMEs of the modules (bounds are
natural numbers, a margin `MaxQuiet <= StaleAfter`, finitely many goroutines,
workers and operations, maximums and sizes are natural numbers, names for nobody
are none of the people, a request that writes an action is not one of its
workers, a call is purged for some reason). The theorems hold for any number of
jobs, workers, handlers, people, companies, sessions, tokens, revisions, stages,
letters, verdicts, questions, grants and operations. Four of them have a
hypothesis, stated in the theorem: `NoClaimWaits` and the room of a group
(finding 1 is what happens without), `Undisturbed` (`pipeline_cancel` shows what
a cancel does) and `OneProcess` (what `deploy/docker-compose.yaml` starts).

* **`ProcessingQueueProofs`**. `TypeCorrect` and `AttemptsSafe` come from one
  lemma, `NextRows`: whatever happens, a row makes one of the steps of
  `RowStep`, and each of these keeps `RowBudget` (`JobRowsProofs`).
  `ClaimsSafe`: `Spec /\ []NoClaimWaits => []ClaimKept`. `ClaimKept` is not
  inductive, as it does not say why a row is not stale; `Holds(g)` adds that the
  lock of a row is never older than the silence of the goroutine that holds it,
  and that `id` of a goroutine is one the row has had. `NoClaimWaits` says no
  goroutine is blocked on a full group: the theorem says that finding 1 is the
  only way to lose a claim. `ClaimsSafeWithRoom` discharges it when there are at
  most `Limit` goroutines, by counting.
* **`CallPipelineProofs`**. `TypeCorrect`, and `TextIsSettled`: `Spec =>
  []SettledBeforeShown`. The strengthening `PaidInv` says in addition that a
  handler at a statement which publishes has *earned* it: at `persist` the
  operation is settled, at the publishing statements of an analysis and
  for a person about to reset one too; at `mark`, `provider` and `settle` the
  operation exists. It is inductive because a settled operation never changes
  (`OperationIsKept`), so a handler that earned its place cannot lose it while
  cancels, the reconciler and other handlers act.
  `BusyCallsAreServed`, `AnalysesAreQueued` and `TextsAreShown` assume
  `Undisturbed`, that nobody offers to cancel or to bin the call; analyses by
  hand, switches to transcription only, faults and reclaims may come at any
  statement. None of the three is inductive: `TextInv` ties
  together the tables (`Consistent`: a busy call has no text and no analysis
  job, a job that is done led onward), the place of every handler over them
  (`Stands`: before the text the call is busy and the copy of its flag is
  right, at `enqueue` the text is there, at `finish` the analysis job is) and
  of every person (`Asks`). What makes it hold is `OneHolder`: the transcription
  job is one handler's at a time, since a claim needs a row that is ripe or
  stale, and the row under a handler is neither. `Kept` names what no step takes
  back, so that a step of one actor is checked once against all the others
  (`KeptStands`). Without `Undisturbed` a cancel removes the row under its
  handler: on the instance of `pipeline_cancel`, `BusyCallHasJob` fails; a call
  binned between the two statements of a final failure stays shown without its
  text.
* **`CreditLedgerProofs`**. `LedgerInvariant` proves `TypeOK /\ Allocated`
  together: that balances stay natural numbers needs that an operation is
  charged at most what it had taken, and that needs the types. From it
  `TypeCorrect` (no grant is overdrawn), `ChargesAreCovered` and
  `SettlementIsFinal`. `TransactionsBalance` proves the posting rule: in every
  step and for every grant, what becomes available is what stops being held, or
  what a new grant brings.
  `NoCreditIsLost` sums that rule up: `Spec => []GrantsBalance`. The sums are
  `Total`, a fold in whatever order `CHOOSE` takes, and there is no induction
  theorem to use, as the library's take an operator as a parameter; each fact
  about `Total` is proved from a smallest subset at which it would fail
  (`SmallestOne`): a fold of every finite domain exists (`AdderExists`), two
  agree (`AddersAgree`), so the order does not matter, and one argument more or
  changed changes the sum by as much (`TotalAdds`, `TotalChanges`).
  `CapsAreHard` needs what a reservation adds to a subject and that no other
  step adds to one (`CommittedMoves`). `LedgerIsAWallet` is the refinement:
  `Disclosed` says that an operation with a row holds its maximum, from
  whichever grants; with it a reservation is a `Hold`, a settlement a `Close`, a
  new grant a `Deposit`, and everything else stutters.
* **`StagedProofs`**. `StagesTyped`, `TasksSentOnce`, `DoneIsOfShownWords` and
  `ProgressIsKept` from `StagedInv`, the types with `TasksOwned`.
  `TaskSentOnce` is not inductive: `TasksOwned` adds that whoever is about to
  send a task claimed it himself, alone, and that nobody has sent it; a row goes
  back from claimed to unclaimed in such hands only. `DoneIsOfShownWords`
  is a theorem about steps: `RowGoes` says that a row becomes done only for a run
  of the active revision, if its handler had not waited (`WaitIsOver`), and
  `CommitGoes` that the edit which commits either has marked the row, shows the
  same words, or could not see the row done.
  The newest open attempt exists by well-foundedness (`LastOne`).
  `AnswersStandInTurn`, about `Assistant` under `OneProcess`: `AnswerInv` adds
  that the question of an active run is the last message, so whichever run is
  taken up again answers the end of the chat, and that what the process holds is
  active and, before it is saved with its sources, settled.
  The types alone, `ChatsAreTyped`, hold for any number of processes.
* **`OutboxProofs`**. `CompletionsAreOnce` and `CopiesAreClaimed` from `ItemsInv`:
  a busy worker has an item and one that completes it a call, and the calls made
  of an item with the workers about to make one are no more than its claims, a
  count over a finite set of workers. `EventsEndAnswered` from `HookInv`: every
  try made or under way was claimed, so the next one is a row that is free.
  `AlertsRingOnce`: what rang or has a letter has its mark, and a mark is asked
  for before anything is told. `SendsAreBounded` and `LettersAreTyped` from `SendInv`, another budget:
  an attempt is in the hands of one sender and numbered by a claim, so a request
  spends it once; an attempt past the fifth was opened by a worker that died or
  outlived its lease. `TasksAreAskedFor` and `LinksAreKept`
  from `SyncInv`, a budget: the tasks a row has in the portal, the workers that
  may yet create one (`Creators`) and the row itself while it waits for a claim
  (`Left`) are together no more than the approval and the decisions to try
  again. A claim moves a unit from the row to a worker, the request to the portal
  spends it, a worker whose lease was taken keeps his, and a doubtful answer
  returns none. Only a synced row has a task, so no claim finds a linked one.
  `OutboxIsTyped` and `TasksAreTyped` bound the counters of these tables. The tries
  of a row are not capped by a guard of their own: `SyncFits` derives the bound
  from attempts and decisions, one less while the row waits for a claim.
* **`CompanyProofs`**. `OwnersAreSeated`: `OwnershipSpec => []OwnerSeated`. With
  the shapes of the tables it is inductive as it stands: every request that
  touches members leaves the seat of the present owner, whatever was checked
  before. That is what a late answer rests on. `ClosedActionsAreKept` from
  `ActionInv`: whoever still has the row as he chose it chose it open
  (`ChosenOpen`), so a statement that looks for the row as it was finds no closed
  one. `PurgedFilesAreTracked` from `PurgeInv`: once the row is gone, what is owed
  is on the manifest and before everyone who goes over it, which two workers
  over the same files keep since a file that went is owed to neither.
  `OneVerdictIsInForce`, `SecondOpinionsAreAnothers` and
  `VerdictsAreOfSeenAnalyses` from `ReviewInv`, the types with `VerdictsRuled`:
  a verdict is published exactly when the review names it, an open appeal is
  against that one, and there is at most one that was replaced, by another
  author.
  `OneAnswerPerToken`, `RolesArePresent`, `EndingsAreFinal` from `SessionsInv`: a
  token of the future is no row's, so a rotation writes a hash that no other row
  has; a token that was answered is no row's hash any more, so it is not answered
  twice; an access token is never of a later version than its session, so that
  the version a change of the role writes outdates it.
  The types of each component are theorems too (`SessionsAreTyped`,
  `CompaniesAreTyped`, `ActionsAreTyped`, `PurgesAreTyped`, `ReviewsAreTyped`).
* **`SuiteProofs`**. `RunOfEach`: a behaviour of the graph that nine components
  share is a behaviour of each of them, as a step of one leaves the others alone.
  So whatever is proved of a component holds on that graph, and `EverythingIsTyped`
  follows from the types of the nine.

Only model-checked: the liveness properties (`NoJobForgotten`,
`CallComesToRest`, `ReservationMoves`, `LetterSettles`), which rest on fairness
and ENABLED, beyond the provers at hand. Every safety property of a passing run
is a theorem.

The three pipeline properties are stated and checked without cancels and the
bin: a cancel takes the row of a busy call (finding 2), a binned call can be
shown without its text, and that `BusyCallHasJob` and `AnalysisIsQueued` survive
the bin is not proved.

## 7. What the models leave out

* **Between modules.** The pipeline takes exclusive claims for granted
  (`GoStale` only ages a row nobody works on), which is `ClaimsSafeWithRoom`;
  where finding 1 strikes, its results do not apply. `Ripen` does not come
  between parking a job and the status write after it (15 minutes against one
  statement). The pipeline has the ledger's operation as a status, and the
  stages of an analysis as one step, `RunModel`; `StagedAnalysis` has the stages
  and takes two handlers with one job as they come, so it does not rest on
  exclusive claims.
* **Pipeline.** Privacy states, subjects, folders and upload checks. A refused
  request changes nothing and is omitted.
* **Ledger.** Refused reservations, a reservation repeated with another maximum
  (a conflict), budgets of integration keys, sandbox wallets, purchases and
  corrections by administrators, alerts. One billing period. One reconciler. The vendor's loss above a maximum is outside the account.
  `Assistant` has the operation of a run as a status; the gap of finding 4
  between listing and release is not repeated there, nor a settlement that
  committed and whose answer was lost.
* **Staged analysis.** What a stage asks and how its answer is validated and
  merged; several windows of one transcript, which a handler takes one after the
  other; assignments of speakers, which change no words. An edit whose UPDATE
  meets a row that was written since it opened fails in the code; the model lets
  it go on if that row is done again, like an edit that opened later.
* **Review.** Suggested batches, calibration, queries. **Sessions.** What a
  password is, counters of failed attempts. **Ingest.** Uploads in parts, keys,
  budgets and the sandbox; retrying and cancelling an item by hand
  (`RetryIngest`, `CancelIngest`). **Delivery.** Which facts make a digest, what a
  letter says. **Companies.** Departments, seat limits, the reason of a freeze.
  **Actions.** Wording, evidence, reminders; `ClosedKept` is about the writers
  in `service/action` and not about a person who accepts a task of the portal.
  **Purge.** A file that is recorded between the listing and the DELETE is part of
  the atomic `DeleteRows` and ends like the other strays. Instructions and
  scorecard revisions that nothing uses are swept by single statements. **Assistant.** Retrieval, drafts, exports; one process, as
  `deploy/docker-compose.yaml` starts one.
* **Hazards without a property** are in `PROJECT.json` with the reason: the code
  promises nothing there, or a property would repeat a finding.
* **Not modelled.** Text processing (compilation of instructions, masking, the
  assistant's index), projections rebuilt by aggregation (analytics, speech,
  growth), reads and layout (reports, search, contacts, folders), administrative
  reads and single-transaction edits, HTTP, converters, providers and storage,
  the OAuth connection and import of the portal: SQL filters, layout and input
  or output, where nothing depends on an order. Compilation and import have a
  claim and a report, and would repeat `JobRows` and `Ingest`.

## 8. What could come next

1. `RunModel` of `CallPipeline` as a refinement: `StagedAnalysis` shown to
   implement an abstract analysis that the pipeline uses.
2. Proofs: `BusyCallHasJob` and `AnalysisIsQueued` with the bin, which a
   handler may outlive; the pipeline's claims from those of `ProcessingQueue`.
3. Budgets of integration keys and sandbox wallets in the ledger; uploads in
   parts in front of `Ingest`.
4. A run of two processes of the assistant once its recovery has a lease.

---------------------------- MODULE CallPipeline ----------------------------
(***************************************************************************)
(* One call on its way through the queue, statement by statement: the two  *)
(* job handlers of the worker (service/processing/process_call.go,         *)
(* service/analysis/analyze_call.go, the reports of worker.go) against the *)
(* people who cancel, restart, switch, bin, restore and re-analyse the     *)
(* call (service/call, repository/call) and the credit operation of its    *)
(* transcription.                                                          *)
(*                                                                         *)
(* A handler and a request are sequences of statements with no lock and no *)
(* transaction around them; each statement is a step here, and what the    *)
(* code read earlier it keeps in a local copy.  How jobs are claimed is    *)
(* ProcessingQueue's subject: here a claimed row goes stale only when      *)
(* nobody works on it, which is its theorem ClaimsSafeWithRoom.  Money is  *)
(* CreditLedger's: here the call has the one operation that its            *)
(* transcription reserves, and an analysis only asks whether there is      *)
(* credit at all.                                                          *)
(***************************************************************************)
EXTENDS JobRows

CONSTANTS
  Handlers,     \* goroutines that may work on the call at once
  Users,        \* people who send requests, one request at a time each
  Offered,      \* the kinds of request they send
  MaxFaults,    \* failed calls and lost handlers in a behaviour (bound)
  MaxRequests   \* requests in a behaviour (bound)

Requests == {"cancel", "restart", "delete", "restore", "analyze", "drain"}

ASSUME OfferedAssumption == Offered \subseteq Requests
ASSUME BoundsAssumption == MaxFaults \in Nat /\ MaxRequests \in Nat

Transcribe == "transcribe_call"
Analyze == "analyze_call"
JobTypes == {Transcribe, Analyze}

VARIABLES
  call,           \* the row of calls
  transcription,  \* status of its row in call_transcriptions; text with "transcribed"
  analysis,       \* status of its row in call_analyses
  operation,      \* status of the usage operation of the transcription
  rows,           \* JobTypes -> its rows in processing_jobs
  handler,        \* Handlers -> the next statement and the local copies
  user,           \* Users -> likewise
  funded,         \* whether a reservation would succeed
  faults,         \* faults that may still happen
  requests        \* requests that may still come

work == <<call, transcription, analysis, operation, rows>>
boundVars == <<faults, requests>>
vars == <<call, transcription, analysis, operation, rows, handler, user, funded,
          faults, requests>>

CallStatus == {"new", "processing", "awaiting_credits", "transcribed", "analyzed",
               "failed", "cancelled"}

(* isBeingProcessed: the queue still owns the call. *)
BusyStatus == {"new", "processing", "awaiting_credits"}

TranscriptionStatus == {"none", "processing", "transcribed", "failed"}
AnalysisStatus == {"none", "pending", "processing", "done", "failed"}

(* status of usage_operations; a settled one is told apart by its charge. *)
Settled == {"released", "charged"}
OperationStatus == {"none", "reserved", "provider_running", "reconciling"} \cup Settled

TranscribeSteps == {"start", "create", "reserve", "mark", "provider", "settle", "persist",
                    "enqueue", "awaiting"}
AnalyzeSteps == {"check", "transcript", "pending", "processing", "model", "save", "analyzed"}
ReportSteps == {"finish", "retry", "permanent", "park"}
HandlerSteps == {"free", "read", "failWork", "failCall"}
                  \cup TranscribeSteps \cup AnalyzeSteps \cup ReportSteps
UserSteps == {"idle", "list", "release", "restart", "switch", "delete", "pending",
              "enqueue", "recover"}

Call(status, only, deleted) == [status |-> status, only |-> only, deleted |-> deleted]
HandlerAt(pc, job, id, only) == [pc |-> pc, job |-> job, id |-> id, only |-> only]
UserAt(pc, seen, only) == [pc |-> pc, seen |-> seen, only |-> only]

Calls == [status : CallStatus, only : BOOLEAN, deleted : BOOLEAN]
HandlerStates == [pc : HandlerSteps, job : JobTypes, id : Nat, only : BOOLEAN]
UserStates == [pc : UserSteps, seen : CallStatus, only : BOOLEAN]

Free == HandlerAt("free", Transcribe, 0, FALSE)
Idle == UserAt("idle", "new", FALSE)

TypeOK ==
  /\ call \in Calls
  /\ transcription \in TranscriptionStatus
  /\ analysis \in AnalysisStatus
  /\ operation \in OperationStatus
  /\ rows \in [JobTypes -> Rows]
  /\ handler \in [Handlers -> HandlerStates]
  /\ user \in [Users -> UserStates]
  /\ funded \in BOOLEAN
  /\ faults \in 0 .. MaxFaults
  /\ requests \in 0 .. MaxRequests

(* createCallWithProcessingJob: an upload writes the call and its job in one *)
(* transaction.                                                             *)
Init ==
  /\ \E only \in BOOLEAN : call = Call("new", only, FALSE)
  /\ transcription = "none"
  /\ analysis = "none"
  /\ operation = "none"
  /\ rows = [j \in JobTypes |-> IF j = Transcribe THEN Inserted(NoRow) ELSE NoRow]
  /\ handler = [h \in Handlers |-> Free]
  /\ user = [u \in Users |-> Idle]
  /\ funded \in BOOLEAN
  /\ faults = MaxFaults
  /\ requests = MaxRequests

-----------------------------------------------------------------------------
(* Statements on the tables *)

WithStatus(status) == Call(status, call.only, call.deleted)

JobsRemoved == [j \in JobTypes |-> Removed(rows[j])]

AnalysisEnqueued == [rows EXCEPT ![Analyze] = Enqueued(@)]

(* ReserveCredits with the key of the call: one operation for ever.  An *)
(* operation that exists is returned whatever became of it.             *)
Reserved(o) == IF o = "none" THEN "reserved" ELSE o

(* Mutant of Settlable: an unknown outcome counts as settled. *)
SettlableAlways(o) == TRUE

(* SettleCredits; an operation under reconciliation refuses. *)
Settlable(o) == o # "reconciling"
SettledAs(o, outcome) == IF o \in {"reserved", "provider_running"} THEN outcome ELSE o

(* MarkCreditOperationReconciling *)
Reconciled(o) == IF o \in {"reserved", "provider_running"} THEN "reconciling" ELSE o

-----------------------------------------------------------------------------
(* Control of a handler *)

Goto(h, pc) ==
  handler' = [handler EXCEPT ![h] = HandlerAt(pc, @.job, @.id, @.only)]

At(h, pc) == handler[h].pc = pc

Finds(h) ==
  LET r == rows[handler[h].job] IN Present(r) /\ r.id = handler[h].id

Holding(j) ==
  {h \in Handlers : ~At(h, "free") /\ handler[h].job = j /\ handler[h].id = rows[j].id}

Take(h, j) ==
  /\ At(h, "free")
  /\ Claimable(rows[j])
  /\ rows' = [rows EXCEPT ![j] = Claimed(@)]
  /\ handler' = [handler EXCEPT ![h] = HandlerAt("read", j, rows[j].id, FALSE)]
  /\ UNCHANGED <<call, transcription, analysis, operation, user, funded, boundVars>>

-----------------------------------------------------------------------------
(* The transcription job: processTranscribeCallWithMode *)

(* Mutant of StepAfterRead: a call in processing is left to whoever began it. *)
StepAfterReadTrusting ==
  CASE call.deleted                              -> "permanent"
    [] call.status \in {"analyzed", "processing"} -> "finish"
    [] call.status = "transcribed"               -> IF call.only THEN "finish" ELSE "enqueue"
    [] call.status \in {"new", "awaiting_credits"} -> "start"
    [] OTHER                                     -> "permanent"

(* Mutant of StepAfterRead: a transcribed call has nothing left to do. *)
StepAfterReadForgetful ==
  CASE call.deleted                              -> "permanent"
    [] call.status \in {"analyzed", "transcribed"} -> "finish"
    [] call.status \in {"new", "awaiting_credits"} -> "start"
    [] call.status = "processing"                -> "create"
    [] OTHER                                     -> "permanent"

(* Mutant of StepAfterRead: a transcribed call is transcribed again. *)
StepAfterReadRepeating ==
  CASE call.deleted                              -> "permanent"
    [] call.status = "analyzed"                  -> "finish"
    [] call.status \in {"new", "awaiting_credits"} -> "start"
    [] call.status \in {"processing", "transcribed"} -> "create"
    [] OTHER                                     -> "permanent"

StepAfterRead ==
  CASE call.deleted                              -> "permanent"
    [] call.status = "analyzed"                  -> "finish"
    [] call.status = "transcribed" /\ call.only  -> "finish"
    [] call.status = "transcribed" /\ ~call.only -> "enqueue"
    [] call.status \in {"new", "awaiting_credits"} -> "start"
    [] call.status = "processing"                -> "create"
    [] OTHER                                     -> "permanent"

TranscribeRead(h) ==
  /\ At(h, "read") /\ handler[h].job = Transcribe
  /\ handler' = [handler EXCEPT ![h] =
                   HandlerAt(StepAfterRead, @.job, @.id, call.only)]
  /\ UNCHANGED <<work, user, funded, boundVars>>

(* UpdateCallStatus asks for nothing; the row it returns replaces the copy. *)
Start(h) ==
  /\ At(h, "start")
  /\ call' = WithStatus("processing")
  /\ handler' = [handler EXCEPT ![h] = HandlerAt("create", @.job, @.id, call.only)]
  /\ UNCHANGED <<transcription, analysis, operation, rows, user, funded, boundVars>>

(* The upsert clears a text that is there. *)
CreateTranscription(h) ==
  /\ At(h, "create")
  /\ transcription' = "processing"
  /\ Goto(h, "reserve")
  /\ UNCHANGED <<call, analysis, operation, rows, user, funded, boundVars>>

Reserve(h) ==
  /\ At(h, "reserve")
  /\ \/ /\ operation = "none" /\ ~funded
        /\ Goto(h, "park")
        /\ UNCHANGED operation
     \/ /\ operation # "none" \/ funded
        /\ operation' = Reserved(operation)
        /\ Goto(h, "mark")
  /\ UNCHANGED <<call, transcription, analysis, rows, user, funded, boundVars>>

(* A settled operation is ErrCreditOperationConflict, which is retried. *)
MarkProviderRunning(h) ==
  /\ At(h, "mark")
  /\ IF operation \in Settled
     THEN Goto(h, "retry") /\ UNCHANGED operation
     ELSE Goto(h, "provider") /\ operation' = "provider_running"
  /\ UNCHANGED <<call, transcription, analysis, rows, user, funded, boundVars>>

ProviderAnswers(h) ==
  /\ At(h, "provider")
  /\ Goto(h, "settle")
  /\ UNCHANGED <<work, user, funded, boundVars>>

Settle(h) ==
  /\ At(h, "settle")
  /\ IF Settlable(operation)
     THEN Goto(h, "persist") /\ operation' = SettledAs(operation, "charged")
     ELSE Goto(h, "retry") /\ UNCHANGED operation
  /\ UNCHANGED <<call, transcription, analysis, rows, user, funded, boundVars>>

(* MarkTranscribedWithPrivacy: the text and the status in one transaction, *)
(* whatever the status was.  TranscriptionOnly is the local copy.          *)
Persist(h) ==
  /\ At(h, "persist")
  /\ transcription' = "transcribed"
  /\ call' = WithStatus("transcribed")
  /\ Goto(h, IF handler[h].only THEN "finish" ELSE "enqueue")
  /\ UNCHANGED <<analysis, operation, rows, user, funded, boundVars>>

EnqueueAnalysis(h) ==
  /\ At(h, "enqueue")
  /\ rows' = AnalysisEnqueued
  /\ Goto(h, "finish")
  /\ UNCHANGED <<call, transcription, analysis, operation, user, funded, boundVars>>

-----------------------------------------------------------------------------
(* The analysis job: ProcessAnalyzeCall and analyzeCall *)

AnalyzeRead(h) ==
  /\ At(h, "read") /\ handler[h].job = Analyze
  /\ Goto(h, IF call.deleted THEN "permanent" ELSE "check")
  /\ UNCHANGED <<work, user, funded, boundVars>>

(* A finished analysis makes this job a duplicate. *)
CheckAnalysis(h) ==
  /\ At(h, "check")
  /\ Goto(h, IF analysis \in {"done", "failed"} THEN "finish" ELSE "transcript")
  /\ UNCHANGED <<work, user, funded, boundVars>>

CheckTranscription(h) ==
  /\ At(h, "transcript")
  /\ Goto(h, CASE transcription = "none"        -> "retry"
                [] transcription = "transcribed" -> "pending"
                [] OTHER                         -> "permanent")
  /\ UNCHANGED <<work, user, funded, boundVars>>

CreatePendingAnalysis(h) ==
  /\ At(h, "pending")
  /\ analysis' = "pending"
  /\ Goto(h, "processing")
  /\ UNCHANGED <<call, transcription, operation, rows, user, funded, boundVars>>

MarkAnalysisProcessing(h) ==
  /\ At(h, "processing")
  /\ analysis' = "processing"
  /\ Goto(h, "model")
  /\ UNCHANGED <<call, transcription, operation, rows, user, funded, boundVars>>

(* The stages of the analysis, as one step: they run out of credit, they  *)
(* finish, or publishing a stage finds the row no longer processing, which *)
(* is ErrAnalysisSuperseded: the end of a job that belongs to an attempt,  *)
(* a retry of one that does not.                                           *)
RunModel(h) ==
  /\ At(h, "model")
  /\ \/ ~funded /\ Goto(h, "park")
     \/ analysis = "processing" /\ Goto(h, "save")
     \/ analysis # "processing" /\ (Goto(h, "finish") \/ Goto(h, "retry"))
  /\ UNCHANGED <<work, user, funded, boundVars>>

SaveAnalysis(h) ==
  /\ At(h, "save")
  /\ analysis' = "done"
  /\ Goto(h, "analyzed")
  /\ UNCHANGED <<call, transcription, operation, rows, user, funded, boundVars>>

MarkAnalyzed(h) ==
  /\ At(h, "analyzed")
  /\ call' = WithStatus("analyzed")
  /\ Goto(h, "finish")
  /\ UNCHANGED <<transcription, analysis, operation, rows, user, funded, boundVars>>

-----------------------------------------------------------------------------
(* How a job ends: the Mark statement first, then what it means for the call *)

Mark(r, pc) ==
  CASE pc = "finish"    -> MarkedDone(r)
    [] pc = "retry"     -> MarkedRetry(r)
    [] pc = "permanent" -> MarkedFailed(r)
    [] pc = "park"      -> MarkedWaitingForCredits(r)

StepAfterMark(r, h) ==
  CASE r.status = "failed"                             -> "failWork"
    [] At(h, "park") /\ handler[h].job = Transcribe    -> "awaiting"
    [] OTHER                                           -> "free"

Leave(h) == handler' = [handler EXCEPT ![h] = Free]

(* Without a row the error of the Mark statement ends the goroutine. *)
Report(h) ==
  /\ handler[h].pc \in ReportSteps
  /\ IF Finds(h)
     THEN LET r == Mark(rows[handler[h].job], handler[h].pc) IN
          /\ rows' = [rows EXCEPT ![handler[h].job] = r]
          /\ IF StepAfterMark(r, h) = "free" THEN Leave(h) ELSE Goto(h, StepAfterMark(r, h))
     ELSE Leave(h) /\ UNCHANGED rows
  /\ UNCHANGED <<call, transcription, analysis, operation, user, funded, boundVars>>

(* Mutant of MarkAwaiting: a status the calls table does not know. *)
MarkWaiting(h) ==
  /\ At(h, "awaiting")
  /\ call' = WithStatus("waiting")
  /\ Leave(h)
  /\ UNCHANGED <<transcription, analysis, operation, rows, user, funded, boundVars>>

(* MarkJobWaitingForCredits *)
MarkAwaiting(h) ==
  /\ At(h, "awaiting")
  /\ call' = WithStatus("awaiting_credits")
  /\ Leave(h)
  /\ UNCHANGED <<transcription, analysis, operation, rows, user, funded, boundVars>>

(* MarkJobFailed, MarkAnalyzeCallFailed: the work, text included, then the call. *)
FailWork(h) ==
  /\ At(h, "failWork")
  /\ IF handler[h].job = Transcribe
     THEN /\ transcription' = IF transcription = "none" THEN "none" ELSE "failed"
          /\ UNCHANGED analysis
     ELSE analysis' = "failed" /\ UNCHANGED transcription
  /\ Goto(h, "failCall")
  /\ UNCHANGED <<call, operation, rows, user, funded, boundVars>>

FailCall(h) ==
  /\ At(h, "failCall")
  /\ call' = WithStatus("failed")
  /\ Leave(h)
  /\ UNCHANGED <<transcription, analysis, operation, rows, user, funded, boundVars>>

-----------------------------------------------------------------------------
(* Faults *)

(* A statement or a provider fails: the job is retried.  A provider that   *)
(* fails leaves the outcome unknown, and the operation goes to reconciling. *)
Stumble(h) ==
  /\ handler[h].pc \in ({"read"} \cup TranscribeSteps \cup AnalyzeSteps) \ {"awaiting"}
  /\ faults > 0 /\ faults' = faults - 1
  /\ operation' = IF At(h, "provider") THEN Reconciled(operation) ELSE operation
  /\ Goto(h, "retry")
  /\ UNCHANGED <<call, transcription, analysis, rows, user, funded, requests>>

(* The handler is gone with its process, or its context with a goroutine of *)
(* the same batch that failed, or its Mark statement failed.  The report of *)
(* a cancelled provider call to the ledger has a context of its own.        *)
Vanish(h) ==
  /\ ~At(h, "free")
  /\ faults > 0 /\ faults' = faults - 1
  /\ operation' \in {operation,
                     IF At(h, "provider") THEN Reconciled(operation) ELSE operation}
  /\ Leave(h)
  /\ UNCHANGED <<call, transcription, analysis, rows, user, funded, requests>>

-----------------------------------------------------------------------------
(* Clocks *)

(* The lock of a running row nobody works on turns stale. *)
GoStale(j) ==
  /\ rows[j].status = "running" /\ ~Stale(rows[j]) /\ Holding(j) = {}
  /\ rows' = [rows EXCEPT ![j] = Aged(@)]
  /\ UNCHANGED <<call, transcription, analysis, operation, handler, user, funded, boundVars>>

(* available_at comes, minutes after the Mark statement that set it: the    *)
(* handler has made the one statement it has left after parking the job.   *)
Ripen(j) ==
  /\ rows[j].status = "pending" /\ ~rows[j].ripe
  /\ \A h \in Holding(j) : ~At(h, "awaiting")
  /\ rows' = [rows EXCEPT ![j] = Ripened(@)]
  /\ UNCHANGED <<call, transcription, analysis, operation, handler, user, funded, boundVars>>

(* ReconcileCreditOperations.  The 45 minutes count from the first          *)
(* reservation, which a retry does not renew, so a handler may be anywhere. *)
(* An operation it read as reserved is settled at nothing in a transaction  *)
(* of its own, when the provider may be running already.                    *)
Reconcile ==
  /\ operation \in {"reserved", "provider_running"}
  /\ operation' \in IF operation = "reserved" THEN {"released"}
                    ELSE {"reconciling", "released"}
  /\ UNCHANGED <<call, transcription, analysis, rows, handler, user, funded, boundVars>>

TopUp ==
  /\ ~funded /\ funded' = TRUE
  /\ UNCHANGED <<work, handler, user, boundVars>>

-----------------------------------------------------------------------------
(* Requests.  Each begins when its first statement runs; a request that is  *)
(* refused changes nothing and is left out.                                 *)

Begins(u, kind) ==
  /\ user[u].pc = "idle"
  /\ kind \in Offered
  /\ requests > 0 /\ requests' = requests - 1

Then(u, pc) == user' = [user EXCEPT ![u] = UserAt(pc, @.seen, @.only)]

Done(u) == user' = [user EXCEPT ![u] = Idle]

(* CancelCallProcessing, one statement over four tables. *)
Cancel(u) ==
  /\ Begins(u, "cancel")
  /\ ~call.deleted /\ call.status \in BusyStatus
  /\ call' = WithStatus("cancelled")
  /\ rows' = JobsRemoved
  /\ transcription' = IF transcription = "processing" THEN "failed" ELSE transcription
  /\ analysis' = IF analysis \in {"pending", "processing"} THEN "failed" ELSE analysis
  /\ Then(u, "list")
  /\ UNCHANGED <<operation, handler, funded, faults>>

(* ReleaseCallReservations: the reserved operations are listed, then each *)
(* is settled at nothing.                                                 *)
ListReservations(u) ==
  /\ user[u].pc = "list"
  /\ IF operation = "reserved" THEN Then(u, "release") ELSE Done(u)
  /\ UNCHANGED <<work, handler, funded, boundVars>>

ReleaseReservation(u) ==
  /\ user[u].pc = "release"
  /\ operation' = SettledAs(operation, "released")
  /\ Done(u)
  /\ UNCHANGED <<call, transcription, analysis, rows, handler, funded, boundVars>>

(* RestartProcessing reads the call and its transcription, and decides. *)
RestartRead(u) ==
  /\ Begins(u, "restart")
  /\ ~call.deleted
  /\ \E only \in BOOLEAN :
       \/ /\ only /\ transcription = "transcribed"
          /\ call.status \in {"cancelled", "transcribed"}
          /\ user' = [user EXCEPT ![u] = UserAt("switch", call.status, only)]
       \/ /\ ~(only /\ transcription = "transcribed")
          /\ call.status = "cancelled"
          /\ user' = [user EXCEPT ![u] = UserAt("restart", call.status, only)]
  /\ UNCHANGED <<work, handler, funded, faults>>

(* RestartCallProcessing; the INSERT would break on a row that is there. *)
Restart(u) ==
  /\ user[u].pc = "restart"
  /\ IF call.status = "cancelled" /\ ~call.deleted /\ ~Present(rows[Transcribe])
     THEN /\ call' = Call("new", user[u].only, FALSE)
          /\ rows' = [rows EXCEPT ![Transcribe] = Inserted(@)]
     ELSE UNCHANGED <<call, rows>>
  /\ Done(u)
  /\ UNCHANGED <<transcription, analysis, operation, handler, funded, boundVars>>

(* SwitchCallToTranscriptionOnly; jobs stay where they are. *)
Switch(u) ==
  /\ user[u].pc = "switch"
  /\ call' = IF /\ call.status \in {"cancelled", "transcribed"} /\ ~call.deleted
                /\ transcription = "transcribed"
             THEN Call("transcribed", TRUE, FALSE) ELSE call
  /\ Done(u)
  /\ UNCHANGED <<transcription, analysis, operation, rows, handler, funded, boundVars>>

(* DeleteCall refuses a call the queue owns, as far as it has seen. *)
DeleteRead(u) ==
  /\ Begins(u, "delete")
  /\ ~call.deleted /\ call.status \notin BusyStatus
  /\ Then(u, "delete")
  /\ UNCHANGED <<work, handler, funded, faults>>

SoftDelete(u) ==
  /\ user[u].pc = "delete"
  /\ IF call.deleted THEN UNCHANGED <<call, rows>>
     ELSE call' = Call(call.status, call.only, TRUE) /\ rows' = JobsRemoved
  /\ Done(u)
  /\ UNCHANGED <<transcription, analysis, operation, handler, funded, boundVars>>

Restore(u) ==
  /\ Begins(u, "restore")
  /\ call.deleted
  /\ call' = Call(call.status, call.only, FALSE)
  /\ UNCHANGED <<transcription, analysis, operation, rows, handler, user, funded, faults>>

(* AnalyzeCall: the first analysis by hand, or another one. *)
AnalyzeRequested(u) ==
  /\ Begins(u, "analyze")
  /\ ~call.deleted /\ transcription = "transcribed"
  /\ user' = [user EXCEPT ![u] = UserAt("pending", call.status, FALSE)]
  /\ UNCHANGED <<work, handler, funded, faults>>

ResetAnalysis(u) ==
  /\ user[u].pc = "pending"
  /\ analysis' = "pending"
  /\ Then(u, "enqueue")
  /\ UNCHANGED <<call, transcription, operation, rows, handler, funded, boundVars>>

EnqueueByHand(u) ==
  /\ user[u].pc = "enqueue"
  /\ rows' = AnalysisEnqueued
  /\ IF user[u].seen = "failed" THEN Then(u, "recover") ELSE Done(u)
  /\ UNCHANGED <<call, transcription, analysis, operation, handler, funded, boundVars>>

RecoverStatus(u) ==
  /\ user[u].pc = "recover"
  /\ call' = WithStatus("transcribed")
  /\ Done(u)
  /\ UNCHANGED <<transcription, analysis, operation, rows, handler, funded, boundVars>>

(* The process that serves a request dies, or a statement of it fails. *)
RequestFails(u) ==
  /\ user[u].pc # "idle"
  /\ faults > 0 /\ faults' = faults - 1
  /\ Done(u)
  /\ UNCHANGED <<work, handler, funded, requests>>

(* Other calls spend the wallet. *)
Drain ==
  /\ "drain" \in Offered /\ funded
  /\ requests > 0 /\ requests' = requests - 1
  /\ funded' = FALSE
  /\ UNCHANGED <<work, handler, user, faults>>

-----------------------------------------------------------------------------
TranscribeStep(h) ==
  \/ TranscribeRead(h) \/ Start(h) \/ CreateTranscription(h) \/ Reserve(h)
  \/ MarkProviderRunning(h) \/ ProviderAnswers(h) \/ Settle(h) \/ Persist(h)
  \/ EnqueueAnalysis(h)

AnalyzeStep(h) ==
  \/ AnalyzeRead(h) \/ CheckAnalysis(h) \/ CheckTranscription(h)
  \/ CreatePendingAnalysis(h) \/ MarkAnalysisProcessing(h) \/ RunModel(h)
  \/ SaveAnalysis(h) \/ MarkAnalyzed(h)

EndStep(h) == Report(h) \/ MarkAwaiting(h) \/ FailWork(h) \/ FailCall(h)

HandlerStep(h) == TranscribeStep(h) \/ AnalyzeStep(h) \/ EndStep(h)

BeginRequest(u) ==
  Cancel(u) \/ RestartRead(u) \/ DeleteRead(u) \/ Restore(u) \/ AnalyzeRequested(u)

ContinueRequest(u) ==
  \/ ListReservations(u) \/ ReleaseReservation(u) \/ Restart(u) \/ Switch(u)
  \/ SoftDelete(u) \/ ResetAnalysis(u) \/ EnqueueByHand(u) \/ RecoverStatus(u)

Next ==
  \/ \E h \in Handlers : \/ \E j \in JobTypes : Take(h, j)
                         \/ HandlerStep(h) \/ Stumble(h) \/ Vanish(h)
  \/ \E u \in Users : BeginRequest(u) \/ ContinueRequest(u) \/ RequestFails(u)
  \/ \E j \in JobTypes : GoStale(j) \/ Ripen(j)
  \/ Reconcile \/ TopUp \/ Drain

Spec == Init /\ [][Next]_vars

(* The worker polls and its goroutines run, a request that began is served *)
(* to its end; clocks and billing periods go on.  Nobody has to send a     *)
(* request, nothing has to fail.                                           *)
Fairness ==
  /\ \A j \in JobTypes : /\ SF_vars(\E h \in Handlers : Take(h, j))
                         /\ WF_vars(GoStale(j)) /\ WF_vars(Ripen(j))
  /\ \A h \in Handlers : WF_vars(HandlerStep(h))
  /\ \A u \in Users : WF_vars(ContinueRequest(u))
  /\ WF_vars(TopUp)

FairSpec == Spec /\ Fairness

-----------------------------------------------------------------------------
(* Properties *)

(* Whatever people and faults do in between, a text is published only under *)
(* a settled operation, and an analysis exists only over one: the money for *)
(* the recording is decided before its result can be seen                   *)
(* (process_call.go:187, analyze_call.go:215).                              *)
SettledBeforeShown ==
  transcription = "transcribed" \/ analysis \in {"pending", "processing", "done"}
    => operation \in Settled

(* A busy call has its transcription job: new, processing or waiting for    *)
(* credits, it is never left with a job that is done or gone, at whatever   *)
(* statement a handler was lost (delete_call.go:54).                        *)
BusyCallHasJob ==
  call.status \in BusyStatus => rows[Transcribe].status \in {"pending", "running", "failed"}

(* A transcribed call that wants an analysis gets its job: the transcription *)
(* job is not done before it (process_call.go:102, 226).                    *)
AnalysisIsQueued ==
  call.status = "transcribed" /\ ~call.only /\ rows[Transcribe].status = "done"
    => Present(rows[Analyze])

(* A call shown as transcribed or analyzed has its text, until its          *)
(* transcription job fails for good, which takes the text with it           *)
(* (process_call.go:395, repository/transcription/update_status.go:43).     *)
ShownTextExists ==
  call.status \in {"transcribed", "analyzed"} =>
    transcription = "transcribed" \/ rows[Transcribe].status = "failed"

(* Only a person takes a call out of cancelled (delete_call.go:66). *)
CancelSticks ==
  [][call.status = "cancelled" /\ call'.status # "cancelled"
       => \E u \in Users : Restart(u) \/ Switch(u)]_vars

StrandedJob(j) ==
  rows[j].status = "running" /\ Stale(rows[j]) /\ rows[j].attempts >= MaxAttempts

(* An analysis that was asked for ends, as long as nothing fails: none is   *)
(* left pending for ever (analyze_call.go:109).                             *)
RequestedAnalysisEnds ==
  (analysis \in {"pending", "processing"}) ~> (analysis \in {"done", "failed"})

(* A busy call comes to rest, unless its job ran out of attempts in a way  *)
(* that did not reach the call: lost at its last attempt, or between the   *)
(* two statements of a final failure.                                      *)
CallComesToRest ==
  call.status \in BusyStatus
    ~> \/ call.status \notin BusyStatus
       \/ StrandedJob(Transcribe) \/ rows[Transcribe].status = "failed"
=============================================================================

------------------------ MODULE CallPipelineProofs ------------------------
(***************************************************************************)
(* Theorems about CallPipeline for every value of its constants: any       *)
(* number of handlers and people, any mix of requests and faults.  The     *)
(* last three are about a call nobody cancels or bins, which is what the   *)
(* queue and its faults alone may do to it.                                *)
(***************************************************************************)
EXTENDS CallPipeline, JobRowsProofs, TLAPS

(* Every step of the system is a RowStep on each of the two rows. *)
LEMMA PipelineRows ==
  ASSUME rows \in [JobTypes -> Rows], [Next]_vars
  PROVE  rows' \in [JobTypes -> Rows]
<1> DEFINE Goal == /\ rows' = [i \in JobTypes |-> rows'[i]]
                   /\ \A i \in JobTypes : RowStep(rows[i], rows'[i])
<1> USE DEF RowStep, JobTypes, work
<1>1. ASSUME NEW h \in Handlers, NEW j \in JobTypes, Take(h, j)
      PROVE  Goal
  BY <1>1 DEF Take
<1>2. ASSUME NEW h \in Handlers, TranscribeStep(h)
      PROVE  Goal
  <2>1. CASE EnqueueAnalysis(h)
    BY <2>1 DEF EnqueueAnalysis, AnalysisEnqueued
  <2> QED
    BY <1>2, <2>1 DEF TranscribeStep, TranscribeRead, Start, CreateTranscription, Reserve,
                      MarkProviderRunning, ProviderAnswers, Settle, Persist
<1>3. ASSUME NEW h \in Handlers, AnalyzeStep(h)
      PROVE  Goal
  BY <1>3 DEF AnalyzeStep, AnalyzeRead, CheckAnalysis, CheckTranscription,
              CreatePendingAnalysis, MarkAnalysisProcessing, RunModel, SaveAnalysis,
              MarkAnalyzed
<1>4. ASSUME NEW h \in Handlers, EndStep(h)
      PROVE  Goal
  <2>1. CASE Report(h)
    <3> DEFINE r == rows[handler[h].job]
    <3>1. RowStep(r, Mark(r, handler[h].pc))
      BY <2>1 DEF Report, ReportSteps, Mark
    <3> QED
      BY <2>1, <3>1 DEF Report
  <2> QED
    BY <1>4, <2>1 DEF EndStep, MarkAwaiting, FailWork, FailCall
<1>5. ASSUME NEW h \in Handlers, Stumble(h) \/ Vanish(h)
      PROVE  Goal
  BY <1>5 DEF Stumble, Vanish
<1>6. ASSUME NEW u \in Users, BeginRequest(u)
      PROVE  Goal
  BY <1>6 DEF BeginRequest, Cancel, JobsRemoved, RestartRead, DeleteRead, Restore,
              AnalyzeRequested
<1>7. ASSUME NEW u \in Users, ContinueRequest(u) \/ RequestFails(u)
      PROVE  Goal
  BY <1>7 DEF ContinueRequest, ListReservations, ReleaseReservation, Restart, Switch,
              SoftDelete, JobsRemoved, ResetAnalysis, EnqueueByHand, AnalysisEnqueued,
              RecoverStatus, RequestFails
<1>8. ASSUME NEW j \in JobTypes, GoStale(j) \/ Ripen(j)
      PROVE  Goal
  BY <1>8 DEF GoStale, Ripen
<1>9. ASSUME Reconcile \/ TopUp \/ Drain \/ UNCHANGED vars
      PROVE  Goal
  BY <1>9 DEF Reconcile, TopUp, Drain, vars
<1>10. Goal
  <2> HIDE DEF Goal, RowStep, JobTypes, work
  <2> QED
    BY <1>1, <1>2, <1>3, <1>4, <1>5, <1>6, <1>7, <1>8, <1>9 DEF Next, HandlerStep
<1>11. \A i \in JobTypes : rows'[i] \in Rows
  <2> HIDE DEF RowStep, JobTypes
  <2> QED
    BY <1>10, RowStepType
<1> QED
  BY <1>10, <1>11

-----------------------------------------------------------------------------
(* The constructors give members of their types. *)
LEMMA Constructors ==
  /\ \A status \in CallStatus, only \in BOOLEAN, deleted \in BOOLEAN :
       Call(status, only, deleted) \in Calls
  /\ \A pc \in HandlerSteps, j \in JobTypes, id \in Nat, only \in BOOLEAN :
       HandlerAt(pc, j, id, only) \in HandlerStates
  /\ \A pc \in UserSteps, seen \in CallStatus, only \in BOOLEAN :
       UserAt(pc, seen, only) \in UserStates
  /\ Free \in HandlerStates
  /\ Idle \in UserStates
  BY DEF Call, Calls, HandlerAt, HandlerStates, UserAt, UserStates, Free, Idle,
         HandlerSteps, UserSteps, CallStatus, JobTypes

(* The fields of a call row have their types, and so has a changed status. *)
LEMMA CallFields ==
  ASSUME call \in Calls
  PROVE  /\ call.status \in CallStatus /\ call.only \in BOOLEAN /\ call.deleted \in BOOLEAN
         /\ \A status \in CallStatus : WithStatus(status) \in Calls
  BY DEF Call, Calls, WithStatus

(* A handler that is sent on keeps its job and its copies typed. *)
LEMMA HandlerMoves ==
  ASSUME handler \in [Handlers -> HandlerStates], NEW h \in Handlers,
         \/ Leave(h)
         \/ \E pc \in HandlerSteps : Goto(h, pc)
         \/ \E pc \in HandlerSteps, j \in JobTypes, id \in Nat, only \in BOOLEAN :
              handler' = [handler EXCEPT ![h] = HandlerAt(pc, j, id, only)]
  PROVE  handler' \in [Handlers -> HandlerStates]
<1>1. CASE Leave(h)
  BY <1>1, Constructors DEF Leave
<1>2. ASSUME NEW pc \in HandlerSteps, Goto(h, pc)
      PROVE  handler' \in [Handlers -> HandlerStates]
  <2>1. HandlerAt(pc, handler[h].job, handler[h].id, handler[h].only) \in HandlerStates
    BY Constructors DEF HandlerStates
  <2> QED
    BY <1>2, <2>1 DEF Goto
<1>3. ASSUME NEW pc \in HandlerSteps, NEW j \in JobTypes, NEW id \in Nat,
             NEW only \in BOOLEAN,
             handler' = [handler EXCEPT ![h] = HandlerAt(pc, j, id, only)]
      PROVE  handler' \in [Handlers -> HandlerStates]
  BY <1>3, Constructors
<1> QED
  BY <1>1, <1>2, <1>3

(* A request that goes on, or ends, leaves its user typed. *)
LEMMA UserMoves ==
  ASSUME user \in [Users -> UserStates], NEW u \in Users,
         \/ Done(u)
         \/ \E pc \in UserSteps : Then(u, pc)
         \/ \E pc \in UserSteps, seen \in CallStatus, only \in BOOLEAN :
              user' = [user EXCEPT ![u] = UserAt(pc, seen, only)]
  PROVE  user' \in [Users -> UserStates]
<1>1. CASE Done(u)
  BY <1>1, Constructors DEF Done
<1>2. ASSUME NEW pc \in UserSteps, Then(u, pc)
      PROVE  user' \in [Users -> UserStates]
  <2>1. UserAt(pc, user[u].seen, user[u].only) \in UserStates
    BY Constructors DEF UserStates
  <2> QED
    BY <1>2, <2>1 DEF Then
<1>3. ASSUME NEW pc \in UserSteps, NEW seen \in CallStatus, NEW only \in BOOLEAN,
             user' = [user EXCEPT ![u] = UserAt(pc, seen, only)]
      PROVE  user' \in [Users -> UserStates]
  BY <1>3, Constructors
<1> QED
  BY <1>1, <1>2, <1>3

(* The statements on the usage operation give statuses. *)
LEMMA OperationTypes ==
  ASSUME NEW o \in OperationStatus, NEW outcome \in Settled
  PROVE  /\ Reserved(o) \in OperationStatus
         /\ SettledAs(o, outcome) \in OperationStatus
         /\ Reconciled(o) \in OperationStatus
  BY DEF OperationStatus, Settled, Reserved, SettledAs, Reconciled

Others ==
  /\ call \in Calls
  /\ transcription \in TranscriptionStatus
  /\ analysis \in AnalysisStatus
  /\ operation \in OperationStatus
  /\ funded \in BOOLEAN
  /\ faults \in 0 .. MaxFaults
  /\ requests \in 0 .. MaxRequests

(* Tables and counters keep their types, whoever makes the step. *)
LEMMA OthersTyped ==
  ASSUME TypeOK, [Next]_vars
  PROVE  Others'
<1>1. \A status \in CallStatus : WithStatus(status) \in Calls
  BY CallFields DEF TypeOK
<1>2. \A status \in CallStatus, only \in BOOLEAN, deleted \in BOOLEAN :
        Call(status, only, deleted) \in Calls
  BY Constructors
<1>3. call.status \in CallStatus /\ call.only \in BOOLEAN
  BY CallFields DEF TypeOK
<1>4. \A outcome \in Settled : /\ Reserved(operation) \in OperationStatus
                              /\ SettledAs(operation, outcome) \in OperationStatus
                              /\ Reconciled(operation) \in OperationStatus
  BY OperationTypes DEF TypeOK
<1>5. (faults > 0 => faults - 1 \in 0 .. MaxFaults)
      /\ (requests > 0 => requests - 1 \in 0 .. MaxRequests)
  BY BoundsAssumption DEF TypeOK
<1>6. {"processing", "transcribed", "analyzed", "awaiting_credits", "failed", "cancelled",
       "new"} \subseteq CallStatus
  BY DEF CallStatus
<1>7. {"released", "charged"} = Settled
  BY DEF Settled
<1>8. {"provider_running", "released", "reconciling"} \subseteq OperationStatus
  BY DEF OperationStatus, Settled
<1>9. {"none", "processing", "transcribed", "failed"} \subseteq TranscriptionStatus
      /\ {"pending", "processing", "done", "failed"} \subseteq AnalysisStatus
  BY DEF TranscriptionStatus, AnalysisStatus
<1> USE <1>1, <1>2, <1>3, <1>4, <1>5, <1>6, <1>7, <1>8, <1>9 DEF TypeOK, Others, work, boundVars
<1>10. ASSUME NEW h \in Handlers, NEW j \in JobTypes, Take(h, j)
       PROVE  Others'
  BY <1>10 DEF Take
<1>11. ASSUME NEW h \in Handlers, TranscribeStep(h)
       PROVE  Others'
  BY <1>11 DEF TranscribeStep, TranscribeRead, Start, CreateTranscription, Reserve,
               MarkProviderRunning, ProviderAnswers, Settle, Persist, EnqueueAnalysis
<1>12. ASSUME NEW h \in Handlers, AnalyzeStep(h)
       PROVE  Others'
  BY <1>12 DEF AnalyzeStep, AnalyzeRead, CheckAnalysis, CheckTranscription,
               CreatePendingAnalysis, MarkAnalysisProcessing, RunModel, SaveAnalysis,
               MarkAnalyzed
<1>13. ASSUME NEW h \in Handlers, EndStep(h)
       PROVE  Others'
  BY <1>13 DEF EndStep, Report, MarkAwaiting, FailWork, FailCall
<1>14. ASSUME NEW h \in Handlers, Stumble(h) \/ Vanish(h)
       PROVE  Others'
  BY <1>14 DEF Stumble, Vanish
<1>15. ASSUME NEW u \in Users, BeginRequest(u)
       PROVE  Others'
  BY <1>15 DEF BeginRequest, Begins, Cancel, RestartRead, DeleteRead, Restore,
               AnalyzeRequested
<1>16. ASSUME NEW u \in Users, ContinueRequest(u) \/ RequestFails(u)
       PROVE  Others'
  <2>1. user[u].only \in BOOLEAN
    BY DEF UserStates
  <2> QED
    BY <1>16, <2>1 DEF ContinueRequest, ListReservations, ReleaseReservation, Restart,
                       Switch, SoftDelete, ResetAnalysis, EnqueueByHand, RecoverStatus,
                       RequestFails
<1>17. ASSUME NEW j \in JobTypes, GoStale(j) \/ Ripen(j)
       PROVE  Others'
  BY <1>17 DEF GoStale, Ripen
<1>18. ASSUME Reconcile \/ TopUp \/ Drain \/ UNCHANGED vars
       PROVE  Others'
  BY <1>18 DEF Reconcile, TopUp, Drain, vars
<1> HIDE <1>1, <1>2, <1>3, <1>4, <1>5, <1>6, <1>7, <1>8, <1>9 DEF TypeOK, Others, work, boundVars
<1> QED
  BY <1>10, <1>11, <1>12, <1>13, <1>14, <1>15, <1>16, <1>17, <1>18 DEF Next, HandlerStep

(* Every step of a handler leads to a position there is. *)
LEMMA HandlersTyped ==
  ASSUME TypeOK, [Next]_vars
  PROVE  handler' \in [Handlers -> HandlerStates]
<1> DEFINE T == handler' \in [Handlers -> HandlerStates]
<1>1. handler \in [Handlers -> HandlerStates] /\ \A j \in JobTypes : rows[j].id \in Nat
  BY DEF TypeOK, Rows
<1>2. call.only \in BOOLEAN
  BY CallFields DEF TypeOK
<1>3. \A h \in Handlers : /\ handler[h].job \in JobTypes /\ handler[h].id \in Nat
                          /\ handler[h].only \in BOOLEAN
  BY <1>1 DEF HandlerStates
<1>4. {"read", "failWork", "failCall"} \cup TranscribeSteps \cup AnalyzeSteps \cup ReportSteps
        \subseteq HandlerSteps
  BY DEF HandlerSteps
<1>5. ASSUME NEW h \in Handlers, NEW j \in JobTypes, Take(h, j)
      PROVE  T
  BY <1>1, <1>4, <1>5, HandlerMoves DEF Take
<1>6. ASSUME NEW h \in Handlers, TranscribeStep(h)
      PROVE  T
  <2>1. {StepAfterRead, "create", "reserve", "park", "mark", "retry", "provider", "settle",
         "persist", "finish", "enqueue"} \subseteq HandlerSteps
    BY <1>4 DEF StepAfterRead, ReportSteps, TranscribeSteps
  <2>2. CASE TranscribeRead(h)
    BY <1>1, <1>2, <1>3, <2>1, <2>2, HandlerMoves DEF TranscribeRead
  <2>3. CASE Start(h)
    BY <1>1, <1>2, <1>3, <2>1, <2>3, HandlerMoves DEF Start
  <2>4. CASE \/ CreateTranscription(h) \/ Reserve(h) \/ MarkProviderRunning(h)
             \/ ProviderAnswers(h) \/ Settle(h) \/ Persist(h) \/ EnqueueAnalysis(h)
    <3>1. \E pc \in HandlerSteps : Goto(h, pc)
      BY <2>1, <2>4 DEF CreateTranscription, Reserve, MarkProviderRunning, ProviderAnswers,
                        Settle, Persist, EnqueueAnalysis
    <3> QED
      BY <1>1, <3>1, HandlerMoves
  <2> QED
    BY <1>6, <2>2, <2>3, <2>4 DEF TranscribeStep
<1>7. ASSUME NEW h \in Handlers, AnalyzeStep(h)
      PROVE  T
  <2>1. {"permanent", "check", "finish", "transcript", "retry", "pending", "processing",
         "model", "park", "save", "analyzed"} \subseteq HandlerSteps
    BY <1>4 DEF ReportSteps, AnalyzeSteps
  <2>2. \E pc \in HandlerSteps : Goto(h, pc)
    BY <1>7, <2>1 DEF AnalyzeStep, AnalyzeRead, CheckAnalysis, CheckTranscription,
                      CreatePendingAnalysis, MarkAnalysisProcessing, RunModel, SaveAnalysis,
                      MarkAnalyzed
  <2> QED
    BY <1>1, <2>2, HandlerMoves
<1>8. ASSUME NEW h \in Handlers, EndStep(h)
      PROVE  T
  <2>1. Leave(h) \/ \E pc \in HandlerSteps : Goto(h, pc)
    <3>1. CASE Report(h)
      <4>1. \A r : StepAfterMark(r, h) \in HandlerSteps
        BY DEF StepAfterMark, HandlerSteps, TranscribeSteps
      <4> QED
        BY <3>1, <4>1 DEF Report
    <3>2. CASE MarkAwaiting(h) \/ FailWork(h) \/ FailCall(h)
      BY <1>4, <3>2 DEF MarkAwaiting, FailWork, FailCall
    <3> QED
      BY <1>8, <3>1, <3>2 DEF EndStep
  <2> QED
    BY <1>1, <2>1, HandlerMoves
<1>9. ASSUME NEW h \in Handlers, Stumble(h) \/ Vanish(h)
      PROVE  T
  <2>1. "retry" \in HandlerSteps
    BY <1>4 DEF ReportSteps
  <2> QED
    BY <1>1, <1>9, <2>1, HandlerMoves DEF Stumble, Vanish
<1>10. ASSUME NEW u \in Users, BeginRequest(u) \/ ContinueRequest(u) \/ RequestFails(u)
       PROVE  T
  BY <1>1, <1>10 DEF BeginRequest, Cancel, RestartRead, DeleteRead, Restore, AnalyzeRequested,
              ContinueRequest, ListReservations, ReleaseReservation, Restart, Switch,
              SoftDelete, ResetAnalysis, EnqueueByHand, RecoverStatus, RequestFails
<1>11. ASSUME \/ \E j \in JobTypes : GoStale(j) \/ Ripen(j)
              \/ Reconcile \/ TopUp \/ Drain \/ UNCHANGED vars
       PROVE  T
  BY <1>1, <1>11 DEF GoStale, Ripen, Reconcile, TopUp, Drain, vars
<1> QED
  BY <1>5, <1>6, <1>7, <1>8, <1>9, <1>10, <1>11 DEF Next, HandlerStep

(* Every step of a request leads to a position there is. *)
LEMMA UsersTyped ==
  ASSUME TypeOK, [Next]_vars
  PROVE  user' \in [Users -> UserStates]
<1> DEFINE T == user' \in [Users -> UserStates]
<1>1. user \in [Users -> UserStates] /\ call.status \in CallStatus
  BY CallFields DEF TypeOK
<1>2. ASSUME NEW u \in Users, BeginRequest(u)
      PROVE  T
  <2>1. {"list", "switch", "restart", "delete", "pending"} \subseteq UserSteps
    BY DEF UserSteps
  <2>2. CASE Cancel(u) \/ DeleteRead(u)
    BY <1>1, <2>1, <2>2, UserMoves DEF Cancel, DeleteRead
  <2>3. CASE RestartRead(u)
    BY <1>1, <2>1, <2>3, UserMoves DEF RestartRead
  <2>4. CASE Restore(u)
    BY <1>1, <2>4 DEF Restore
  <2>5. CASE AnalyzeRequested(u)
    BY <1>1, <2>1, <2>5, UserMoves DEF AnalyzeRequested
  <2> QED
    BY <1>2, <2>2, <2>3, <2>4, <2>5 DEF BeginRequest
<1>3. ASSUME NEW u \in Users, ContinueRequest(u) \/ RequestFails(u)
      PROVE  T
  <2>1. {"release", "enqueue", "recover"} \subseteq UserSteps
    BY DEF UserSteps
  <2>2. Done(u) \/ \E pc \in UserSteps : Then(u, pc)
    BY <1>3, <2>1 DEF ContinueRequest, ListReservations, ReleaseReservation, Restart, Switch,
              SoftDelete, ResetAnalysis, EnqueueByHand, RecoverStatus, RequestFails
  <2> QED
    BY <1>1, <2>2, UserMoves
<1>4. ASSUME NEW h \in Handlers,
             (\E j \in JobTypes : Take(h, j)) \/ HandlerStep(h) \/ Stumble(h) \/ Vanish(h)
      PROVE  user' = user
  BY <1>4 DEF Take, HandlerStep, TranscribeStep, TranscribeRead, Start, CreateTranscription,
              Reserve, MarkProviderRunning, ProviderAnswers, Settle, Persist,
              EnqueueAnalysis, AnalyzeStep, AnalyzeRead, CheckAnalysis, CheckTranscription,
              CreatePendingAnalysis, MarkAnalysisProcessing, RunModel, SaveAnalysis,
              MarkAnalyzed, EndStep, Report, MarkAwaiting, FailWork, FailCall, Stumble, Vanish
<1>5. ASSUME \/ \E j \in JobTypes : GoStale(j) \/ Ripen(j)
             \/ Reconcile \/ TopUp \/ Drain \/ UNCHANGED vars
      PROVE  user' = user
  BY <1>5 DEF GoStale, Ripen, Reconcile, TopUp, Drain, vars
<1> QED
  BY <1>1, <1>2, <1>3, <1>4, <1>5 DEF Next

(* Type correctness: the call, its rows, its handlers and its people stay  *)
(* in their types in every behaviour.                                      *)
THEOREM TypeCorrect == Spec => []TypeOK
<1>1. Init => TypeOK
  <2> SUFFICES ASSUME Init PROVE TypeOK
    OBVIOUS
  <2>1. NoRow \in Rows /\ Inserted(NoRow) \in Rows
    BY NoRowType, RowStepType DEF RowStep, Present, NoRow, Row
  <2>2. call \in Calls
    BY Constructors DEF Init, CallStatus
  <2>3. rows \in [JobTypes -> Rows]
    BY <2>1 DEF Init
  <2>4. handler \in [Handlers -> HandlerStates]
    BY Constructors DEF Init
  <2>5. user \in [Users -> UserStates]
    BY Constructors DEF Init
  <2>6. /\ transcription \in TranscriptionStatus
        /\ analysis \in AnalysisStatus
        /\ operation \in OperationStatus
    BY DEF Init, TranscriptionStatus, AnalysisStatus, OperationStatus
  <2>7. funded \in BOOLEAN /\ faults \in 0 .. MaxFaults /\ requests \in 0 .. MaxRequests
    BY BoundsAssumption DEF Init
  <2> QED
    BY <2>2, <2>3, <2>4, <2>5, <2>6, <2>7 DEF TypeOK
<1>2. TypeOK /\ [Next]_vars => TypeOK'
  <2> SUFFICES ASSUME TypeOK, [Next]_vars PROVE TypeOK'
    OBVIOUS
  <2>1. rows' \in [JobTypes -> Rows]
    BY PipelineRows DEF TypeOK
  <2> QED
    BY <2>1, OthersTyped, HandlersTyped, UsersTyped DEF Others, TypeOK
<1> QED
  BY <1>1, <1>2, PTL DEF Spec

-----------------------------------------------------------------------------
(* SettledBeforeShown is not inductive: a handler that is about to publish  *)
(* carries the settlement in its position, and so does a person about to    *)
(* reset an analysis.  PaidInv says where.                                  *)
PublishSteps == {"persist", "pending", "processing", "model", "save", "analyzed"}
SpendSteps == {"mark", "provider", "settle"}
LiveAnalysis == {"pending", "processing", "done"}

Earned(pc, o) ==
  /\ pc \in PublishSteps => o \in Settled
  /\ pc \in SpendSteps => o # "none"

PaidInv ==
  /\ SettledBeforeShown
  /\ \A h \in Handlers : Earned(handler[h].pc, operation)
  /\ \A u \in Users : user[u].pc = "pending" => operation \in Settled

(* No step takes a settlement back, and none forgets that an operation is. *)
OperationKept ==
  /\ operation \in Settled => operation' \in Settled
  /\ operation # "none" => operation' # "none"

(* An operation that exists stays, and one that is settled stays settled. *)
LEMMA OperationIsKept ==
  ASSUME TypeOK, [Next]_vars
  PROVE  OperationKept
<1>1. /\ \A o \in OperationStatus : o \in Settled => /\ Reserved(o) = o /\ Reconciled(o) = o
                                                     /\ SettledAs(o, "charged") = o
                                                     /\ SettledAs(o, "released") = o
      /\ \A o \in OperationStatus : o # "none" => /\ Reserved(o) # "none"
                                                  /\ Reconciled(o) # "none"
                                                  /\ SettledAs(o, "charged") # "none"
                                                  /\ SettledAs(o, "released") # "none"
      /\ operation \in OperationStatus
  BY DEF TypeOK, OperationStatus, Settled, Reserved, Reconciled, SettledAs
<1>2. ASSUME NEW h \in Handlers, \/ Reserve(h) \/ MarkProviderRunning(h) \/ Settle(h)
                                 \/ Stumble(h) \/ Vanish(h)
      PROVE  OperationKept
  BY <1>1, <1>2 DEF OperationKept, Reserve, MarkProviderRunning, Settle, Stumble, Vanish
<1>3. ASSUME NEW u \in Users, ReleaseReservation(u)
      PROVE  OperationKept
  BY <1>1, <1>3 DEF OperationKept, ReleaseReservation
<1>4. CASE Reconcile
  BY <1>4 DEF OperationKept, Reconcile, Settled
<1>5. CASE operation' = operation
  BY <1>5 DEF OperationKept
<1>6. ASSUME NEW h \in Handlers,
             (\E j \in JobTypes : Take(h, j)) \/ AnalyzeStep(h) \/ EndStep(h)
      PROVE  operation' = operation
  BY <1>6 DEF Take, AnalyzeStep, AnalyzeRead, CheckAnalysis, CheckTranscription,
              CreatePendingAnalysis, MarkAnalysisProcessing, RunModel, SaveAnalysis,
              MarkAnalyzed, EndStep, Report, MarkAwaiting, FailWork, FailCall, work
<1>7. ASSUME NEW h \in Handlers, TranscribeStep(h)
      PROVE  \/ operation' = operation
             \/ Reserve(h) \/ MarkProviderRunning(h) \/ Settle(h)
  BY <1>7 DEF TranscribeStep, TranscribeRead, Start, CreateTranscription, ProviderAnswers,
              Persist, EnqueueAnalysis, work
<1>8. ASSUME NEW u \in Users, BeginRequest(u) \/ ContinueRequest(u) \/ RequestFails(u)
      PROVE  operation' = operation \/ ReleaseReservation(u)
  BY <1>8 DEF BeginRequest, Cancel, RestartRead, DeleteRead, Restore, AnalyzeRequested,
              ContinueRequest, ListReservations, Restart, Switch, SoftDelete,
              ResetAnalysis, EnqueueByHand, RecoverStatus, RequestFails, work
<1>9. ASSUME \/ \E j \in JobTypes : GoStale(j) \/ Ripen(j)
             \/ TopUp \/ Drain \/ UNCHANGED vars
      PROVE  operation' = operation
  BY <1>9 DEF GoStale, Ripen, TopUp, Drain, work, vars
<1> QED
  BY <1>2, <1>3, <1>4, <1>5, <1>6, <1>7, <1>8, <1>9 DEF Next, HandlerStep

(* A text or an analysis appears only over a settled operation. *)
LEMMA AppearsSettled ==
  ASSUME TypeOK, PaidInv, [Next]_vars
  PROVE  \/ transcription' = "transcribed" \/ analysis' \in LiveAnalysis
            => operation \in Settled
<1> DEFINE Shown == \/ transcription' = "transcribed" \/ analysis' \in LiveAnalysis
                       => operation \in Settled
<1>1. CASE transcription' = transcription /\ analysis' = analysis
  BY <1>1 DEF PaidInv, SettledBeforeShown, LiveAnalysis
<1>2. ASSUME NEW h \in Handlers, Persist(h) \/ CreatePendingAnalysis(h)
                                 \/ MarkAnalysisProcessing(h) \/ SaveAnalysis(h)
      PROVE  Shown
  BY <1>2 DEF PaidInv, Earned, PublishSteps, Persist, CreatePendingAnalysis,
              MarkAnalysisProcessing, SaveAnalysis, At
<1>3. ASSUME NEW u \in Users, ResetAnalysis(u)
      PROVE  Shown
  BY <1>3 DEF PaidInv, ResetAnalysis
<1>4. ASSUME NEW h \in Handlers, CreateTranscription(h) \/ FailWork(h)
      PROVE  Shown
  BY <1>4 DEF PaidInv, SettledBeforeShown, LiveAnalysis, CreateTranscription, FailWork
<1>5. ASSUME NEW u \in Users, Cancel(u)
      PROVE  Shown
  BY <1>5 DEF PaidInv, SettledBeforeShown, LiveAnalysis, Cancel
<1>6. ASSUME NEW h \in Handlers,
             (\E j \in JobTypes : Take(h, j)) \/ HandlerStep(h) \/ Stumble(h) \/ Vanish(h)
      PROVE  \/ transcription' = transcription /\ analysis' = analysis
             \/ Persist(h) \/ CreatePendingAnalysis(h) \/ MarkAnalysisProcessing(h)
             \/ SaveAnalysis(h) \/ CreateTranscription(h) \/ FailWork(h)
  BY <1>6 DEF Take, HandlerStep, TranscribeStep, TranscribeRead, Start, Reserve,
              MarkProviderRunning, ProviderAnswers, Settle, EnqueueAnalysis, AnalyzeStep,
              AnalyzeRead, CheckAnalysis, CheckTranscription, RunModel, MarkAnalyzed,
              EndStep, Report, MarkAwaiting, FailCall, Stumble, Vanish, work
<1>7. ASSUME NEW u \in Users, BeginRequest(u) \/ ContinueRequest(u) \/ RequestFails(u)
      PROVE  \/ transcription' = transcription /\ analysis' = analysis
             \/ Cancel(u) \/ ResetAnalysis(u)
  BY <1>7 DEF BeginRequest, RestartRead, DeleteRead, Restore, AnalyzeRequested,
              ContinueRequest, ListReservations, ReleaseReservation, Restart, Switch,
              SoftDelete, EnqueueByHand, RecoverStatus, RequestFails, work
<1>8. ASSUME \/ \E j \in JobTypes : GoStale(j) \/ Ripen(j)
             \/ Reconcile \/ TopUp \/ Drain \/ UNCHANGED vars
      PROVE  transcription' = transcription /\ analysis' = analysis
  BY <1>8 DEF GoStale, Ripen, Reconcile, TopUp, Drain, work, vars
<1> QED
  BY <1>1, <1>2, <1>3, <1>4, <1>5, <1>6, <1>7, <1>8 DEF Next

(* A handler that moves to a position it has earned disturbs no other. *)
LEMMA MovesEarned ==
  ASSUME TypeOK, PaidInv, OperationKept, NEW h \in Handlers,
         \/ Leave(h)
         \/ handler' = handler
         \/ \E pc \in HandlerSteps : Goto(h, pc) /\ Earned(pc, operation')
         \/ \E pc \in HandlerSteps, j \in JobTypes, id \in Nat, only \in BOOLEAN :
              /\ handler' = [handler EXCEPT ![h] = HandlerAt(pc, j, id, only)]
              /\ Earned(pc, operation')
  PROVE  \A g \in Handlers : Earned(handler'[g].pc, operation')
<1> DEFINE E(g) == Earned(handler'[g].pc, operation')
<1>1. \A g \in Handlers : Earned(handler[g].pc, operation')
  BY DEF PaidInv, OperationKept, Earned
<1>2. handler \in [Handlers -> HandlerStates]
  BY DEF TypeOK
<1>3. CASE Leave(h)
  <2>1. \A o : Earned(Free.pc, o)
    BY DEF Free, HandlerAt, Earned, PublishSteps, SpendSteps
  <2>2. \A g \in Handlers : handler'[g] = IF g = h THEN Free ELSE handler[g]
    BY <1>2, <1>3 DEF Leave
  <2> QED
    BY <1>1, <2>1, <2>2
<1>4. CASE handler' = handler
  BY <1>1, <1>4
<1>5. ASSUME NEW pc, NEW j, NEW id, NEW only,
             handler' = [handler EXCEPT ![h] = HandlerAt(pc, j, id, only)],
             Earned(pc, operation')
      PROVE  \A g \in Handlers : E(g)
  <2>1. HandlerAt(pc, j, id, only).pc = pc
    BY DEF HandlerAt
  <2>2. \A g \in Handlers :
          handler'[g] = IF g = h THEN HandlerAt(pc, j, id, only) ELSE handler[g]
    BY <1>2, <1>5
  <2> QED
    BY <1>1, <1>5, <2>1, <2>2
<1>6. ASSUME NEW pc, Goto(h, pc), Earned(pc, operation')
      PROVE  \A g \in Handlers : E(g)
  <2>1. handler' = [handler EXCEPT ![h] =
                      HandlerAt(pc, handler[h].job, handler[h].id, handler[h].only)]
    BY <1>6 DEF Goto
  <2> QED
    BY <1>5, <1>6, <2>1
<1> QED
  BY <1>3, <1>4, <1>5, <1>6

(* A handler comes to a paid position only past a settlement. *)
LEMMA HandlersEarn ==
  ASSUME TypeOK, PaidInv, [Next]_vars
  PROVE  \A g \in Handlers : Earned(handler'[g].pc, operation')
<1> DEFINE Goal == \A g \in Handlers : Earned(handler'[g].pc, operation')
<1>1. OperationKept
  BY OperationIsKept
<1>2. \A pc, o : pc \notin PublishSteps \cup SpendSteps => Earned(pc, o)
  BY DEF Earned
<1>3. rows \in [JobTypes -> Rows] /\ handler \in [Handlers -> HandlerStates] /\ call \in Calls
  BY DEF TypeOK
<1>4. {"free", "start", "create", "reserve", "mark", "provider", "settle", "persist",
       "enqueue", "check", "transcript", "pending", "processing", "model", "save",
       "analyzed", "finish", "retry", "permanent", "park", "awaiting", "read",
       "failWork", "failCall"} \subseteq HandlerSteps
  BY DEF HandlerSteps, TranscribeSteps, AnalyzeSteps, ReportSteps
<1>5. {"free", "start", "create", "reserve", "enqueue", "check", "transcript", "finish",
       "retry", "permanent", "park", "awaiting", "read", "failWork", "failCall"}
        \cap (PublishSteps \cup SpendSteps) = {}
  BY DEF PublishSteps, SpendSteps
<1>6. ASSUME NEW h \in Handlers, NEW j \in JobTypes, Take(h, j)
      PROVE  Goal
  <2>1. rows[j].id \in Nat
    BY <1>3 DEF Rows
  <2> QED
    BY <1>1, <1>2, <1>4, <1>5, <1>6, <2>1, MovesEarned DEF Take
<1>7. ASSUME NEW h \in Handlers, TranscribeRead(h) \/ Start(h)
      PROVE  Goal
  <2>1. /\ handler[h].job \in JobTypes /\ handler[h].id \in Nat /\ call.only \in BOOLEAN
    BY <1>3, CallFields DEF HandlerStates
  <2>2. StepAfterRead \in {"permanent", "finish", "enqueue", "start", "create"}
    BY <1>3, CallFields DEF StepAfterRead
  <2>3. CASE TranscribeRead(h)
    BY <1>1, <1>2, <1>4, <1>5, <2>1, <2>2, <2>3, MovesEarned DEF TranscribeRead
  <2>4. CASE Start(h)
    BY <1>1, <1>2, <1>4, <1>5, <2>1, <2>4, MovesEarned DEF Start
  <2> QED
    BY <1>7, <2>3, <2>4
<1>8. ASSUME NEW h \in Handlers,
             \E pc \in HandlerSteps : Goto(h, pc) /\ Earned(pc, operation')
      PROVE  Goal
  BY <1>1, <1>8, MovesEarned
<1>9. ASSUME NEW h \in Handlers,
             \E pc \in HandlerSteps \ (PublishSteps \cup SpendSteps) : Goto(h, pc)
      PROVE  Goal
  BY <1>2, <1>8, <1>9
<1>10. ASSUME NEW h \in Handlers, Leave(h) \/ handler' = handler
       PROVE  Goal
  BY <1>1, <1>10, MovesEarned
<1>11. ASSUME NEW h \in Handlers, Reserve(h) \/ MarkProviderRunning(h) \/ Settle(h)
       PROVE  Goal
  <2>1. Reserved(operation) # "none"
    BY DEF Reserved
  <2>2. Settlable(operation) /\ operation # "none" => SettledAs(operation, "charged") \in Settled
    BY DEF TypeOK, OperationStatus, Settlable, SettledAs, Settled
  <2>3. At(h, "settle") => operation # "none"
    BY DEF PaidInv, Earned, SpendSteps, At
  <2>4. "mark" \in SpendSteps \ PublishSteps /\ "provider" \in SpendSteps \ PublishSteps
        /\ "persist" \in PublishSteps \ SpendSteps
    BY DEF SpendSteps, PublishSteps
  <2>5. CASE Reserve(h)
    BY <1>4, <1>5, <1>8, <1>9, <2>1, <2>4, <2>5 DEF Reserve, Earned
  <2>6. CASE MarkProviderRunning(h)
    BY <1>4, <1>5, <1>8, <1>9, <2>4, <2>6 DEF MarkProviderRunning, Earned
  <2>7. CASE Settle(h)
    BY <1>4, <1>5, <1>8, <1>9, <2>2, <2>3, <2>4, <2>7 DEF Settle, Earned
  <2> QED
    BY <1>11, <2>5, <2>6, <2>7
<1>12. ASSUME NEW h \in Handlers, CreateTranscription(h) \/ Persist(h) \/ EnqueueAnalysis(h)
                                  \/ AnalyzeRead(h) \/ CheckAnalysis(h) \/ MarkAnalyzed(h)
                                  \/ FailWork(h) \/ Stumble(h)
       PROVE  Goal
  BY <1>4, <1>5, <1>9, <1>12 DEF CreateTranscription, Persist, EnqueueAnalysis, AnalyzeRead,
     CheckAnalysis, MarkAnalyzed, FailWork, Stumble
<1>13. ASSUME NEW h \in Handlers, ProviderAnswers(h) \/ CreatePendingAnalysis(h)
                                  \/ MarkAnalysisProcessing(h) \/ SaveAnalysis(h)
       PROVE  Goal
  <2>1. Earned(handler[h].pc, operation)
    BY DEF PaidInv
  <2> QED
    BY <1>4, <1>8, <1>13, <2>1 DEF ProviderAnswers, CreatePendingAnalysis,
       MarkAnalysisProcessing, SaveAnalysis, Earned, PublishSteps, SpendSteps, At, work
<1>14. ASSUME NEW h \in Handlers, CheckTranscription(h)
       PROVE  Goal
  <2>1. CASE transcription = "transcribed"
    <3>1. Goto(h, "pending") /\ operation' = operation
      BY <1>14, <2>1 DEF CheckTranscription, work
    <3>2. Earned("pending", operation')
      BY <2>1, <3>1 DEF PaidInv, SettledBeforeShown, Earned, PublishSteps, SpendSteps
    <3> QED
      BY <1>4, <1>8, <3>1, <3>2
  <2>2. CASE transcription # "transcribed"
    <3>1. Goto(h, "retry") \/ Goto(h, "permanent")
      BY <1>14, <2>2 DEF CheckTranscription
    <3> QED
      BY <1>4, <1>5, <1>9, <3>1
  <2> QED
    BY <2>1, <2>2
<1>15. ASSUME NEW h \in Handlers, RunModel(h)
       PROVE  Goal
  <2>1. CASE Goto(h, "save")
    <3>1. operation' = operation /\ operation \in Settled
      BY <1>15 DEF RunModel, PaidInv, Earned, PublishSteps, At, work
    <3>2. Earned("save", operation')
      BY <3>1 DEF Earned, SpendSteps
    <3> QED
      BY <1>4, <1>8, <2>1, <3>2
  <2>2. CASE Goto(h, "park") \/ Goto(h, "finish") \/ Goto(h, "retry")
    BY <1>4, <1>5, <1>9, <2>2
  <2> QED
    BY <1>15, <2>1, <2>2 DEF RunModel
<1>16. ASSUME NEW h \in Handlers, Report(h) \/ MarkAwaiting(h) \/ FailCall(h) \/ Vanish(h)
       PROVE  Goal
  <2>1. CASE Report(h)
    <3>1. ASSUME NEW r
          PROVE  StepAfterMark(r, h) \in {"failWork", "awaiting", "free"}
      BY DEF StepAfterMark
    <3>2. Leave(h) \/ \E r : Goto(h, StepAfterMark(r, h))
      BY <2>1 DEF Report
    <3> QED
      BY <1>4, <1>5, <1>9, <1>10, <3>1, <3>2
  <2>2. CASE MarkAwaiting(h) \/ FailCall(h) \/ Vanish(h)
    BY <1>10, <2>2 DEF MarkAwaiting, FailCall, Vanish
  <2> QED
    BY <1>16, <2>1, <2>2
<1>17. CASE handler' = handler
  BY <1>1, <1>17 DEF PaidInv, OperationKept, Earned
<1>18. ASSUME \/ \E u \in Users : BeginRequest(u) \/ ContinueRequest(u) \/ RequestFails(u)
              \/ \E j \in JobTypes : GoStale(j) \/ Ripen(j)
              \/ Reconcile \/ TopUp \/ Drain \/ UNCHANGED vars
       PROVE  handler' = handler
  BY <1>18 DEF BeginRequest, Cancel, RestartRead, DeleteRead, Restore, AnalyzeRequested,
     ContinueRequest, ListReservations, ReleaseReservation, Restart, Switch, SoftDelete,
     ResetAnalysis, EnqueueByHand, RecoverStatus, RequestFails,
     GoStale, Ripen, Reconcile, TopUp, Drain, vars
<1> HIDE DEF Goal
<1> QED
  BY <1>6, <1>7, <1>11, <1>12, <1>13, <1>14, <1>15, <1>16, <1>17, <1>18
     DEF Next, HandlerStep, TranscribeStep, AnalyzeStep, EndStep, Goal

(* Who is about to reset an analysis saw a text, which was settled by then. *)
LEMMA UsersEarn ==
  ASSUME TypeOK, PaidInv, [Next]_vars, NEW v \in Users, user'[v].pc = "pending"
  PROVE  operation \in Settled
<1>1. user \in [Users -> UserStates]
  BY DEF TypeOK
<1>2. CASE user' = user
  BY <1>2 DEF PaidInv
<1>3. ASSUME NEW u \in Users, NEW s, user' = [user EXCEPT ![u] = s], s.pc # "pending"
      PROVE  operation \in Settled
  <2>1. v # u => user'[v] = user[v]
    BY <1>1, <1>3
  <2>2. user'[u] = s
    BY <1>1, <1>3
  <2> QED
    BY <1>3, <2>1, <2>2 DEF PaidInv
<1>4. ASSUME NEW u \in Users, NEW pc \in UserSteps \ {"pending"}, Then(u, pc)
      PROVE  operation \in Settled
  <2>1. UserAt(pc, user[u].seen, user[u].only).pc # "pending"
    BY DEF UserAt
  <2> QED
    BY <1>3, <1>4, <2>1 DEF Then
<1>5. {"list", "switch", "restart", "delete", "release", "enqueue", "recover"}
        \subseteq UserSteps \ {"pending"}
  BY DEF UserSteps
<1>6. ASSUME NEW u \in Users, BeginRequest(u)
      PROVE  operation \in Settled
  <2>1. CASE Cancel(u) \/ DeleteRead(u)
    BY <1>4, <1>5, <2>1 DEF Cancel, DeleteRead
  <2>2. CASE RestartRead(u)
    <3>1. \E only \in BOOLEAN, pc \in {"switch", "restart"} :
            user' = [user EXCEPT ![u] = UserAt(pc, call.status, only)]
      BY <2>2 DEF RestartRead
    <3>2. \A only \in BOOLEAN, pc \in {"switch", "restart"} :
            UserAt(pc, call.status, only).pc # "pending"
      BY DEF UserAt
    <3> QED
      BY <1>3, <3>1, <3>2
  <2>3. CASE Restore(u)
    BY <1>2, <2>3 DEF Restore
  <2>4. CASE AnalyzeRequested(u)
    BY <2>4 DEF AnalyzeRequested, PaidInv, SettledBeforeShown
  <2> QED
    BY <1>6, <2>1, <2>2, <2>3, <2>4 DEF BeginRequest
<1>7. ASSUME NEW u \in Users, ContinueRequest(u) \/ RequestFails(u)
      PROVE  operation \in Settled
  <2>1. Done(u) \/ Then(u, "release") \/ Then(u, "enqueue") \/ Then(u, "recover")
    BY <1>7 DEF ContinueRequest, ListReservations, ReleaseReservation, Restart, Switch,
       SoftDelete, ResetAnalysis, EnqueueByHand, RecoverStatus, RequestFails
  <2>2. Idle.pc # "pending"
    BY DEF Idle, UserAt
  <2> QED
    BY <1>3, <1>4, <1>5, <2>1, <2>2 DEF Done
<1>8. ASSUME \/ \E h \in Handlers : \/ \E j \in JobTypes : Take(h, j)
                                    \/ HandlerStep(h) \/ Stumble(h) \/ Vanish(h)
             \/ \E j \in JobTypes : GoStale(j) \/ Ripen(j)
             \/ Reconcile \/ TopUp \/ Drain \/ UNCHANGED vars
      PROVE  user' = user
  BY <1>8 DEF Take, HandlerStep, TranscribeStep, TranscribeRead, Start, CreateTranscription,
     Reserve, MarkProviderRunning, ProviderAnswers, Settle, Persist, EnqueueAnalysis,
     AnalyzeStep, AnalyzeRead, CheckAnalysis, CheckTranscription, CreatePendingAnalysis,
     MarkAnalysisProcessing, RunModel, SaveAnalysis, MarkAnalyzed, EndStep, Report,
     MarkAwaiting, FailWork, FailCall, Stumble, Vanish,
     GoStale, Ripen, Reconcile, TopUp, Drain, vars
<1> QED
  BY <1>2, <1>6, <1>7, <1>8 DEF Next

(* In every behaviour the money for the recording is decided before a text *)
(* or an analysis of it can be seen, whoever cancels, restarts, reconciles *)
(* or dies in between.                                                     *)
THEOREM TextIsSettled == Spec => []SettledBeforeShown
<1>1. Init => PaidInv
  <2> SUFFICES ASSUME Init PROVE PaidInv
    OBVIOUS
  <2>1. SettledBeforeShown
    BY DEF Init, SettledBeforeShown
  <2>2. \A h \in Handlers : Earned(handler[h].pc, operation)
    BY DEF Init, Free, HandlerAt, Earned, PublishSteps, SpendSteps
  <2>3. \A u \in Users : user[u].pc = "pending" => operation \in Settled
    BY DEF Init, Idle, UserAt
  <2> QED
    BY <2>1, <2>2, <2>3 DEF PaidInv
<1>2. TypeOK /\ PaidInv /\ [Next]_vars => PaidInv'
  <2> SUFFICES ASSUME TypeOK, PaidInv, [Next]_vars PROVE PaidInv'
    OBVIOUS
  <2>1. OperationKept
    BY OperationIsKept
  <2>2. SettledBeforeShown'
    BY <2>1, AppearsSettled DEF OperationKept, SettledBeforeShown, LiveAnalysis
  <2>3. (\A h \in Handlers : Earned(handler[h].pc, operation))'
    BY HandlersEarn
  <2>4. (\A u \in Users : user[u].pc = "pending" => operation \in Settled)'
    BY <2>1, UsersEarn DEF OperationKept
  <2> QED
    BY <2>2, <2>3, <2>4 DEF PaidInv
<1>3. PaidInv => SettledBeforeShown
  BY DEF PaidInv
<1> QED
  BY <1>1, <1>2, <1>3, TypeCorrect, PTL DEF Spec

-----------------------------------------------------------------------------
-----------------------------------------------------------------------------
(* Texts and jobs.  While nobody cancels or bins the call, the transcription *)
(* job belongs to one handler at a time, and everybody who writes what the   *)
(* call shows stands where its text and its jobs allow it.                   *)

Undisturbed == Offered \cap {"cancel", "delete"} = {}

(* The call and its jobs are never taken away: no request is at a statement *)
(* that would.                                                              *)
LeftAlone ==
  /\ ~call.deleted /\ call.status # "cancelled"
  /\ \A u \in Users : user[u].pc \notin {"list", "release", "restart", "delete"}

IsBusy(k) == k.status \in BusyStatus

(* The text is there, or was taken away by a final failure. *)
Texted(t, r) == t = "transcribed" \/ r[Transcribe].status = "failed"

(* The analysis job is there, if one is wanted. *)
Onward(k, r) == k.only \/ Present(r[Analyze])

BeforeText == {"start", "create", "reserve", "mark", "provider", "settle", "persist",
               "park", "awaiting"}

Working == ({"read"} \cup TranscribeSteps \cup ReportSteps) \ {"awaiting"}

Transcribes(c) == c.pc # "free" /\ c.job = Transcribe

(* Where a handler c may stand over a call k, its text t and its jobs r. *)
Stands(c, k, t, r) ==
  /\ c.pc \in TranscribeSteps => c.job = Transcribe
  /\ c.pc \in AnalyzeSteps => c.job = Analyze
  /\ c.pc # "free" /\ c.job = Analyze => Present(r[Analyze])
  /\ Transcribes(c) =>
       /\ c.id = r[Transcribe].id
       /\ c.pc \in Working => r[Transcribe].status = "running" /\ ~Stale(r[Transcribe])
       /\ c.pc \in {"failWork", "failCall"} => r[Transcribe].status = "failed"
       /\ c.pc = "awaiting" => r[Transcribe].status = "pending" /\ ~r[Transcribe].ripe
       /\ c.pc \in BeforeText => IsBusy(k) /\ c.only = k.only
       /\ c.pc = "enqueue" => ~IsBusy(k) /\ t = "transcribed"
       /\ c.pc = "finish" => ~IsBusy(k) /\ Onward(k, r)

(* Where a person's request may be. *)
Asks(p, k, t, r) ==
  /\ p.pc \in {"idle", "switch", "pending", "enqueue", "recover"}
  /\ p.pc # "idle" => ~IsBusy(k) /\ Texted(t, r)
  /\ p.pc = "recover" => Present(r[Analyze])

(* The tables among themselves. *)
Consistent(k, t, r) ==
  /\ r[Transcribe].status \in {"pending", "running", "done", "failed"}
  /\ IsBusy(k) => /\ t # "transcribed" /\ ~Present(r[Analyze])
                  /\ r[Transcribe].status # "done"
  /\ Present(r[Analyze]) => Texted(t, r)
  /\ r[Transcribe].status = "done" => Onward(k, r)
  /\ k.status = "analyzed" => Present(r[Analyze])
  /\ k.status \in {"transcribed", "analyzed"} => Texted(t, r)

OneHolder ==
  \A g, h \in Handlers : Transcribes(handler[g]) /\ Transcribes(handler[h]) => g = h

TextInv ==
  /\ Consistent(call, transcription, rows)
  /\ \A h \in Handlers : Stands(handler[h], call, transcription, rows)
  /\ OneHolder
  /\ \A u \in Users : Asks(user[u], call, transcription, rows)

(* What no step takes back. *)
Kept(k, t, r, k2, t2, r2) ==
  /\ ~IsBusy(k) => ~IsBusy(k2)
  /\ Texted(t, r) => Texted(t2, r2)
  /\ Present(r[Analyze]) => Present(r2[Analyze])
  /\ k.only => k2.only
  /\ IsBusy(k) => k2.only = k.only

Tables == <<call, transcription, rows>>

StepKeeps == Kept(call, transcription, rows, call', transcription', rows')

(* People and the handlers of the analysis need no more than that. *)
LEMMA KeptStands ==
  ASSUME NEW k, NEW t, NEW r, NEW k2, NEW t2, NEW r2, Kept(k, t, r, k2, t2, r2)
  PROVE  /\ \A p : Asks(p, k, t, r) => Asks(p, k2, t2, r2)
         /\ \A c : Stands(c, k, t, r) /\ ~Transcribes(c) => Stands(c, k2, t2, r2)
         /\ r2[Transcribe] = r[Transcribe] /\ t2 = t /\ (IsBusy(k) => IsBusy(k2))
              => \A c : Stands(c, k, t, r) => Stands(c, k2, t2, r2)
<1>1. \A p : Asks(p, k, t, r) => Asks(p, k2, t2, r2)
  BY DEF Asks, Kept
<1>2. \A c : Stands(c, k, t, r) /\ ~Transcribes(c) => Stands(c, k2, t2, r2)
  BY DEF Stands, Kept
<1>3. ASSUME r2[Transcribe] = r[Transcribe], t2 = t, IsBusy(k) => IsBusy(k2),
             NEW c, Stands(c, k, t, r), Transcribes(c)
      PROVE  Stands(c, k2, t2, r2)
  <2>1. Onward(k, r) => Onward(k2, r2)
    BY DEF Kept, Onward
  <2> QED
    BY <1>3, <2>1 DEF Stands, Kept
<1> QED
  BY <1>1, <1>2, <1>3

(* A step of the one handler that works on the transcription. *)
LEMMA HolderSteps ==
  ASSUME TypeOK, TextInv, NEW h \in Handlers, NEW c,
         handler' = [handler EXCEPT ![h] = c],
         \A g \in Handlers \ {h} : ~Transcribes(handler[g]),
         StepKeeps, user' = user,
         Consistent(call', transcription', rows'),
         Stands(c, call', transcription', rows')
  PROVE  TextInv'
<1>1. handler \in [Handlers -> HandlerStates]
  BY DEF TypeOK
<1>2. \A g \in Handlers \ {h} : handler'[g] = handler[g]
  BY <1>1
<1>3. handler'[h] = c
  BY <1>1
<1>4. \A g \in Handlers : Stands(handler'[g], call', transcription', rows')
  BY <1>2, <1>3, KeptStands DEF StepKeeps, TextInv
<1>5. \A u \in Users : Asks(user'[u], call', transcription', rows')
  BY KeptStands DEF StepKeeps, TextInv
<1>6. OneHolder'
  BY <1>2 DEF OneHolder
<1> QED
  BY <1>4, <1>5, <1>6 DEF TextInv

(* A step of anybody else, who leaves its job and its text alone. *)
LEMMA OtherSteps ==
  ASSUME TypeOK, TextInv, StepKeeps,
         rows'[Transcribe] = rows[Transcribe], transcription' = transcription,
         IsBusy(call) => IsBusy(call'),
         Consistent(call', transcription', rows'),
         \/ handler' = handler
         \/ \E h \in Handlers : \E c :
              /\ handler' = [handler EXCEPT ![h] = c]
              /\ Stands(c, call', transcription', rows')
              /\ Transcribes(c) => Transcribes(handler[h]),
         \A u \in Users : Asks(user'[u], call', transcription', rows')
  PROVE  TextInv'
<1>1. handler \in [Handlers -> HandlerStates]
  BY DEF TypeOK
<1>2. \A g \in Handlers : Stands(handler[g], call', transcription', rows')
  BY KeptStands DEF StepKeeps, TextInv
<1>3. CASE handler' = handler
  BY <1>2, <1>3 DEF TextInv, OneHolder
<1>4. ASSUME NEW h \in Handlers, NEW c, handler' = [handler EXCEPT ![h] = c],
             Stands(c, call', transcription', rows'),
             Transcribes(c) => Transcribes(handler[h])
      PROVE  TextInv'
  <2>1. handler'[h] = c /\ \A g \in Handlers \ {h} : handler'[g] = handler[g]
    BY <1>1, <1>4
  <2>2. \A g \in Handlers : Stands(handler'[g], call', transcription', rows')
    BY <1>2, <1>4, <2>1
  <2>3. \A g \in Handlers : Transcribes(handler'[g]) => Transcribes(handler[g])
    BY <1>4, <2>1
  <2>4. OneHolder'
    BY <2>3 DEF OneHolder, TextInv
  <2> QED
    BY <2>2, <2>4 DEF TextInv
<1> QED
  BY <1>3, <1>4

(* Where no table changes, everything stands as it stood. *)
LEMMA TablesStay ==
  ASSUME TextInv, UNCHANGED Tables
  PROVE  /\ StepKeeps /\ Consistent(call', transcription', rows')
         /\ rows'[Transcribe] = rows[Transcribe] /\ transcription' = transcription
         /\ IsBusy(call) => IsBusy(call')
         /\ \A u \in Users : Asks(user[u], call', transcription', rows')
         /\ \A h \in Handlers : Stands(handler[h], call', transcription', rows')
  BY DEF TextInv, Tables, StepKeeps, Kept

(* A handler moves on and changes no table. *)
LEMMA Moves ==
  ASSUME TypeOK, TextInv, NEW h \in Handlers, NEW c,
         handler' = [handler EXCEPT ![h] = c], user' = user, UNCHANGED Tables,
         Stands(c, call, transcription, rows),
         Transcribes(c) => Transcribes(handler[h])
  PROVE  TextInv'
<1>1. Stands(c, call', transcription', rows')
  BY DEF Tables
<1>2. \A u \in Users : Asks(user'[u], call', transcription', rows')
  BY TablesStay
<1> QED
  BY <1>1, <1>2, TablesStay, OtherSteps

(* Where a handler may go next. *)
LEMMA HoldersGo ==
  ASSUME TextInv, NEW h \in Handlers, Transcribes(handler[h]), handler[h].pc \in Working,
         NEW pc \in Working \ {"enqueue", "finish"},
         pc \in BeforeText => handler[h].pc \in BeforeText
  PROVE  Stands(HandlerAt(pc, handler[h].job, handler[h].id, handler[h].only),
                call, transcription, rows)
<1> DEFINE c == HandlerAt(pc, handler[h].job, handler[h].id, handler[h].only)
<1>1. c.pc = pc /\ c.job = Transcribe /\ c.id = handler[h].id /\ c.only = handler[h].only
  BY DEF HandlerAt, Transcribes
<1>2. Stands(handler[h], call, transcription, rows)
  BY DEF TextInv
<1>3. pc \notin AnalyzeSteps /\ pc \notin {"failWork", "failCall", "awaiting", "free"}
  BY DEF Working, TranscribeSteps, AnalyzeSteps, ReportSteps
<1> SUFFICES Stands(c, call, transcription, rows)
  OBVIOUS
<1> HIDE DEF c
<1>4. Transcribe # Analyze
  BY DEF Transcribe, Analyze
<1> QED
  BY <1>1, <1>2, <1>3, <1>4 DEF Stands, Transcribes

(* A handler of the analysis is at home everywhere past the transcription. *)
LEMMA AnalyzersGo ==
  ASSUME TextInv, NEW h \in Handlers, handler[h].pc # "free", handler[h].job = Analyze,
         NEW pc, pc \notin TranscribeSteps
  PROVE  Stands(HandlerAt(pc, handler[h].job, handler[h].id, handler[h].only),
                call, transcription, rows)
<1> DEFINE c == HandlerAt(pc, handler[h].job, handler[h].id, handler[h].only)
<1>1. Present(rows[Analyze])
  BY DEF TextInv, Stands
<1>2. Transcribe # Analyze
  BY DEF Transcribe, Analyze
<1>3. c.pc = pc /\ c.job = Analyze
  BY DEF HandlerAt
<1> SUFFICES Stands(c, call, transcription, rows)
  OBVIOUS
<1> HIDE DEF c
<1> QED
  BY <1>1, <1>2, <1>3 DEF Stands, Transcribes

(* A handler without a job stands anywhere. *)
LEMMA FreeStands ==
  ASSUME NEW k, NEW t, NEW r
  PROVE  Stands(Free, k, t, r) /\ ~Transcribes(Free)
  BY DEF Free, HandlerAt, Stands, Transcribes, TranscribeSteps, AnalyzeSteps

(* What is known of a handler by its position. *)
LEMMA Positions ==
  ASSUME TypeOK, TextInv, NEW h \in Handlers
  PROVE  /\ handler[h].job \in {Transcribe, Analyze}
         /\ handler[h].pc \in TranscribeSteps => Transcribes(handler[h])
         /\ handler[h].pc \in AnalyzeSteps => handler[h].pc # "free" /\ handler[h].job = Analyze
         /\ Transcribes(handler[h]) => \A g \in Handlers \ {h} : ~Transcribes(handler[g])
<1>1. handler[h] \in HandlerStates
  BY DEF TypeOK
<1>2. Stands(handler[h], call, transcription, rows)
  BY DEF TextInv
<1>3. "free" \notin TranscribeSteps /\ "free" \notin AnalyzeSteps
  BY DEF TranscribeSteps, AnalyzeSteps
<1> QED
  BY <1>1, <1>2, <1>3 DEF HandlerStates, JobTypes, Stands, Transcribes, TextInv, OneHolder

(* A statement that changes no table leads on, or ends the work. *)
LEMMA Quiet ==
  ASSUME TypeOK, TextInv, NEW h \in Handlers, UNCHANGED Tables, user' = user,
         \/ Leave(h)
         \/ /\ Transcribes(handler[h]) /\ handler[h].pc \in Working
            /\ \E pc \in Working \ {"enqueue", "finish"} :
                 Goto(h, pc) /\ (pc \in BeforeText => handler[h].pc \in BeforeText)
         \/ /\ handler[h].pc # "free" /\ handler[h].job = Analyze
            /\ \E pc : Goto(h, pc) /\ pc \notin TranscribeSteps
  PROVE  TextInv'
<1> DEFINE c(pc) == HandlerAt(pc, handler[h].job, handler[h].id, handler[h].only)
<1>1. CASE Leave(h)
  BY <1>1, FreeStands, Moves DEF Leave
<1>2. ASSUME Transcribes(handler[h]), handler[h].pc \in Working,
             NEW pc \in Working \ {"enqueue", "finish"}, Goto(h, pc),
             pc \in BeforeText => handler[h].pc \in BeforeText
      PROVE  TextInv'
  <2>1. Stands(c(pc), call, transcription, rows)
    BY <1>2, HoldersGo
  <2>2. handler' = [handler EXCEPT ![h] = c(pc)]
    BY <1>2 DEF Goto
  <2> HIDE DEF c
  <2> QED
    BY <1>2, <2>1, <2>2, Moves
<1>3. ASSUME handler[h].pc # "free", handler[h].job = Analyze, NEW pc, Goto(h, pc),
             pc \notin TranscribeSteps
      PROVE  TextInv'
  <2>1. Stands(c(pc), call, transcription, rows)
    BY <1>3, AnalyzersGo
  <2>2. handler' = [handler EXCEPT ![h] = c(pc)]
    BY <1>3 DEF Goto
  <2>3. ~Transcribes(c(pc))
    BY <1>3 DEF Transcribes, HandlerAt, Transcribe, Analyze
  <2> HIDE DEF c
  <2> QED
    BY <2>1, <2>2, <2>3, Moves
<1> QED
  BY <1>1, <1>2, <1>3

(* What each handler reads, reserves and asks a provider for. *)
LEMMA QuietSteps ==
  ASSUME TypeOK, TextInv, NEW h \in Handlers,
         \/ Reserve(h) \/ MarkProviderRunning(h) \/ ProviderAnswers(h) \/ Settle(h)
         \/ AnalyzeRead(h) \/ CheckAnalysis(h) \/ CheckTranscription(h)
         \/ CreatePendingAnalysis(h) \/ MarkAnalysisProcessing(h) \/ RunModel(h)
         \/ SaveAnalysis(h) \/ Stumble(h) \/ Vanish(h)
  PROVE  TextInv'
<1>1. {"reserve", "mark", "provider", "settle", "persist", "park"}
        \subseteq Working \cap BeforeText
      /\ {"reserve", "mark", "provider", "settle", "persist", "park", "retry"}
           \cap {"enqueue", "finish"} = {}
      /\ "retry" \in Working \ BeforeText
  BY DEF Working, BeforeText, TranscribeSteps, ReportSteps
<1>2. {"reserve", "mark", "provider", "settle"} \subseteq TranscribeSteps
      /\ {"check", "transcript", "pending", "processing", "model", "save"} \subseteq AnalyzeSteps
      /\ {"permanent", "check", "finish", "transcript", "retry", "pending", "processing",
          "model", "park", "save", "analyzed"} \cap TranscribeSteps = {}
  BY DEF TranscribeSteps, AnalyzeSteps
<1>3. CASE Reserve(h) \/ MarkProviderRunning(h) \/ ProviderAnswers(h) \/ Settle(h)
  <2>1. UNCHANGED Tables /\ user' = user
    BY <1>3 DEF Reserve, MarkProviderRunning, ProviderAnswers, Settle, Tables, work
  <2>2. handler[h].pc \in {"reserve", "mark", "provider", "settle"}
        /\ \E pc \in {"mark", "provider", "settle", "persist", "park", "retry"} : Goto(h, pc)
    BY <1>3 DEF Reserve, MarkProviderRunning, ProviderAnswers, Settle, At
  <2>3. Transcribes(handler[h]) /\ handler[h].pc \in Working \cap BeforeText
    BY <1>1, <1>2, <2>2, Positions
  <2> QED
    BY <1>1, <2>1, <2>2, <2>3, Quiet
<1>4. CASE \/ AnalyzeRead(h) \/ CheckAnalysis(h) \/ CheckTranscription(h)
           \/ CreatePendingAnalysis(h) \/ MarkAnalysisProcessing(h) \/ RunModel(h)
           \/ SaveAnalysis(h)
  <2>1. UNCHANGED Tables /\ user' = user
    BY <1>4 DEF AnalyzeRead, CheckAnalysis, CheckTranscription, CreatePendingAnalysis,
                MarkAnalysisProcessing, RunModel, SaveAnalysis, Tables, work
  <2>2. \/ handler[h].pc = "read" /\ handler[h].job = Analyze
        \/ handler[h].pc \in {"check", "transcript", "pending", "processing", "model", "save"}
    BY <1>4 DEF AnalyzeRead, CheckAnalysis, CheckTranscription, CreatePendingAnalysis,
                MarkAnalysisProcessing, RunModel, SaveAnalysis, At
  <2>3. \E pc \in {"permanent", "check", "finish", "transcript", "retry", "pending",
                    "processing", "model", "park", "save", "analyzed"} : Goto(h, pc)
    BY <1>4 DEF AnalyzeRead, CheckAnalysis, CheckTranscription, CreatePendingAnalysis,
                MarkAnalysisProcessing, RunModel, SaveAnalysis
  <2>4. handler[h].pc # "free" /\ handler[h].job = Analyze
    BY <1>2, <2>2, Positions
  <2> QED
    BY <1>2, <2>1, <2>3, <2>4, Quiet
<1>5. CASE Stumble(h)
  <2>1. UNCHANGED Tables /\ user' = user /\ Goto(h, "retry")
    BY <1>5 DEF Stumble, Tables
  <2>2. handler[h].pc \in ({"read"} \cup TranscribeSteps \cup AnalyzeSteps) \ {"awaiting"}
    BY <1>5 DEF Stumble
  <2>3. handler[h].pc # "free"
    BY <2>2 DEF TranscribeSteps, AnalyzeSteps
  <2>4. CASE handler[h].job = Analyze
    BY <1>2, <2>1, <2>3, <2>4, Quiet
  <2>5. CASE handler[h].job = Transcribe
    <3>1. Transcribes(handler[h]) /\ Transcribe # Analyze
      BY <2>3, <2>5 DEF Transcribes, Transcribe, Analyze
    <3>2. handler[h].pc \in Working
      BY <2>2, <2>5, <3>1, Positions DEF Working
    <3> QED
      BY <1>1, <2>1, <3>1, <3>2, Quiet
  <2> QED
    BY <2>4, <2>5, Positions
<1>6. CASE Vanish(h)
  BY <1>6, Quiet DEF Vanish, Tables
<1> QED
  BY <1>3, <1>4, <1>5, <1>6

(* The handler that holds the transcription reads the call. *)
LEMMA ReadsOn ==
  ASSUME TypeOK, TextInv, NEW h \in Handlers, TranscribeRead(h)
  PROVE  TextInv'
<1> DEFINE c == HandlerAt(StepAfterRead, handler[h].job, handler[h].id, call.only)
<1>1. handler' = [handler EXCEPT ![h] = c] /\ UNCHANGED Tables /\ user' = user
  BY DEF TranscribeRead, Tables, work
<1>2. handler[h].pc = "read" /\ handler[h].job = Transcribe
  BY DEF TranscribeRead, At
<1>3. c.pc = StepAfterRead /\ c.job = Transcribe /\ c.id = handler[h].id
      /\ c.only = call.only
  BY <1>2 DEF HandlerAt
<1>4. Stands(handler[h], call, transcription, rows) /\ Consistent(call, transcription, rows)
  BY DEF TextInv
<1>5. Transcribes(handler[h])
  BY <1>2 DEF Transcribes
<1>6. rows[Transcribe].status = "running" /\ ~Stale(rows[Transcribe])
      /\ handler[h].id = rows[Transcribe].id
  BY <1>2, <1>4, <1>5 DEF Stands, Working
<1>7. /\ StepAfterRead \in {"permanent", "finish", "enqueue", "start", "create"}
      /\ StepAfterRead \in {"start", "create"} => IsBusy(call)
      /\ StepAfterRead = "enqueue" => call.status = "transcribed"
      /\ StepAfterRead = "finish" =>
           call.status = "analyzed" \/ (call.status = "transcribed" /\ call.only)
  <2>1. call.only \in BOOLEAN
    BY CallFields DEF TypeOK
  <2>2. StepAfterRead \in {"permanent", "finish", "enqueue", "start", "create"}
    BY <2>1 DEF StepAfterRead
  <2>3. StepAfterRead = "enqueue" => call.status = "transcribed"
    BY <2>1 DEF StepAfterRead
  <2>4. StepAfterRead = "finish" =>
          call.status = "analyzed" \/ (call.status = "transcribed" /\ call.only)
    BY <2>1 DEF StepAfterRead
  <2>5. StepAfterRead \in {"start", "create"} => IsBusy(call)
    BY <2>1 DEF StepAfterRead, IsBusy, BusyStatus
  <2> QED
    BY <2>2, <2>3, <2>4, <2>5
<1>8. /\ StepAfterRead = "enqueue" => ~IsBusy(call) /\ transcription = "transcribed"
      /\ StepAfterRead = "finish" => ~IsBusy(call) /\ Onward(call, rows)
  BY <1>4, <1>6, <1>7 DEF Consistent, Texted, Onward, IsBusy, BusyStatus
<1>9. {"permanent", "finish", "enqueue", "start", "create"}
        \cap (AnalyzeSteps \cup {"failWork", "failCall", "awaiting", "free"}) = {}
      /\ {"permanent", "finish", "enqueue", "start", "create"} \cap BeforeText
           = {"start", "create"}
  BY DEF AnalyzeSteps, BeforeText
<1>10. Stands(c, call, transcription, rows)
  <2> HIDE DEF c
  <2>1. c.pc \in {"start", "create"} => IsBusy(call)
    BY <1>3, <1>7
  <2>2. c.pc \in BeforeText => IsBusy(call) /\ c.only = call.only
    BY <1>3, <1>7, <1>9, <2>1
  <2>3. c.pc \notin AnalyzeSteps /\ c.pc \notin {"failWork", "failCall", "awaiting", "free"}
    BY <1>3, <1>7, <1>9
  <2>4. Transcribe # Analyze
    BY DEF Transcribe, Analyze
  <2> QED
    BY <1>3, <1>6, <1>8, <2>2, <2>3, <2>4 DEF Stands, Transcribes
<1> HIDE DEF c
<1> QED
  BY <1>1, <1>5, <1>10, Moves

(* What the handler of the transcription finds at its position. *)
LEMMA HolderKnows ==
  ASSUME TypeOK, TextInv, NEW h \in Handlers, Transcribes(handler[h])
  PROVE  /\ handler[h].id = rows[Transcribe].id
         /\ handler[h].pc \in Working =>
              rows[Transcribe].status = "running" /\ ~Stale(rows[Transcribe])
         /\ handler[h].pc \in {"failWork", "failCall"} => rows[Transcribe].status = "failed"
         /\ handler[h].pc = "awaiting" =>
              rows[Transcribe].status = "pending" /\ ~rows[Transcribe].ripe
         /\ handler[h].pc \in BeforeText => IsBusy(call) /\ handler[h].only = call.only
         /\ handler[h].pc = "enqueue" => ~IsBusy(call) /\ transcription = "transcribed"
         /\ handler[h].pc = "finish" => ~IsBusy(call) /\ Onward(call, rows)
         /\ \A g \in Handlers \ {h} : ~Transcribes(handler[g])
         /\ Consistent(call, transcription, rows)
<1>1. Stands(handler[h], call, transcription, rows) /\ Consistent(call, transcription, rows)
  BY DEF TextInv
<1>2. \A g \in Handlers \ {h} : ~Transcribes(handler[g])
  BY Positions
<1> QED
  BY <1>1, <1>2 DEF Stands

(* A position of the transcription, as long as its row runs. *)
LEMMA StandsWorking ==
  ASSUME NEW c, NEW k, NEW t, NEW r,
         c.pc \in Working, c.job = Transcribe, c.id = r[Transcribe].id,
         r[Transcribe].status = "running", ~Stale(r[Transcribe]),
         c.pc \in BeforeText => IsBusy(k) /\ c.only = k.only,
         c.pc = "enqueue" => ~IsBusy(k) /\ t = "transcribed",
         c.pc = "finish" => ~IsBusy(k) /\ Onward(k, r)
  PROVE  Stands(c, k, t, r)
<1>1. c.pc \notin AnalyzeSteps /\ c.pc \notin {"failWork", "failCall", "awaiting", "free"}
  BY DEF Working, TranscribeSteps, AnalyzeSteps, ReportSteps
<1>2. Transcribe # Analyze
  BY DEF Transcribe, Analyze
<1> QED
  BY <1>1, <1>2 DEF Stands, Transcribes

(* The handler of the transcription writes the call, its text and its next job. *)
LEMMA HolderWrites ==
  ASSUME TypeOK, TextInv, NEW h \in Handlers,
         Start(h) \/ CreateTranscription(h) \/ Persist(h) \/ EnqueueAnalysis(h)
  PROVE  TextInv'
<1>0. handler[h].pc \in {"start", "create", "persist", "enqueue"}
  BY DEF Start, CreateTranscription, Persist, EnqueueAnalysis, At
<1>1. Transcribes(handler[h]) /\ handler[h].pc \in Working
  BY <1>0, Positions DEF Working, TranscribeSteps
<1>2. handler[h].job = Transcribe
  BY <1>1 DEF Transcribes
<1>3. /\ handler[h].id = rows[Transcribe].id
      /\ rows[Transcribe].status = "running" /\ ~Stale(rows[Transcribe])
      /\ handler[h].pc # "enqueue" => IsBusy(call) /\ handler[h].only = call.only
      /\ handler[h].pc = "enqueue" => ~IsBusy(call) /\ transcription = "transcribed"
      /\ \A g \in Handlers \ {h} : ~Transcribes(handler[g])
      /\ Consistent(call, transcription, rows)
  BY <1>0, <1>1, HolderKnows DEF BeforeText
<1>4. call.only \in BOOLEAN /\ rows \in [JobTypes -> Rows]
  BY CallFields DEF TypeOK
<1>5. user' = user
  BY DEF Start, CreateTranscription, Persist, EnqueueAnalysis
<1>6. CASE Start(h)
  <2> DEFINE c == HandlerAt("create", handler[h].job, handler[h].id, call.only)
  <2>1. handler' = [handler EXCEPT ![h] = c] /\ transcription' = transcription /\ rows' = rows
    BY <1>6 DEF Start
  <2>2. call'.status = "processing" /\ call'.only = call.only /\ IsBusy(call')
    BY <1>6 DEF Start, WithStatus, Call, IsBusy, BusyStatus
  <2>3. IsBusy(call)
    BY <1>3, <1>6 DEF Start, At
  <2>4. c.pc = "create" /\ c.job = Transcribe /\ c.id = rows[Transcribe].id
        /\ c.only = call'.only
    BY <1>2, <1>3, <2>2 DEF HandlerAt
  <2>5. "create" \in Working
    BY DEF Working, TranscribeSteps
  <2> HIDE DEF c
  <2>6. Stands(c, call', transcription', rows')
    BY <1>3, <2>1, <2>2, <2>4, <2>5, StandsWorking
  <2>7. Consistent(call', transcription', rows')
    BY <1>3, <2>1, <2>2, <2>3 DEF Consistent, Onward
  <2>8. StepKeeps
    BY <2>1, <2>2, <2>3 DEF StepKeeps, Kept
  <2> QED
    BY <1>3, <1>5, <2>1, <2>6, <2>7, <2>8, HolderSteps
<1>7. CASE CreateTranscription(h)
  <2> DEFINE c == HandlerAt("reserve", handler[h].job, handler[h].id, handler[h].only)
  <2>1. handler' = [handler EXCEPT ![h] = c] /\ transcription' = "processing"
        /\ rows' = rows /\ call' = call
    BY <1>7 DEF CreateTranscription, Goto
  <2>3. IsBusy(call) /\ handler[h].only = call.only
    BY <1>3, <1>7 DEF CreateTranscription, At
  <2>4. c.pc = "reserve" /\ c.job = Transcribe /\ c.id = rows[Transcribe].id
        /\ c.only = call.only
    BY <1>2, <1>3, <2>3 DEF HandlerAt
  <2>5. "reserve" \in Working
    BY DEF Working, TranscribeSteps
  <2> HIDE DEF c
  <2>6. Stands(c, call', transcription', rows')
    BY <1>3, <2>1, <2>3, <2>4, <2>5, StandsWorking
  <2>7. Consistent(call', transcription', rows')
    BY <1>3, <2>1, <2>3 DEF Consistent, Texted, IsBusy, BusyStatus
  <2>8. StepKeeps
    BY <1>3, <2>1, <2>3 DEF StepKeeps, Kept, Texted, Consistent
  <2> QED
    BY <1>3, <1>5, <2>1, <2>6, <2>7, <2>8, HolderSteps
<1>8. CASE Persist(h)
  <2> DEFINE pc == IF handler[h].only THEN "finish" ELSE "enqueue"
             c == HandlerAt(pc, handler[h].job, handler[h].id, handler[h].only)
  <2>1. handler' = [handler EXCEPT ![h] = c] /\ transcription' = "transcribed" /\ rows' = rows
    BY <1>8 DEF Persist, Goto
  <2>2. call'.status = "transcribed" /\ call'.only = call.only /\ ~IsBusy(call')
    BY <1>8 DEF Persist, WithStatus, Call, IsBusy, BusyStatus
  <2>3. IsBusy(call) /\ handler[h].only = call.only
    BY <1>3, <1>8 DEF Persist, At
  <2>4. c.pc = pc /\ c.job = Transcribe /\ c.id = rows[Transcribe].id
    BY <1>2, <1>3 DEF HandlerAt
  <2>5. pc \in Working \ BeforeText /\ (pc = "finish" => Onward(call', rows'))
    BY <2>2, <2>3 DEF Working, TranscribeSteps, ReportSteps, BeforeText, Onward
  <2> HIDE DEF c, pc
  <2>6. Stands(c, call', transcription', rows')
    BY <1>3, <2>1, <2>2, <2>4, <2>5, StandsWorking
  <2>7. Consistent(call', transcription', rows')
    BY <1>3, <2>1, <2>2 DEF Consistent, Texted
  <2>8. StepKeeps
    BY <2>1, <2>2 DEF StepKeeps, Kept, Texted
  <2> QED
    BY <1>3, <1>5, <2>1, <2>6, <2>7, <2>8, HolderSteps
<1>9. CASE EnqueueAnalysis(h)
  <2> DEFINE c == HandlerAt("finish", handler[h].job, handler[h].id, handler[h].only)
  <2>1. handler' = [handler EXCEPT ![h] = c] /\ transcription' = transcription /\ call' = call
    BY <1>9 DEF EnqueueAnalysis, Goto
  <2>2. rows'[Transcribe] = rows[Transcribe] /\ Present(rows'[Analyze])
    BY <1>4, <1>9 DEF EnqueueAnalysis, AnalysisEnqueued, Enqueued, Inserted, Row, Present,
                      JobTypes, Transcribe, Analyze
  <2>3. ~IsBusy(call) /\ transcription = "transcribed"
    BY <1>3, <1>9 DEF EnqueueAnalysis, At
  <2>4. c.pc = "finish" /\ c.job = Transcribe /\ c.id = rows'[Transcribe].id
    BY <1>2, <1>3, <2>2 DEF HandlerAt
  <2>5. "finish" \in Working \ BeforeText
    BY DEF Working, ReportSteps, BeforeText
  <2> HIDE DEF c
  <2>6. Stands(c, call', transcription', rows')
    BY <1>3, <2>1, <2>2, <2>3, <2>4, <2>5, StandsWorking DEF Onward
  <2>7. Consistent(call', transcription', rows')
    BY <1>3, <2>1, <2>2, <2>3 DEF Consistent, Texted, Onward
  <2>8. StepKeeps
    BY <2>1, <2>2 DEF StepKeeps, Kept, Texted
  <2> QED
    BY <1>3, <1>5, <2>1, <2>6, <2>7, <2>8, HolderSteps
<1> QED
  BY <1>6, <1>7, <1>8, <1>9

(* The queue hands the transcription to a handler: nobody else had it. *)
LEMMA TakesTranscription ==
  ASSUME TypeOK, TextInv, NEW h \in Handlers, Take(h, Transcribe)
  PROVE  TextInv'
<1> DEFINE c == HandlerAt("read", Transcribe, rows[Transcribe].id, FALSE)
<1>1. handler' = [handler EXCEPT ![h] = c] /\ user' = user /\ call' = call
      /\ transcription' = transcription /\ Claimable(rows[Transcribe])
  BY DEF Take
<1>2. rows'[Transcribe] = Claimed(rows[Transcribe]) /\ rows'[Analyze] = rows[Analyze]
  BY DEF Take, TypeOK, JobTypes, Transcribe, Analyze
<1>3. /\ rows'[Transcribe].status = "running" /\ ~Stale(rows'[Transcribe])
      /\ rows'[Transcribe].id = rows[Transcribe].id
  BY <1>2, StaleAfterAssumption DEF Claimed, Row, Stale
<1>4. /\ rows[Transcribe].status \in {"pending", "running"}
      /\ rows[Transcribe].status = "pending" => rows[Transcribe].ripe
      /\ rows[Transcribe].status = "running" => Stale(rows[Transcribe])
  BY <1>1 DEF Claimable
<1>5. \A g \in Handlers : ~Transcribes(handler[g])
  <2> SUFFICES ASSUME NEW g \in Handlers, Transcribes(handler[g]) PROVE FALSE
    OBVIOUS
  <2>1. handler[g].pc \in HandlerSteps /\ handler[g].pc # "free"
    BY DEF TypeOK, HandlerStates, Transcribes
  <2>2. handler[g].pc \notin AnalyzeSteps
    BY Positions DEF Transcribes, Transcribe, Analyze
  <2>3. handler[g].pc \in Working \cup {"failWork", "failCall", "awaiting"}
    BY <2>1, <2>2 DEF HandlerSteps, Working
  <2> QED
    BY <1>4, <2>3, HolderKnows
<1>6. c.pc = "read" /\ c.job = Transcribe /\ c.id = rows'[Transcribe].id
  BY <1>3 DEF HandlerAt
<1>7. "read" \in Working \ BeforeText
  BY DEF Working, BeforeText
<1> HIDE DEF c
<1>8. Stands(c, call', transcription', rows')
  BY <1>3, <1>6, <1>7, StandsWorking
<1>9. Consistent(call, transcription, rows)
  BY DEF TextInv
<1>10. Consistent(call', transcription', rows')
  BY <1>1, <1>2, <1>3, <1>4, <1>9 DEF Consistent, Texted
<1>11. StepKeeps
  BY <1>1, <1>2, <1>4 DEF StepKeeps, Kept, Texted
<1> QED
  BY <1>1, <1>5, <1>8, <1>10, <1>11, HolderSteps

(* How the transcription ends: its row first, then the call. *)
LEMMA HolderReports ==
  ASSUME TypeOK, TextInv, NEW h \in Handlers, Report(h), handler[h].job = Transcribe
  PROVE  TextInv'
<1> DEFINE r == rows[Transcribe]
           q == Mark(r, handler[h].pc)
           pc == StepAfterMark(q, h)
           c == IF pc = "free" THEN Free
                ELSE HandlerAt(pc, handler[h].job, handler[h].id, handler[h].only)
<1>1. handler[h].pc \in ReportSteps
  BY DEF Report
<1>2. Transcribes(handler[h]) /\ handler[h].pc \in Working
  BY <1>1 DEF Transcribes, ReportSteps, Working
<1>3. /\ handler[h].id = r.id /\ r.status = "running"
      /\ handler[h].pc = "park" => IsBusy(call) /\ handler[h].only = call.only
      /\ handler[h].pc = "finish" => ~IsBusy(call) /\ Onward(call, rows)
      /\ \A g \in Handlers \ {h} : ~Transcribes(handler[g])
      /\ Consistent(call, transcription, rows)
  BY <1>2, HolderKnows DEF BeforeText
<1>4. Finds(h)
  BY <1>3 DEF Finds, Present
<1>5. rows' = [rows EXCEPT ![Transcribe] = q] /\ handler' = [handler EXCEPT ![h] = c]
  BY <1>4 DEF Report, Leave, Goto
<1>6. call' = call /\ transcription' = transcription /\ user' = user
  BY DEF Report
<1>7. rows'[Transcribe] = q /\ rows'[Analyze] = rows[Analyze]
  BY <1>5 DEF TypeOK, JobTypes, Transcribe, Analyze
<1>8. /\ q.id = r.id /\ q.status \in {"done", "failed", "pending"}
      /\ q.status = "done" => handler[h].pc = "finish"
      /\ handler[h].pc = "park" => q.status = "pending" /\ ~q.ripe
  BY <1>1 DEF Mark, ReportSteps, MarkedDone, MarkedRetry, MarkedFailed,
              MarkedWaitingForCredits, Row
<1>9. /\ pc \in {"failWork", "awaiting", "free"}
      /\ pc = "failWork" => q.status = "failed"
      /\ pc = "awaiting" => handler[h].pc = "park"
  BY DEF StepAfterMark, At
<1>10. pc # "free" => c.pc = pc /\ c.job = Transcribe /\ c.id = q.id
                      /\ c.only = handler[h].only
  BY <1>3, <1>8 DEF HandlerAt
<1>11. pc = "free" => c = Free
  OBVIOUS
<1> HIDE DEF c, pc, q, r
<1>12. Stands(c, call', transcription', rows')
  <2>1. CASE pc = "free"
    BY <1>11, <2>1, FreeStands
  <2>2. CASE pc = "failWork"
    <3>1. "failWork" \notin Working \cup BeforeText \cup TranscribeSteps \cup AnalyzeSteps
      BY DEF Working, BeforeText, TranscribeSteps, AnalyzeSteps, ReportSteps
    <3> QED
      BY <1>7, <1>9, <1>10, <2>2, <3>1 DEF Stands, Transcribes, Transcribe, Analyze
  <2>3. CASE pc = "awaiting"
    <3>1. "awaiting" \notin Working \cup AnalyzeSteps
      BY DEF Working, AnalyzeSteps, ReportSteps
    <3>2. q.status = "pending" /\ ~q.ripe /\ IsBusy(call) /\ c.only = call.only
      BY <1>3, <1>8, <1>9, <1>10, <2>3
    <3> QED
      BY <1>6, <1>7, <1>10, <2>3, <3>1, <3>2 DEF Stands, Transcribes, Transcribe, Analyze
  <2> QED
    BY <1>9, <2>1, <2>2, <2>3
<1>13. Consistent(call', transcription', rows')
  BY <1>3, <1>6, <1>7, <1>8 DEF Consistent, Texted, Onward, r
<1>14. StepKeeps
  BY <1>3, <1>6, <1>7 DEF StepKeeps, Kept, Texted, r
<1> QED
  BY <1>3, <1>5, <1>6, <1>12, <1>13, <1>14, HolderSteps

(* What a parked or a failed job means for the call. *)
LEMMA HolderEnds ==
  ASSUME TypeOK, TextInv, NEW h \in Handlers, handler[h].job = Transcribe,
         MarkAwaiting(h) \/ FailWork(h) \/ FailCall(h)
  PROVE  TextInv'
<1>1. Transcribes(handler[h]) /\ user' = user /\ rows' = rows
  BY DEF MarkAwaiting, FailWork, FailCall, At, Transcribes
<1>2. /\ handler[h].id = rows[Transcribe].id
      /\ handler[h].pc \in {"failWork", "failCall"} => rows[Transcribe].status = "failed"
      /\ handler[h].pc = "awaiting" => IsBusy(call)
      /\ \A g \in Handlers \ {h} : ~Transcribes(handler[g])
      /\ Consistent(call, transcription, rows)
  BY <1>1, HolderKnows DEF BeforeText
<1>3. CASE MarkAwaiting(h)
  <2>1. handler' = [handler EXCEPT ![h] = Free] /\ transcription' = transcription
    BY <1>3 DEF MarkAwaiting, Leave
  <2>2. call'.status = "awaiting_credits" /\ call'.only = call.only /\ IsBusy(call')
    BY <1>3 DEF MarkAwaiting, WithStatus, Call, IsBusy, BusyStatus
  <2>3. IsBusy(call)
    BY <1>2, <1>3 DEF MarkAwaiting, At
  <2>4. Consistent(call', transcription', rows')
    BY <1>1, <1>2, <2>1, <2>2, <2>3 DEF Consistent, Onward
  <2>5. StepKeeps
    BY <1>1, <2>1, <2>2, <2>3 DEF StepKeeps, Kept
  <2> QED
    BY <1>1, <1>2, <2>1, <2>4, <2>5, FreeStands, HolderSteps
<1>4. CASE FailWork(h)
  <2> DEFINE c == HandlerAt("failCall", handler[h].job, handler[h].id, handler[h].only)
  <2>1. handler' = [handler EXCEPT ![h] = c] /\ call' = call
        /\ transcription' \in {"none", "failed"}
    BY <1>4 DEF FailWork, Goto
  <2>2. c.pc = "failCall" /\ c.job = Transcribe /\ c.id = rows[Transcribe].id
    BY <1>2 DEF HandlerAt
  <2>3. rows[Transcribe].status = "failed"
    BY <1>2, <1>4 DEF FailWork, At
  <2>4. "failCall" \notin Working \cup BeforeText \cup TranscribeSteps \cup AnalyzeSteps
    BY DEF Working, BeforeText, TranscribeSteps, AnalyzeSteps, ReportSteps
  <2> HIDE DEF c
  <2>5. Stands(c, call', transcription', rows')
    BY <1>1, <2>2, <2>3, <2>4 DEF Stands, Transcribes, Transcribe, Analyze
  <2>6. Consistent(call', transcription', rows')
    BY <1>1, <1>2, <2>1, <2>3 DEF Consistent, Texted
  <2>7. StepKeeps
    BY <1>1, <2>1, <2>3 DEF StepKeeps, Kept, Texted
  <2> QED
    BY <1>1, <1>2, <2>1, <2>5, <2>6, <2>7, HolderSteps
<1>5. CASE FailCall(h)
  <2>1. handler' = [handler EXCEPT ![h] = Free] /\ transcription' = transcription
    BY <1>5 DEF FailCall, Leave
  <2>2. call'.status = "failed" /\ call'.only = call.only /\ ~IsBusy(call')
    BY <1>5 DEF FailCall, WithStatus, Call, IsBusy, BusyStatus
  <2>3. rows[Transcribe].status = "failed"
    BY <1>2, <1>5 DEF FailCall, At
  <2>4. Consistent(call', transcription', rows')
    BY <1>1, <1>2, <2>1, <2>2, <2>3 DEF Consistent, Onward, Texted
  <2>5. StepKeeps
    BY <1>1, <2>1, <2>2 DEF StepKeeps, Kept
  <2> QED
    BY <1>1, <1>2, <2>1, <2>4, <2>5, FreeStands, HolderSteps
<1> QED
  BY <1>3, <1>4, <1>5

(* A row nobody works on may change its clocks. *)
LEMMA NobodyHolds ==
  ASSUME TextInv, StepKeeps, handler' = handler, user' = user,
         \A h \in Handlers : ~Transcribes(handler[h]),
         Consistent(call', transcription', rows')
  PROVE  TextInv'
<1>1. \A u \in Users : Asks(user'[u], call', transcription', rows')
  BY KeptStands DEF StepKeeps, TextInv
<1>2. \A h \in Handlers : Stands(handler'[h], call', transcription', rows')
  BY KeptStands DEF StepKeeps, TextInv
<1> QED
  BY <1>1, <1>2 DEF TextInv, OneHolder

(* The row of the transcription gets older only when nobody works on it. *)
LEMMA ClocksTick ==
  ASSUME TypeOK, TextInv, NEW j \in JobTypes, GoStale(j) \/ Ripen(j)
  PROVE  TextInv'
<1>1. /\ handler' = handler /\ user' = user /\ call' = call
      /\ transcription' = transcription
      /\ rows'[j].status = rows[j].status
      /\ \A i \in JobTypes \ {j} : rows'[i] = rows[i]
  BY DEF GoStale, Ripen, Aged, Ripened, Row, TypeOK
<1>2. rows'[Transcribe].status = rows[Transcribe].status
      /\ rows'[Analyze].status = rows[Analyze].status
  BY <1>1 DEF JobTypes
<1>3. StepKeeps
  BY <1>1, <1>2 DEF StepKeeps, Kept, Texted, Present
<1>4. Consistent(call', transcription', rows')
  BY <1>1, <1>2 DEF TextInv, Consistent, Texted, Onward, Present
<1>5. CASE j = Analyze
  <2>1. rows'[Transcribe] = rows[Transcribe]
    BY <1>1, <1>5 DEF JobTypes, Transcribe, Analyze
  <2>2. \A u \in Users : Asks(user'[u], call', transcription', rows')
    BY <1>1, <1>3, KeptStands DEF StepKeeps, TextInv
  <2> QED
    BY <1>1, <1>3, <1>4, <2>1, <2>2, OtherSteps
<1>6. CASE j = Transcribe
  <2>1. ASSUME NEW h \in Handlers, Transcribes(handler[h])
        PROVE  FALSE
    <3>1. handler[h].id = rows[Transcribe].id
      BY <2>1, HolderKnows
    <3>2. h \in Holding(Transcribe)
      BY <2>1, <3>1 DEF Holding, Transcribes, At
    <3>3. CASE GoStale(Transcribe)
      BY <3>2, <3>3 DEF GoStale
    <3>4. CASE Ripen(Transcribe)
      <4>1. rows[Transcribe].status = "pending" /\ handler[h].pc # "awaiting"
        BY <3>2, <3>4 DEF Ripen, At
      <4>2. handler[h].pc \in HandlerSteps /\ handler[h].pc # "free"
        BY <2>1 DEF TypeOK, HandlerStates, Transcribes
      <4>3. handler[h].pc \notin AnalyzeSteps
        BY <2>1, Positions DEF Transcribes, Transcribe, Analyze
      <4>4. handler[h].pc \in Working \cup {"failWork", "failCall"}
        BY <4>1, <4>2, <4>3 DEF HandlerSteps, Working
      <4> QED
        BY <2>1, <4>1, <4>4, HolderKnows
    <3> QED
      BY <1>6, <3>3, <3>4
  <2> QED
    BY <1>1, <1>3, <1>4, <2>1, NobodyHolds
<1> QED
  BY <1>5, <1>6 DEF JobTypes

(* A handler of the analysis, from the claim of its job to its report. *)
LEMMA AnalyzerWrites ==
  ASSUME TypeOK, TextInv, NEW h \in Handlers,
         \/ Take(h, Analyze)
         \/ MarkAnalyzed(h)
         \/ /\ handler[h].job = Analyze
            /\ Report(h) \/ FailWork(h) \/ FailCall(h)
  PROVE  TextInv'
<1>1. user' = user
  BY DEF Take, MarkAnalyzed, Report, FailWork, FailCall
<1>2. Consistent(call, transcription, rows)
  BY DEF TextInv
<1>3. Transcribe # Analyze
  BY DEF Transcribe, Analyze
<1>4. StepKeeps => \A u \in Users : Asks(user'[u], call', transcription', rows')
  BY <1>1, KeptStands DEF StepKeeps, TextInv
<1>5. ASSUME NEW pc, pc \notin TranscribeSteps, NEW id, NEW only,
             NEW k, NEW t, NEW r, Present(r[Analyze])
      PROVE  Stands(HandlerAt(pc, Analyze, id, only), k, t, r)
             /\ ~Transcribes(HandlerAt(pc, Analyze, id, only))
  <2> DEFINE c == HandlerAt(pc, Analyze, id, only)
  <2>1. c.pc = pc /\ c.job = Analyze
    BY DEF HandlerAt
  <2> SUFFICES Stands(c, k, t, r) /\ ~Transcribes(c)
    OBVIOUS
  <2> HIDE DEF c
  <2> QED
    BY <1>3, <1>5, <2>1 DEF Stands, Transcribes
<1>6. CASE Take(h, Analyze)
  <2>1. /\ handler' = [handler EXCEPT ![h] = HandlerAt("read", Analyze, rows[Analyze].id, FALSE)]
        /\ call' = call /\ transcription' = transcription
    BY <1>6 DEF Take
  <2>2. rows'[Transcribe] = rows[Transcribe] /\ Present(rows'[Analyze])
        /\ Present(rows[Analyze])
    BY <1>3, <1>6 DEF Take, Claimable, Claimed, Row, Present, TypeOK, JobTypes
  <2>3. "read" \notin TranscribeSteps
    BY DEF TranscribeSteps
  <2>4. StepKeeps
    BY <2>1, <2>2 DEF StepKeeps, Kept, Texted
  <2>5. Consistent(call', transcription', rows')
    BY <1>2, <2>1, <2>2 DEF Consistent, Texted, Onward
  <2>6. /\ Stands(HandlerAt("read", Analyze, rows[Analyze].id, FALSE),
                  call', transcription', rows')
        /\ ~Transcribes(HandlerAt("read", Analyze, rows[Analyze].id, FALSE))
    BY <1>5, <2>2, <2>3
  <2> QED
    BY <1>4, <2>1, <2>2, <2>4, <2>5, <2>6, OtherSteps
<1>7. CASE MarkAnalyzed(h) \/ (handler[h].job = Analyze /\ FailCall(h))
  <2> DEFINE c == IF MarkAnalyzed(h)
                  THEN HandlerAt("finish", Analyze, handler[h].id, handler[h].only) ELSE Free
  <2>1. handler[h].pc # "free" /\ handler[h].job = Analyze
    BY <1>7, Positions DEF MarkAnalyzed, FailCall, At, AnalyzeSteps
  <2>2. Present(rows[Analyze]) /\ ~IsBusy(call) /\ Texted(transcription, rows)
    BY <1>2, <2>1 DEF TextInv, Stands, Consistent
  <2>3. handler' = [handler EXCEPT ![h] = c] /\ transcription' = transcription /\ rows' = rows
    BY <1>7, <2>1 DEF MarkAnalyzed, FailCall, Goto, Leave, At
  <2>4. call'.status \in {"analyzed", "failed"} /\ call'.only = call.only /\ ~IsBusy(call')
    BY <1>7 DEF MarkAnalyzed, FailCall, WithStatus, Call, IsBusy, BusyStatus
  <2>5. "finish" \notin TranscribeSteps
    BY DEF TranscribeSteps
  <2>6. Stands(c, call', transcription', rows') /\ ~Transcribes(c)
    BY <1>5, <2>2, <2>3, <2>5, FreeStands
  <2> HIDE DEF c
  <2>7. StepKeeps
    BY <2>2, <2>3, <2>4 DEF StepKeeps, Kept
  <2>8. Consistent(call', transcription', rows')
    BY <1>2, <2>2, <2>3, <2>4 DEF Consistent, Onward
  <2> QED
    BY <1>4, <2>2, <2>3, <2>6, <2>7, <2>8, OtherSteps
<1>8. CASE handler[h].job = Analyze /\ FailWork(h)
  <2>1. UNCHANGED Tables /\ Goto(h, "failCall") /\ handler[h].pc # "free"
    BY <1>3, <1>8 DEF FailWork, Tables, At
  <2>2. "failCall" \notin TranscribeSteps
    BY DEF TranscribeSteps
  <2> QED
    BY <1>1, <1>8, <2>1, <2>2, Quiet
<1>9. CASE handler[h].job = Analyze /\ Report(h)
  <2>1. handler[h].pc # "free" /\ call' = call /\ transcription' = transcription
    BY <1>9 DEF Report, ReportSteps
  <2>2. CASE ~Finds(h)
    BY <1>1, <1>9, <2>1, <2>2, Quiet DEF Report, Tables
  <2>3. CASE Finds(h)
    <3> DEFINE q == Mark(rows[Analyze], handler[h].pc)
               pc == StepAfterMark(q, h)
               c == IF pc = "free" THEN Free
                    ELSE HandlerAt(pc, Analyze, handler[h].id, handler[h].only)
    <3>1. rows' = [rows EXCEPT ![Analyze] = q] /\ handler' = [handler EXCEPT ![h] = c]
      BY <1>9, <2>3 DEF Report, Leave, Goto
    <3>2. Present(q)
      BY <1>9 DEF Report, Mark, ReportSteps, MarkedDone, MarkedRetry, MarkedFailed,
                  MarkedWaitingForCredits, Row, Present
    <3>3. pc \in {"free", "failWork"}
      BY <1>3, <1>9 DEF StepAfterMark
    <3>4. "failWork" \notin TranscribeSteps
      BY DEF TranscribeSteps
    <3>5. rows'[Analyze] = q /\ rows'[Transcribe] = rows[Transcribe] /\ Present(rows[Analyze])
      BY <1>3, <1>9, <2>3, <3>1 DEF TypeOK, JobTypes, Finds
    <3>6. Stands(c, call', transcription', rows') /\ ~Transcribes(c)
      BY <1>5, <3>2, <3>3, <3>4, <3>5, FreeStands
    <3> HIDE DEF c, q, pc
    <3>7. StepKeeps
      BY <2>1, <3>2, <3>5 DEF StepKeeps, Kept, Texted
    <3>8. Consistent(call', transcription', rows')
      BY <1>2, <2>1, <3>2, <3>5 DEF Consistent, Texted, Onward
    <3> QED
      BY <1>4, <2>1, <3>1, <3>5, <3>6, <3>7, <3>8, OtherSteps
  <2> QED
    BY <2>2, <2>3
<1> QED
  BY <1>6, <1>7, <1>8, <1>9

(* Nobody is on the way to take the call away, and no step sets out to. *)
LEMMA StaysAlone ==
  ASSUME Undisturbed, TypeOK, LeftAlone, [Next]_vars
  PROVE  LeftAlone'
<1> DEFINE Away == {"list", "release", "restart", "delete"}
<1>1. user \in [Users -> UserStates]
  BY DEF TypeOK
<1>2. \A pc, seen, only : UserAt(pc, seen, only).pc = pc
  BY DEF UserAt
<1>3. \A status : WithStatus(status).status = status
                  /\ WithStatus(status).deleted = call.deleted
  BY DEF WithStatus, Call
<1>4. ASSUME NEW u \in Users, NEW p, user' = [user EXCEPT ![u] = p], p.pc \notin Away
      PROVE  \A v \in Users : user'[v].pc \notin Away
  <2>1. user'[u] = p /\ \A v \in Users \ {u} : user'[v] = user[v]
    BY <1>1, <1>4
  <2> QED
    BY <1>4, <2>1 DEF LeftAlone
<1>5. ASSUME NEW h \in Handlers,
             (\E j \in JobTypes : Take(h, j)) \/ HandlerStep(h) \/ Stumble(h) \/ Vanish(h)
      PROVE  LeftAlone'
  <2>1. user' = user
    BY <1>5 DEF Take, HandlerStep, TranscribeStep, TranscribeRead, Start, CreateTranscription,
       Reserve, MarkProviderRunning, ProviderAnswers, Settle, Persist, EnqueueAnalysis,
       AnalyzeStep, AnalyzeRead, CheckAnalysis, CheckTranscription, CreatePendingAnalysis,
       MarkAnalysisProcessing, RunModel, SaveAnalysis, MarkAnalyzed, EndStep, Report,
       MarkAwaiting, FailWork, FailCall, Stumble, Vanish
  <2>2. \/ call' = call
        \/ \E status \in {"processing", "transcribed", "analyzed", "awaiting_credits", "failed"} :
             call' = WithStatus(status)
    BY <1>5 DEF Take, HandlerStep, TranscribeStep, TranscribeRead, Start, CreateTranscription,
       Reserve, MarkProviderRunning, ProviderAnswers, Settle, Persist, EnqueueAnalysis,
       AnalyzeStep, AnalyzeRead, CheckAnalysis, CheckTranscription, CreatePendingAnalysis,
       MarkAnalysisProcessing, RunModel, SaveAnalysis, MarkAnalyzed, EndStep, Report,
       MarkAwaiting, FailWork, FailCall, Stumble, Vanish, work
  <2>3. ~call'.deleted /\ call'.status # "cancelled"
    BY <1>3, <2>2 DEF LeftAlone
  <2> QED
    BY <2>1, <2>3 DEF LeftAlone
<1>6. ASSUME NEW u \in Users, BeginRequest(u)
      PROVE  LeftAlone'
  <2>1. AnalyzeRequested(u) \/ RestartRead(u)
    BY <1>6 DEF BeginRequest, Undisturbed, LeftAlone, Cancel, DeleteRead, Restore, Begins
  <2>2. call' = call
    BY <2>1 DEF AnalyzeRequested, RestartRead, work
  <2>3. \/ user' = [user EXCEPT ![u] = UserAt("pending", call.status, FALSE)]
        \/ \E only \in BOOLEAN : user' = [user EXCEPT ![u] = UserAt("switch", call.status, only)]
    BY <2>1 DEF AnalyzeRequested, RestartRead, LeftAlone
  <2>4. \A v \in Users : user'[v].pc \notin Away
    <3>1. CASE user' = [user EXCEPT ![u] = UserAt("pending", call.status, FALSE)]
      <4>1. UserAt("pending", call.status, FALSE).pc \notin Away
        BY DEF UserAt
      <4> QED
        BY <1>4, <3>1, <4>1
    <3>2. ASSUME NEW only \in BOOLEAN,
                 user' = [user EXCEPT ![u] = UserAt("switch", call.status, only)]
          PROVE  \A v \in Users : user'[v].pc \notin Away
      <4>1. UserAt("switch", call.status, only).pc \notin Away
        BY <1>2
      <4> QED
        BY <1>4, <3>2, <4>1
    <3> QED
      BY <2>3, <3>1, <3>2
  <2> QED
    BY <2>2, <2>4 DEF LeftAlone
<1>7. ASSUME NEW u \in Users, ContinueRequest(u) \/ RequestFails(u)
      PROVE  LeftAlone'
  <2>1. \/ Switch(u) \/ ResetAnalysis(u) \/ EnqueueByHand(u) \/ RecoverStatus(u)
        \/ RequestFails(u)
    BY <1>7 DEF ContinueRequest, LeftAlone, ListReservations, ReleaseReservation, Restart,
                SoftDelete
  <2>2. \/ call' = call
        \/ call' = WithStatus("transcribed") \/ call' = Call("transcribed", TRUE, FALSE)
    BY <2>1 DEF Switch, ResetAnalysis, EnqueueByHand, RecoverStatus, RequestFails, work
  <2>3. ~call'.deleted /\ call'.status # "cancelled"
    BY <1>3, <2>2 DEF LeftAlone, Call
  <2>4. Idle.pc = "idle"
    BY DEF Idle, UserAt
  <2>5. Done(u) \/ Then(u, "enqueue") \/ Then(u, "recover")
    BY <2>1 DEF Switch, ResetAnalysis, EnqueueByHand, RecoverStatus, RequestFails
  <2>6. \A v \in Users : user'[v].pc \notin Away
    BY <1>2, <1>4, <2>4, <2>5 DEF Then, Done
  <2> QED
    BY <2>3, <2>6 DEF LeftAlone
<1>8. ASSUME \/ \E j \in JobTypes : GoStale(j) \/ Ripen(j)
             \/ Reconcile \/ TopUp \/ Drain \/ UNCHANGED vars
      PROVE  LeftAlone'
  BY <1>8 DEF LeftAlone, GoStale, Ripen, Reconcile, TopUp, Drain, vars, work
<1> QED
  BY <1>5, <1>6, <1>7, <1>8 DEF Next

(* A request asks for an analysis of a text, or asks for none. *)
LEMMA PeopleAsk ==
  ASSUME Undisturbed, TypeOK, TextInv, LeftAlone, NEW u \in Users,
         BeginRequest(u) \/ ContinueRequest(u) \/ RequestFails(u)
  PROVE  TextInv'
<1>1. user \in [Users -> UserStates]
  BY DEF TypeOK
<1>2. Asks(user[u], call, transcription, rows) /\ Consistent(call, transcription, rows)
  BY DEF TextInv
<1>3. \/ AnalyzeRequested(u) \/ RestartRead(u) \/ Switch(u) \/ ResetAnalysis(u)
      \/ EnqueueByHand(u) \/ RecoverStatus(u) \/ RequestFails(u)
  <2>1. ~(Cancel(u) \/ DeleteRead(u) \/ Restore(u))
    BY DEF Undisturbed, LeftAlone, Cancel, DeleteRead, Restore, Begins
  <2>2. ~(\/ ListReservations(u) \/ ReleaseReservation(u) \/ Restart(u)
          \/ SoftDelete(u))
    BY DEF LeftAlone, ListReservations, ReleaseReservation, Restart, SoftDelete
  <2> QED
    BY <2>1, <2>2 DEF BeginRequest, ContinueRequest
<1>4. handler' = handler
  BY <1>3 DEF AnalyzeRequested, RestartRead, Switch, ResetAnalysis, EnqueueByHand,
              RecoverStatus, RequestFails
<1>5. \A k, t, r : Asks(Idle, k, t, r)
  BY DEF Asks, Idle, UserAt
<1>6. \A pc, seen, only : UserAt(pc, seen, only).pc = pc
  BY DEF UserAt
<1>7. ASSUME NEW p, user' = [user EXCEPT ![u] = p], StepKeeps,
             Asks(p, call', transcription', rows')
      PROVE  \A v \in Users : Asks(user'[v], call', transcription', rows')
  <2>1. user'[u] = p /\ \A v \in Users \ {u} : user'[v] = user[v]
    BY <1>1, <1>7
  <2>2. \A v \in Users : Asks(user[v], call', transcription', rows')
    BY <1>7, KeptStands DEF StepKeeps, TextInv
  <2> QED
    BY <1>7, <2>1, <2>2
<1>8. CASE AnalyzeRequested(u) \/ ResetAnalysis(u) \/ RequestFails(u)
  <2> DEFINE p == IF AnalyzeRequested(u) THEN UserAt("pending", call.status, FALSE)
                  ELSE IF ResetAnalysis(u) THEN UserAt("enqueue", user[u].seen, user[u].only)
                  ELSE Idle
  <2>1. UNCHANGED Tables /\ user' = [user EXCEPT ![u] = p]
    BY <1>8 DEF AnalyzeRequested, ResetAnalysis, RequestFails, Then, Done, Tables, work
  <2>2. Asks(p, call, transcription, rows)
    <3>1. CASE AnalyzeRequested(u)
      <4>1. ~IsBusy(call) /\ Texted(transcription, rows)
        BY <1>2, <3>1 DEF AnalyzeRequested, Consistent, Texted
      <4>2. p.pc = "pending"
        BY <1>6, <3>1
      <4> HIDE DEF p
      <4> QED
        BY <4>1, <4>2 DEF Asks
    <3>2. CASE ResetAnalysis(u) /\ ~AnalyzeRequested(u)
      <4>1. ~IsBusy(call) /\ Texted(transcription, rows)
        BY <1>2, <3>2 DEF ResetAnalysis, Asks
      <4>2. p.pc = "enqueue"
        BY <1>6, <3>2
      <4> HIDE DEF p
      <4> QED
        BY <4>1, <4>2 DEF Asks
    <3>3. CASE ~ResetAnalysis(u) /\ ~AnalyzeRequested(u)
      BY <1>5, <3>3
    <3> QED
      BY <3>1, <3>2, <3>3
  <2> HIDE DEF p
  <2>3. \A v \in Users : Asks(user'[v], call', transcription', rows')
    BY <1>7, <2>1, <2>2, TablesStay DEF Tables
  <2> QED
    BY <1>4, <2>1, <2>3, TablesStay, OtherSteps
<1>9. CASE EnqueueByHand(u)
  <2> DEFINE p == IF user[u].seen = "failed" THEN UserAt("recover", user[u].seen, user[u].only)
                  ELSE Idle
  <2>1. call' = call /\ transcription' = transcription /\ user' = [user EXCEPT ![u] = p]
    BY <1>9 DEF EnqueueByHand, Then, Done
  <2>2. rows'[Transcribe] = rows[Transcribe] /\ Present(rows'[Analyze])
    BY <1>9 DEF EnqueueByHand, AnalysisEnqueued, Enqueued, Inserted, Row, Present, TypeOK,
                JobTypes, Transcribe, Analyze
  <2>3. ~IsBusy(call) /\ Texted(transcription, rows)
    BY <1>2, <1>9 DEF EnqueueByHand, Asks
  <2>4. Asks(p, call', transcription', rows')
    BY <1>5, <1>6, <2>1, <2>2, <2>3 DEF Asks, Texted
  <2> HIDE DEF p
  <2>5. StepKeeps
    BY <2>1, <2>2 DEF StepKeeps, Kept, Texted
  <2>6. Consistent(call', transcription', rows')
    BY <1>2, <2>1, <2>2, <2>3 DEF Consistent, Texted, Onward
  <2>7. \A v \in Users : Asks(user'[v], call', transcription', rows')
    BY <1>7, <2>1, <2>4, <2>5
  <2> QED
    BY <1>4, <2>1, <2>2, <2>5, <2>6, <2>7, OtherSteps
<1>10. CASE RecoverStatus(u)
  <2>1. transcription' = transcription /\ rows' = rows /\ user' = [user EXCEPT ![u] = Idle]
    BY <1>10 DEF RecoverStatus, Done
  <2>2. call'.status = "transcribed" /\ call'.only = call.only /\ ~IsBusy(call')
    BY <1>10 DEF RecoverStatus, WithStatus, Call, IsBusy, BusyStatus
  <2>3. ~IsBusy(call) /\ Texted(transcription, rows)
    BY <1>2, <1>10 DEF RecoverStatus, Asks
  <2>4. StepKeeps
    BY <2>1, <2>2 DEF StepKeeps, Kept
  <2>5. Consistent(call', transcription', rows')
    BY <1>2, <2>1, <2>2, <2>3 DEF Consistent, Onward
  <2>6. \A v \in Users : Asks(user'[v], call', transcription', rows')
    BY <1>5, <1>7, <2>1, <2>4
  <2> QED
    BY <1>4, <2>1, <2>3, <2>4, <2>5, <2>6, OtherSteps
<1>11. CASE RestartRead(u)
  <2>1. PICK only \in BOOLEAN :
          user' = [user EXCEPT ![u] = UserAt("switch", call.status, only)]
    BY <1>11 DEF RestartRead, LeftAlone
  <2> DEFINE p == UserAt("switch", call.status, only)
  <2>2. UNCHANGED Tables /\ transcription = "transcribed"
    BY <1>11 DEF RestartRead, LeftAlone, Tables, work
  <2>3. ~IsBusy(call) /\ Texted(transcription, rows)
    BY <1>2, <2>2 DEF Consistent, Texted
  <2>4. p.pc = "switch" /\ user' = [user EXCEPT ![u] = p]
    BY <1>6, <2>1
  <2> HIDE DEF p
  <2>5. Asks(p, call, transcription, rows)
    BY <2>3, <2>4 DEF Asks
  <2>6. \A v \in Users : Asks(user'[v], call', transcription', rows')
    BY <1>7, <2>2, <2>4, <2>5, TablesStay DEF Tables
  <2> QED
    BY <1>4, <2>2, <2>6, TablesStay, OtherSteps
<1>12. CASE Switch(u)
  <2>1. transcription' = transcription /\ rows' = rows /\ user' = [user EXCEPT ![u] = Idle]
    BY <1>12 DEF Switch, Done
  <2>2. ~IsBusy(call)
    BY <1>2, <1>12 DEF Switch, Asks
  <2>3. \/ call' = call
        \/ /\ call'.status = "transcribed" /\ call'.only /\ ~IsBusy(call')
           /\ transcription = "transcribed"
    BY <1>12 DEF Switch, Call, IsBusy, BusyStatus
  <2>4. StepKeeps
    BY <2>1, <2>2, <2>3 DEF StepKeeps, Kept
  <2>5. Consistent(call', transcription', rows')
    BY <1>2, <2>1, <2>2, <2>3 DEF Consistent, Onward, Texted
  <2>6. \A v \in Users : Asks(user'[v], call', transcription', rows')
    BY <1>5, <1>7, <2>1, <2>4
  <2> QED
    BY <1>4, <2>1, <2>2, <2>4, <2>5, <2>6, OtherSteps
<1> QED
  BY <1>3, <1>8, <1>9, <1>10, <1>11, <1>12

(* TextInv is an invariant of a pipeline nobody disturbs. *)
LEMMA TextsFit == Undisturbed /\ Spec => []TextInv
<1> SUFFICES ASSUME Undisturbed PROVE Spec => []TextInv
  OBVIOUS
<1>1. Init => TextInv
  <2> SUFFICES ASSUME Init PROVE TextInv
    OBVIOUS
  <2>1. rows[Transcribe].status = "pending" /\ ~Present(rows[Analyze])
    BY DEF Init, Inserted, NoRow, Row, Present, JobTypes, Transcribe, Analyze
  <2>2. call.status = "new" /\ transcription = "none"
    BY DEF Init, Call
  <2>3. Consistent(call, transcription, rows)
    BY <2>1, <2>2 DEF Consistent
  <2>4. \A h \in Handlers : handler[h] = Free
    BY DEF Init
  <2>5. \A u \in Users : Asks(user[u], call, transcription, rows)
    BY DEF Init, Idle, UserAt, Asks
  <2> QED
    BY <2>3, <2>4, <2>5, FreeStands DEF TextInv, OneHolder
<1>2. TypeOK /\ LeftAlone /\ TextInv /\ [Next]_vars => TextInv'
  <2> SUFFICES ASSUME TypeOK, LeftAlone, TextInv, [Next]_vars PROVE TextInv'
    OBVIOUS
  <2>1. ASSUME NEW h \in Handlers, NEW j \in JobTypes, Take(h, j)
        PROVE  TextInv'
    BY <2>1, TakesTranscription, AnalyzerWrites DEF JobTypes
  <2>2. ASSUME NEW h \in Handlers, TranscribeStep(h)
        PROVE  TextInv'
    BY <2>2, ReadsOn, HolderWrites, QuietSteps DEF TranscribeStep
  <2>3. ASSUME NEW h \in Handlers, AnalyzeStep(h)
        PROVE  TextInv'
    BY <2>3, AnalyzerWrites, QuietSteps DEF AnalyzeStep
  <2>4. ASSUME NEW h \in Handlers, EndStep(h)
        PROVE  TextInv'
    <3>1. handler[h].job \in {Transcribe, Analyze}
      BY Positions
    <3>2. MarkAwaiting(h) => handler[h].job = Transcribe
      <4>1. "awaiting" \in TranscribeSteps
        BY DEF TranscribeSteps
      <4> QED
        BY <4>1, Positions DEF MarkAwaiting, At, Transcribes
    <3> QED
      BY <2>4, <3>1, <3>2, HolderReports, HolderEnds, AnalyzerWrites DEF EndStep
  <2>5. ASSUME NEW h \in Handlers, Stumble(h) \/ Vanish(h)
        PROVE  TextInv'
    BY <2>5, QuietSteps
  <2>6. ASSUME NEW u \in Users, BeginRequest(u) \/ ContinueRequest(u) \/ RequestFails(u)
        PROVE  TextInv'
    BY <2>6, PeopleAsk
  <2>7. ASSUME NEW j \in JobTypes, GoStale(j) \/ Ripen(j)
        PROVE  TextInv'
    BY <2>7, ClocksTick
  <2>8. CASE Reconcile \/ TopUp \/ Drain \/ UNCHANGED vars
    <3>1. UNCHANGED Tables /\ handler' = handler /\ user' = user
      BY <2>8 DEF Reconcile, TopUp, Drain, vars, work, Tables
    <3> QED
      BY <3>1, TablesStay, OtherSteps
  <2> QED
    BY <2>1, <2>2, <2>3, <2>4, <2>5, <2>6, <2>7, <2>8 DEF Next, HandlerStep
<1>3. Init => LeftAlone
  BY DEF Init, LeftAlone, Call, Idle, UserAt
<1>4. TypeOK /\ LeftAlone /\ [Next]_vars => LeftAlone'
  BY StaysAlone
<1> QED
  BY <1>1, <1>2, <1>3, <1>4, TypeCorrect, PTL DEF Spec

(* As long as nobody cancels or bins the call, it is never left busy with a *)
(* job that is done or gone, at whatever statement a handler was lost.      *)
THEOREM BusyCallsAreServed == Undisturbed /\ Spec => []BusyCallHasJob
<1>1. TextInv => BusyCallHasJob
  BY DEF TextInv, Consistent, IsBusy, BusyCallHasJob
<1> QED
  BY <1>1, TextsFit, PTL

(* ... no transcription is done before the analysis it leads to is queued, *)
(* be the queueing the handler's or a person's.                            *)
THEOREM AnalysesAreQueued == Undisturbed /\ Spec => []AnalysisIsQueued
<1>1. TextInv => AnalysisIsQueued
  BY DEF TextInv, Consistent, Onward, AnalysisIsQueued
<1> QED
  BY <1>1, TextsFit, PTL

(* ... and no call is shown as transcribed or analyzed without its text,   *)
(* unless the transcription failed for good and took it along.             *)
THEOREM TextsAreShown == Undisturbed /\ Spec => []ShownTextExists
<1>1. TextInv => ShownTextExists
  BY DEF TextInv, Consistent, Texted, ShownTextExists
<1> QED
  BY <1>1, TextsFit, PTL
=============================================================================

----------------------------- MODULE ActionSync -----------------------------
(***************************************************************************)
(* A task in Bitrix24 for an action: service/bitrix24.  Somebody asks for  *)
(* it, somebody else approves, a worker creates it.  The portal cannot be  *)
(* asked twice for the same task: a creation whose outcome is unknown      *)
(* waits for a person, who tries again, gives up or says which task it is. *)
(* A task that was created is compared with its action now and then.       *)
(*                                                                         *)
(* Every worker is a replica; its statements look at the state of the row, *)
(* those of people at its lock_version, and neither holds anything while   *)
(* the portal is asked.  The row of one action and one connection at a     *)
(* time is open; whether the action, its assignee or the connection has    *)
(* changed is found out by asking, with either answer.                     *)
(***************************************************************************)
EXTENDS Naturals, FiniteSets

CONSTANTS
  SyncWorkers,      \* replicas
  Deciders,         \* people who confirm a task or restore one
  MaxSyncs,         \* rows of one action and connection (bound)
  MaxCreates,       \* max_attempts (5 in the code)
  MaxRetries        \* decisions to create a task again, per row (bound)

ASSUME ActionSyncAssumption ==
  /\ IsFiniteSet(SyncWorkers)
  /\ MaxSyncs \in Nat \ {0} /\ MaxCreates \in Nat \ {0} /\ MaxRetries \in Nat

VARIABLES
  sync,             \* rows of call_action_external_syncs
  retries,          \* times a person said to create it again, per row
  tasks,            \* tasks in the portal with the marker of each row
  syncWorker,       \* what each worker has in hand
  decider,          \* what each person waits for
  unmoved           \* people whose row still has the lock_version they made

syncVars == <<sync, retries, tasks, syncWorker, decider, unmoved>>

Syncs == 1 .. MaxSyncs
Closed == {"none", "rejected", "cancelled", "unlinked"}
SyncState == Closed \cup {"pending_approval", "queued", "sending", "reconciling",
                          "needs_review", "synced", "failed"}
(* Tasks are numbered per row; 0 is none. *)
TaskNumber == 0 .. (MaxCreates + MaxRetries)
Codes == {"none", "doubtful", "other"}
SyncRow == [state : SyncState, attempts : TaskNumber, leased : BOOLEAN, code : Codes,
            task : TaskNumber, review : BOOLEAN]
NoSync == [state |-> "none", attempts |-> 0, leased |-> FALSE, code |-> "none",
           task |-> 0, review |-> FALSE]
Answers == {"none", "task", "doubtful", "refused"}
NoWork == [pc |-> "idle", row |-> 1, answer |-> "none", task |-> 0]

ActionSyncTypeOK ==
  /\ sync \in [Syncs -> SyncRow]
  /\ retries \in [Syncs -> 0 .. MaxRetries]
  /\ tasks \in [Syncs -> TaskNumber]
  /\ \A w \in SyncWorkers :
       /\ syncWorker[w].pc \in {"idle", "prepare", "create", "save", "compare"}
       /\ syncWorker[w].row \in Syncs /\ syncWorker[w].answer \in Answers
       /\ syncWorker[w].task \in TaskNumber
  /\ decider \in [Deciders -> [pc : {"idle", "confirm", "restore"}, row : Syncs]]
  /\ unmoved \subseteq Deciders

ActionSyncInit ==
  /\ sync = [i \in Syncs |-> NoSync]
  /\ retries = [i \in Syncs |-> 0] /\ tasks = [i \in Syncs |-> 0]
  /\ syncWorker = [w \in SyncWorkers |-> NoWork]
  /\ decider = [d \in Deciders |-> [pc |-> "idle", row |-> 1]]
  /\ unmoved = {}

-----------------------------------------------------------------------------
(* Helpers *)

In(i, state) == sync[i].state = state

(* A statement on a row; all of them but one count lock_version up. *)
WriteSync(i, row) ==
  /\ sync' = [sync EXCEPT ![i] = row]
  /\ unmoved' = {d \in unmoved : decider[d].row # i}
WriteNothing == UNCHANGED <<sync, unmoved>>

Move(i, state, code) ==
  WriteSync(i, [sync[i] EXCEPT !.state = state, !.code = code, !.leased = FALSE])

Hands(w, pc, i) ==
  syncWorker' = [syncWorker EXCEPT ![w] = [NoWork EXCEPT !.pc = pc, !.row = i]]
Heard(w, answer, t) ==
  syncWorker' = [syncWorker EXCEPT ![w].pc = "save", ![w].answer = answer, ![w].task = t]
HandsFree(w) == syncWorker' = [syncWorker EXCEPT ![w] = NoWork]

(* Mutant of StillSending: the statement is by the key alone. *)
StillSendingAlways(i) == TRUE

(* WHERE state='sending': whoever is sending it now. *)
StillSending(i) == In(i, "sending")

-----------------------------------------------------------------------------
(* Asking and approving *)

(* CreateActionSync: uq_action_external_create_task leaves one row open. *)
CreateActionSync(i) ==
  /\ In(i, "none")
  /\ \A j \in Syncs : sync[j].state \in Closed /\ (j < i => ~In(j, "none"))
  /\ WriteSync(i, [NoSync EXCEPT !.state = "pending_approval"])
  /\ UNCHANGED <<retries, tasks, syncWorker, decider>>

ApproveActionSync(i) ==
  /\ In(i, "pending_approval")
  /\ Move(i, "queued", "none")
  /\ UNCHANGED <<retries, tasks, syncWorker, decider>>

RejectActionSync(i) ==
  /\ In(i, "pending_approval")
  /\ Move(i, "rejected", "other")
  /\ UNCHANGED <<retries, tasks, syncWorker, decider>>

-----------------------------------------------------------------------------
(* The worker, processOneActionSync *)

ClaimActionSync(w, i) ==
  /\ syncWorker[w].pc = "idle" /\ In(i, "queued")
  /\ WriteSync(i, [sync[i] EXCEPT !.state = "sending", !.leased = TRUE, !.attempts = @ + 1])
  /\ Hands(w, "prepare", i)
  /\ UNCHANGED <<retries, tasks, decider>>

(* rescheduleActionSync: nothing was asked, it is tried again a while. *)
Rescheduled(i) == IF sync[i].attempts < MaxCreates THEN "queued" ELSE "failed"

(* The action is looked at and a token fetched. *)
PrepareActionSync(w) ==
  LET i == syncWorker[w].row IN
  /\ syncWorker[w].pc = "prepare"
  /\ \/ Hands(w, "create", i) /\ WriteNothing
     \/ /\ HandsFree(w)
        /\ \E next \in {"needs_review", Rescheduled(i)} :
             IF StillSending(i) THEN Move(i, next, "other") ELSE WriteNothing
  /\ UNCHANGED <<retries, tasks, decider>>

(* tasks.task.add: a task is there or not, whatever the answer says of it;   *)
(* no answer, or one without a task, is doubtful.                            *)
CreateTask(w) ==
  LET i == syncWorker[w].row IN
  /\ syncWorker[w].pc = "create"
  /\ \/ /\ tasks' = [tasks EXCEPT ![i] = @ + 1]
        /\ \/ Heard(w, "task", tasks[i] + 1)
           \/ \E answer \in {"doubtful", "refused"} : Heard(w, answer, 0)
     \/ \E answer \in {"doubtful", "refused"} : Heard(w, answer, 0) /\ UNCHANGED tasks
  /\ WriteNothing /\ UNCHANGED <<retries, decider>>

(* Mutant of AfterDoubt: a doubtful creation is tried again. *)
AfterDoubtAgain == "queued"

(* failActionSync and recoverActionSyncLeases wait instead of trying again. *)
AfterDoubt == "reconciling"

(* What the answer says is written to the row, if somebody sends it. *)
SaveOutcome(w) ==
  LET i == syncWorker[w].row
      answer == syncWorker[w].answer IN
  /\ syncWorker[w].pc = "save"
  /\ IF ~StillSending(i) THEN WriteNothing
     ELSE CASE answer = "doubtful" -> Move(i, AfterDoubt, "doubtful")
            [] answer = "refused"  -> Move(i, "failed", "other")
            [] answer = "task"     -> WriteSync(i, [sync[i] EXCEPT
                 !.state = "synced", !.task = syncWorker[w].task,
                 !.leased = FALSE, !.code = "none"])
  /\ HandsFree(w)
  /\ UNCHANGED <<retries, tasks, decider>>

(* The lease of a worker that is gone, or slow. *)
RecoverActionSyncLease(i) ==
  /\ In(i, "sending") /\ sync[i].leased
  /\ Move(i, AfterDoubt, "doubtful")
  /\ UNCHANGED <<retries, tasks, syncWorker, decider>>

EscalateAmbiguous(i) ==
  /\ In(i, "reconciling")
  /\ WriteSync(i, [sync[i] EXCEPT !.state = "needs_review"])
  /\ UNCHANGED <<retries, tasks, syncWorker, decider>>

LoseSyncWorker(w) ==
  /\ syncWorker[w].pc # "idle"
  /\ HandsFree(w)
  /\ WriteNothing /\ UNCHANGED <<retries, tasks, decider>>

-----------------------------------------------------------------------------
(* The comparison, reconcileOneSyncedActionTask; its lease, which it may     *)
(* outlive, keeps others away for a while and is left out.                   *)

TakeComparison(w, i) ==
  /\ syncWorker[w].pc = "idle" /\ In(i, "synced") /\ ~sync[i].review
  /\ Hands(w, "compare", i)
  /\ WriteNothing /\ UNCHANGED <<retries, tasks, decider>>

(* The task is as it was, could not be read, or differs: somebody decides. *)
SaveComparison(w) ==
  LET i == syncWorker[w].row IN
  /\ syncWorker[w].pc = "compare"
  /\ \E differs \in BOOLEAN :
       IF In(i, "synced") /\ ~sync[i].review
       THEN WriteSync(i, [sync[i] EXCEPT !.review = differs, !.leased = FALSE])
       ELSE WriteNothing
  /\ HandsFree(w)
  /\ UNCHANGED <<retries, tasks, decider>>

-----------------------------------------------------------------------------
(* Decisions, ResolveActionSync *)

Doubted(i) == In(i, "needs_review") /\ sync[i].task = 0
Differs(i) == In(i, "synced") /\ sync[i].review

RetryCreate(i) ==
  /\ Doubted(i) /\ sync[i].code = "doubtful"
  /\ retries[i] < MaxRetries /\ retries' = [retries EXCEPT ![i] = @ + 1]
  /\ WriteSync(i, [sync[i] EXCEPT !.state = "queued", !.code = "none"])
  /\ UNCHANGED <<tasks, syncWorker, decider>>

CancelActionSync(i) ==
  /\ Doubted(i)
  /\ WriteSync(i, [sync[i] EXCEPT !.state = "cancelled"])
  /\ UNCHANGED <<retries, tasks, syncWorker, decider>>

(* The action, which is not here, takes over what the task says.             *)
AcceptExternal(i) ==
  /\ Differs(i)
  /\ WriteSync(i, [sync[i] EXCEPT !.review = FALSE, !.leased = FALSE, !.code = "none"])
  /\ UNCHANGED <<retries, tasks, syncWorker, decider>>

UnlinkTask(i) ==
  /\ Differs(i)
  /\ WriteSync(i, [sync[i] EXCEPT !.state = "unlinked", !.task = 0, !.review = FALSE,
                                  !.leased = FALSE, !.code = "none"])
  /\ UNCHANGED <<retries, tasks, syncWorker, decider>>

(* confirm_task and restore_verbatrace: a lease, a new lock_version, and the *)
(* portal is asked after the commit.                                         *)
BeginDecision(d, i) ==
  /\ decider[d].pc = "idle" /\ (Doubted(i) \/ Differs(i))
  /\ sync' = [sync EXCEPT ![i].leased = TRUE]
  /\ decider' = [decider EXCEPT ![d] =
                   [pc |-> IF Doubted(i) THEN "confirm" ELSE "restore", row |-> i]]
  /\ unmoved' = {e \in unmoved : decider[e].row # i} \cup {d}
  /\ UNCHANGED <<retries, tasks, syncWorker>>

DecisionOver(d) ==
  /\ decider' = [decider EXCEPT ![d].pc = "idle"]
  /\ UNCHANGED <<retries, tasks, syncWorker>>

(* A task that carries the marker of the row is linked. *)
ConfirmTask(d) ==
  LET i == decider[d].row IN
  /\ decider[d].pc = "confirm"
  /\ \E t \in 1 .. tasks[i] :
       IF In(i, "needs_review") /\ d \in unmoved
       THEN WriteSync(i, [sync[i] EXCEPT !.state = "synced", !.task = t,
                                         !.leased = FALSE, !.code = "none"])
       ELSE sync' = sync /\ unmoved' = unmoved \ {d}
  /\ DecisionOver(d)

RestoreTask(d) ==
  LET i == decider[d].row IN
  /\ decider[d].pc = "restore"
  /\ IF In(i, "synced") /\ d \in unmoved
     THEN WriteSync(i, [sync[i] EXCEPT !.review = FALSE, !.leased = FALSE, !.code = "none"])
     ELSE sync' = sync /\ unmoved' = unmoved \ {d}
  /\ DecisionOver(d)

(* releaseResolutionLease: the portal was not reached or the task is not     *)
(* ours; the lease and the code are whosever they are by now.                *)
ReleaseResolutionLease(d) ==
  LET i == decider[d].row IN
  /\ decider[d].pc # "idle"
  /\ WriteSync(i, [sync[i] EXCEPT !.leased = FALSE, !.code = "other"])
  /\ DecisionOver(d)

(* The request ends without a word: cancelled, or its transaction failed.    *)
AbandonDecision(d) ==
  /\ decider[d].pc # "idle"
  /\ sync' = sync /\ unmoved' = unmoved \ {d}
  /\ DecisionOver(d)

-----------------------------------------------------------------------------
SyncWorkerStep(w) ==
  \/ \E i \in Syncs : ClaimActionSync(w, i) \/ TakeComparison(w, i)
  \/ PrepareActionSync(w) \/ CreateTask(w) \/ SaveOutcome(w) \/ SaveComparison(w)
  \/ LoseSyncWorker(w)

DecisionStep(d) ==
  \/ \E i \in Syncs : BeginDecision(d, i)
  \/ ConfirmTask(d) \/ RestoreTask(d) \/ ReleaseResolutionLease(d) \/ AbandonDecision(d)

ActionSyncNext ==
  \/ \E w \in SyncWorkers : SyncWorkerStep(w)
  \/ \E d \in Deciders : DecisionStep(d)
  \/ \E i \in Syncs :
       \/ CreateActionSync(i) \/ ApproveActionSync(i) \/ RejectActionSync(i)
       \/ RecoverActionSyncLease(i) \/ EscalateAmbiguous(i)
       \/ RetryCreate(i) \/ CancelActionSync(i) \/ AcceptExternal(i) \/ UnlinkTask(i)

ActionSyncSpec == ActionSyncInit /\ [][ActionSyncNext]_syncVars

-----------------------------------------------------------------------------
(* Properties *)

(* The portal has a task for the approval and one more for every decision to *)
(* create it again, and never another: a lost worker, an answer that was not *)
(* understood, an expired lease, a second replica make none                  *)
(* (action_sync.go:325-344, 352, 363-367; action_reconciliation.go:149-153).          *)
TaskPerDecision == \A i \in Syncs : tasks[i] <= 1 + retries[i]

(* A task that is linked stays the linked one until a person unlinks it: a   *)
(* worker that comes late, or a confirmation that was overtaken, never puts  *)
(* another in its place (action_sync.go:347, action_reconciliation.go:241).  *)
TaskLinkKept ==
  [][\A i \in Syncs : sync[i].task # 0 =>
       sync'[i].task = sync[i].task \/ sync'[i].state = "unlinked"]_syncVars
=============================================================================

----------------------------- MODULE CallActions -----------------------------
(***************************************************************************)
(* An action of a company: service/action.  People start, finish, cancel,  *)
(* move and hand it over; the overdue worker and the worker of invalid     *)
(* assignments change it on their own.                                     *)
(*                                                                         *)
(* A request reads the action and what its sender may do with it, looks    *)
(* whether the call is in the bin, and only then opens the transaction     *)
(* that writes, guarded by lock_version: the statement holds if the row is *)
(* the one that was read.  "asRead" are the readers of whom that is so.     *)
(* Time is what the statements ask of it: late is grace_expires_at in the  *)
(* past; undo is kept for the hour in which a status can be taken back.    *)
(* Accepting a task of Bitrix24, which rewrites the action by the word of  *)
(* a person (action_reconciliation.go:287), is not among the writers here. *)
(***************************************************************************)
EXTENDS Naturals, FiniteSets

CONSTANTS
  Writers,         \* requests in flight
  AssignWorkers,    \* replicas of the worker of invalid assignments
  Staff,            \* people of the company
  Department,       \* those of them who are members of the department
  Leaders,          \* its leaders
  Deputies,         \* deputies of the company
  Owners            \* its owner

ASSUME CallActionsAssumption ==
  /\ Department \subseteq Staff /\ Leaders \subseteq Department /\ Deputies \cup Owners \subseteq Staff
  /\ Writers \cap AssignWorkers = {}

VARIABLES
  action,           \* row of call_actions
  undo,             \* what the last start, completion or cancellation replaced
  transfer,         \* the pending row of call_action_transfer_requests
  callBinned,       \* the call is in the bin
  staff,            \* active members of the company
  request,          \* what each request is about to write
  moving,           \* what each assignment worker is about to write
  asRead             \* those whose row has the lock_version they read

actionVars == <<action, undo, transfer, callBinned, staff, request, moving, asRead>>

NoOne == "nobody"
Closing == {"completed", "cancelled"}
ActionStatus == Closing \cup {"open", "in_progress", "overdue"}
Operations == {"start", "complete", "cancel", "reschedule", "reassign", "revert", "approve"}

CallActionsTypeOK ==
  /\ action \in [status : ActionStatus, assignee : Staff, valid : BOOLEAN, late : BOOLEAN]
  /\ undo \in ActionStatus \cup {"none"}
  /\ transfer \in Staff \cup {NoOne}
  /\ callBinned \in BOOLEAN /\ staff \subseteq Staff
  /\ request \in [Writers -> Operations \cup {"none"}]
  /\ moving \in [AssignWorkers -> Staff \cup {NoOne}]
  /\ asRead \subseteq Writers \cup AssignWorkers

CallActionsInit ==
  /\ staff = Staff
  /\ \E p \in Department :
       action = [status |-> "open", assignee |-> p, valid |-> TRUE, late |-> FALSE]
  /\ undo = "none"
  /\ transfer = NoOne /\ callBinned = FALSE
  /\ request = [r \in Writers |-> "none"]
  /\ moving = [w \in AssignWorkers |-> NoOne]
  /\ asRead = {}

-----------------------------------------------------------------------------
(* Helpers *)

IsClosed == action.status \in Closing
Revertible == undo # "none"

(* Every statement on the row counts lock_version up. *)
WriteAction(row) == action' = row /\ asRead' = {}

(* validAssignment *)
Assignable(p) == p \in Department \cap staff

(* access: what the status allows; who asks is abstracted to someone who may. *)
Allowed(op) ==
  CASE op = "revert" -> Revertible
    [] op = "approve" -> ~IsClosed /\ transfer # NoOne
    [] OTHER -> ~IsClosed

(* insertEvent of a change of status keeps the status it replaces. *)
Remember == undo' = action.status

(* Mutant of SeenRow: the statement has no lock_version. *)
SeenRowAny(reader) == TRUE

(* AND lock_version=$n *)
SeenRow(reader) == reader \in asRead

-----------------------------------------------------------------------------
(* Writers *)

ReadAction(r, op) ==
  /\ request[r] = "none" /\ Allowed(op) /\ ~callBinned
  /\ request' = [request EXCEPT ![r] = op]
  /\ asRead' = asRead \cup {r}
  /\ UNCHANGED <<action, undo, transfer, callBinned, staff, moving>>

Answer(r) ==
  /\ request' = [request EXCEPT ![r] = "none"]
  /\ UNCHANGED <<callBinned, staff, moving>>

Asks(r, op) == request[r] = op /\ SeenRow(r)

(* ErrConflict, ErrInvalidInput or a request that is gone. *)
Refused(r) ==
  /\ request[r] # "none" /\ Answer(r)
  /\ asRead' = asRead \ {r} /\ UNCHANGED <<action, undo, transfer>>

StartAction(r) ==
  /\ Asks(r, "start") /\ action.status \in {"open", "overdue"}
  /\ WriteAction([action EXCEPT !.status = "in_progress"])
  /\ Remember /\ Answer(r) /\ UNCHANGED transfer

(* A transfer that is pending stays so. *)
CompleteAction(r) ==
  /\ Asks(r, "complete") /\ ~IsClosed
  /\ WriteAction([action EXCEPT !.status = "completed"])
  /\ Remember /\ Answer(r) /\ UNCHANGED transfer

CancelAction(r) ==
  /\ Asks(r, "cancel") /\ ~IsClosed
  /\ WriteAction([action EXCEPT !.status = "cancelled"])
  /\ transfer' = NoOne
  /\ Remember /\ Answer(r)

Reschedule(r) ==
  /\ Asks(r, "reschedule") /\ ~IsClosed
  /\ WriteAction([action EXCEPT !.late = FALSE,
                    !.status = IF @ = "overdue" THEN "open" ELSE @])
  /\ Answer(r) /\ UNCHANGED <<undo, transfer>>

Reassign(r) ==
  /\ Asks(r, "reassign") /\ ~IsClosed
  /\ \E p \in Staff :
       Assignable(p) /\ WriteAction([action EXCEPT !.assignee = p, !.valid = TRUE])
  /\ transfer' = NoOne
  /\ Answer(r) /\ UNCHANGED undo

(* The event is read in the transaction, the status it replaced comes back. *)
RevertStatus(r) ==
  /\ Asks(r, "revert") /\ Revertible
  /\ WriteAction([action EXCEPT !.status = undo])
  /\ Answer(r) /\ UNCHANGED <<undo, transfer>>

(* ResolveTransfer: the assignment stays invalid if it was. *)
ApproveTransfer(r) ==
  /\ Asks(r, "approve") /\ ~IsClosed /\ transfer # NoOne /\ Assignable(transfer)
  /\ WriteAction([action EXCEPT !.assignee = transfer])
  /\ transfer' = NoOne
  /\ Answer(r) /\ UNCHANGED undo

(* A rejection needs no lock_version and writes the request's row only.      *)
RejectTransfer ==
  /\ transfer # NoOne /\ ~IsClosed /\ ~callBinned /\ transfer' = NoOne
  /\ UNCHANGED <<action, undo, callBinned, staff, request, moving, asRead>>

(* CreateTransfer; one may be pending (uq_call_action_transfer_pending).     *)
CreateTransfer ==
  /\ transfer = NoOne /\ ~IsClosed /\ ~callBinned
  /\ \E p \in Staff : Assignable(p) /\ transfer' = p
  /\ UNCHANGED <<action, undo, callBinned, staff, request, moving, asRead>>

-----------------------------------------------------------------------------
(* Workers *)

(* OverdueWorker: one transaction, with a lock of the row. *)
FallOverdue ==
  /\ action.status \in {"open", "in_progress"} /\ action.valid /\ action.late /\ ~callBinned
  /\ WriteAction([action EXCEPT !.status = "overdue"])
  /\ UNCHANGED <<undo, transfer, callBinned, staff, request, moving>>

(* runInvalidAssignments reads a page and goes through it. *)
SelectInvalid(w) ==
  /\ moving[w] = NoOne
  /\ ~IsClosed /\ action.valid /\ ~callBinned /\ ~Assignable(action.assignee)
  /\ moving' = [moving EXCEPT ![w] = action.assignee]
  /\ asRead' = asRead \cup {w}
  /\ UNCHANGED <<action, undo, transfer, callBinned, staff, request>>

(* assignmentSuccessor: the leader, or a deputy, or the owner. *)
Successors(leaving) ==
  LET here(people) == (people \cap staff) \ {leaving} IN
  IF here(Leaders) # {} THEN here(Leaders)
  ELSE IF here(Deputies) # {} THEN here(Deputies)
  ELSE here(Owners)

MoveInvalid(w) ==
  LET next == Successors(moving[w]) IN
  /\ moving[w] # NoOne
  /\ IF ~SeenRow(w) \/ ~action.valid THEN UNCHANGED action /\ asRead' = asRead \ {w}
     ELSE IF next = {} THEN WriteAction([action EXCEPT !.valid = FALSE])
     ELSE \E p \in next : WriteAction([action EXCEPT !.assignee = p])
  /\ moving' = [moving EXCEPT ![w] = NoOne]
  /\ UNCHANGED <<undo, transfer, callBinned, staff, request>>

-----------------------------------------------------------------------------
(* Around it *)

GetsLate ==
  /\ ~action.late /\ action' = [action EXCEPT !.late = TRUE]
  /\ UNCHANGED <<undo, transfer, callBinned, staff, request, moving, asRead>>

HourPasses ==
  /\ Revertible /\ undo' = "none"
  /\ UNCHANGED <<action, transfer, callBinned, staff, request, moving, asRead>>

BinOrRestore ==
  /\ callBinned' = ~callBinned
  /\ UNCHANGED <<action, undo, transfer, staff, request, moving, asRead>>

LeaveCompany(p) ==
  /\ p \in staff \ Owners
  /\ staff' = staff \ {p}
  /\ UNCHANGED <<action, undo, transfer, callBinned, request, moving, asRead>>

-----------------------------------------------------------------------------
CallActionsNext ==
  \/ \E r \in Writers :
       \/ \E op \in Operations : ReadAction(r, op)
       \/ StartAction(r) \/ CompleteAction(r) \/ CancelAction(r) \/ Reschedule(r) \/ Reassign(r)
       \/ RevertStatus(r) \/ ApproveTransfer(r) \/ Refused(r)
  \/ RejectTransfer \/ CreateTransfer \/ FallOverdue
  \/ \E w \in AssignWorkers : SelectInvalid(w) \/ MoveInvalid(w)
  \/ GetsLate \/ HourPasses \/ BinOrRestore
  \/ \E p \in Staff : LeaveCompany(p)

CallActionsSpec == CallActionsInit /\ [][CallActionsNext]_actionVars

-----------------------------------------------------------------------------
(* Properties *)

(* An action that was completed or cancelled keeps its status and the person *)
(* who answers for it until somebody takes that back within the hour: no     *)
(* worker that had chosen it before, no request that had read it open, no    *)
(* transfer that was pending changes it; service/action only, not a task of  *)
(* Bitrix24 that somebody accepts                                            *)
(* (mutations.go:48-50, 144-155, 467; worker.go:178, 235, 253).              *)
ClosedKept ==
  [][IsClosed =>
       /\ action'.assignee = action.assignee
       /\ action'.status # action.status => Revertible /\ action'.status = undo]_actionVars
=============================================================================

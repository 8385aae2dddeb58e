---------------------------- MODULE CompanyProofs ----------------------------
(***************************************************************************)
(* What holds of a company's people for any number of companies, people,   *)
(* offers and invitations: its owner keeps the manager's seat; of an       *)
(* action they work on, for any number of requests and workers: once it is *)
(* closed it stays as it is; of the files of a call they delete, for any   *)
(* files and workers: none is forgotten; of the review of an analysis, for *)
(* any reviewers, analyses and mishaps: one verdict is in force, the       *)
(* second opinion is another's, and each is of the analysis its giver saw; *)
(* and of the sessions of a user, for any requests and tokens: a token is  *)
(* answered once, a role is the present one, and an end is final.          *)
(***************************************************************************)
EXTENDS Ownership, CallActions, Purge, QualityReview, Sessions, FiniteSetTheorems, TLAPS

(* A row of company_members; the role and the status are read from it. *)
LEMMA MembershipFields ==
  ASSUME NEW role, NEW status
  PROVE  /\ Membership(role, status).role = role
         /\ Membership(role, status).status = status
BY DEF Membership

(* The tables have their columns, which is all the other steps rest on. *)
TableShapes ==
  /\ owner \in [Companies -> People \cup {NoPerson}]
  /\ member \in [Companies -> [People -> Memberships]]
  /\ invitations \subseteq Invitation
  /\ offers \subseteq Offer
  /\ checked \subseteq Invitation \cup Offer

(* What a request may do to the members of one company keeps its manager. *)
LEMMA SeatKept ==
  ASSUME TableShapes, OwnerSeated,
         NEW c \in Companies, NEW p \in People, NEW m,
         SetMember(c, p, m), UNCHANGED owner,
         owner[c] = p => m = Membership("company_manager", "active")
  PROVE  OwnerSeated'
<1>1. SUFFICES ASSUME NEW d \in Companies, owner[d] # NoPerson
               PROVE  Manages(d, owner[d])'
  BY DEF OwnerSeated
<1>2. owner[d] \in People /\ Manages(d, owner[d])
  BY <1>1 DEF OwnerSeated, TableShapes
<1>3. member'[d] = IF d = c THEN [member[c] EXCEPT ![p] = m] ELSE member[d]
  BY DEF SetMember, TableShapes
<1>4. member'[d][owner[d]] = IF d = c /\ owner[d] = p THEN m ELSE member[d][owner[d]]
  BY <1>2, <1>3 DEF TableShapes
<1>5. CASE d = c /\ owner[d] = p
  <2>1. member'[d][owner[d]] = Membership("company_manager", "active")
    BY <1>4, <1>5
  <2>2. owner'[d] = owner[d]
    OBVIOUS
  <2> QED BY <2>1, <2>2, MembershipFields DEF Manages, Works
<1>6. CASE ~(d = c /\ owner[d] = p)
  BY <1>2, <1>4, <1>6 DEF Manages, Works
<1> QED BY <1>5, <1>6

(* Offers carry people: the recipient of one can be an owner. *)
LEMMA OfferFields ==
  ASSUME NEW o \in Offer
  PROVE  /\ o.from \in People /\ o.to \in People
         /\ o.of \in SUBSET Companies /\ o.stay \in SUBSET Companies
         /\ o.all \in BOOLEAN
BY DEF Offer

LEMMA InvitationFields ==
  ASSUME NEW i \in Invitation
  PROVE  /\ i.company \in Companies /\ i.person \in People
         /\ i.role \in MemberRole \ {"company_manager"}
BY DEF Invitation

LEMMA MembershipTyped ==
  ASSUME NEW role \in MemberRole, NEW status \in {"none", "active", "left"}
  PROVE  Membership(role, status) \in Memberships
BY DEF Membership, Memberships

LEMMA SetMemberTyped ==
  ASSUME TableShapes, NEW c \in Companies, NEW p \in People, NEW m \in Memberships,
         SetMember(c, p, m)
  PROVE  member' \in [Companies -> [People -> Memberships]]
BY DEF SetMember, TableShapes

(* Somebody who accepts an invitation, and owned the company, still does. *)
LEMMA RoleAfterTyped ==
  ASSUME TableShapes, NEW i \in Invitation
  PROVE  RoleAfter(i) \in MemberRole
<1>1. i.role \in MemberRole
  BY InvitationFields
<1> QED BY <1>1 DEF RoleAfter, MemberRole

(* The seats of a company that changes hands. *)
LEMMA HandedOverSeats ==
  ASSUME TableShapes, NEW c \in Companies, NEW o \in Offer
  PROVE  /\ HandedOver(c, o) \in [People -> Memberships]
         /\ HandedOver(c, o)[o.to] = Membership("company_manager", "active")
<1>1. o.to \in People
  BY OfferFields
<1>2. /\ Membership("company_manager", "active") \in Memberships
      /\ Membership("employee", "left") \in Memberships
      /\ Membership("employee", "active") \in Memberships
  BY MembershipTyped DEF MemberRole
<1>3. \A p \in People : member[c][p] \in Memberships
  BY DEF TableShapes
<1>4. HandedOver(c, o) \in [People -> Memberships]
  BY <1>2, <1>3 DEF HandedOver
<1>5. HandedOver(c, o)[o.to] = Membership("company_manager", "active")
  BY <1>1 DEF HandedOver
<1> QED BY <1>4, <1>5

SeatInv == TableShapes /\ OwnerSeated

LEMMA SeatInit == ASSUME OwnershipInit PROVE SeatInv
<1>1. Membership("employee", "none") \in Memberships
  BY MembershipTyped DEF MemberRole
<1>2. TableShapes
  BY <1>1 DEF OwnershipInit, TableShapes
<1>3. OwnerSeated
  BY DEF OwnershipInit, OwnerSeated
<1> QED BY <1>2, <1>3 DEF SeatInv

(* What leaves owners and members alone leaves the seats alone. *)
LEMMA SeatsUntouched ==
  ASSUME SeatInv, UNCHANGED <<owner, member>>,
         invitations' \subseteq Invitation, offers' \subseteq Offer,
         checked' \subseteq Invitation \cup Offer
  PROVE  SeatInv'
BY DEF SeatInv, TableShapes, OwnerSeated, Manages, Works

(* A request that sets one membership, and not that of an owner. *)
LEMMA SeatSet ==
  ASSUME SeatInv, UNCHANGED <<owner, offers, checked>>, invitations' \subseteq invitations,
         NEW c \in Companies, NEW p \in People, NEW m \in Memberships,
         SetMember(c, p, m),
         owner[c] = p => m = Membership("company_manager", "active")
  PROVE  SeatInv'
<1>1. OwnerSeated'
  BY SeatKept DEF SeatInv
<1>2. member' \in [Companies -> [People -> Memberships]]
  BY SetMemberTyped DEF SeatInv
<1>3. TableShapes'
  BY <1>2 DEF SeatInv, TableShapes
<1> QED BY <1>1, <1>3 DEF SeatInv

LEMMA SeatAccept ==
  ASSUME SeatInv, NEW i \in invitations, AcceptInvitation(i)
  PROVE  SeatInv'
<1>1. i \in Invitation
  BY DEF SeatInv, TableShapes
<1>2. i.company \in Companies /\ i.person \in People
  BY <1>1, InvitationFields
<1>3. Membership(RoleAfter(i), "active") \in Memberships
  BY <1>1, RoleAfterTyped, MembershipTyped DEF SeatInv
<1>4. ASSUME owner[i.company] = i.person
      PROVE  RoleAfter(i) = "company_manager"
  <2>1. i.person # NoPerson
    BY <1>2, OwnershipAssumption DEF NoPerson
  <2>2. member[i.company][i.person].role = "company_manager"
    BY <1>2, <1>4, <2>1 DEF SeatInv, OwnerSeated, Manages
  <2> QED BY <2>2 DEF RoleAfter
<1>5. SetMember(i.company, i.person, Membership(RoleAfter(i), "active"))
  BY DEF AcceptInvitation
<1>6. UNCHANGED <<owner, offers, checked>> /\ invitations' \subseteq invitations
  BY DEF AcceptInvitation
<1> QED BY <1>2, <1>3, <1>4, <1>5, <1>6, SeatSet

LEMMA SeatEnd ==
  ASSUME SeatInv, NEW c \in Companies, NEW p \in People, EndMembership(c, p)
  PROVE  SeatInv'
<1>1. owner[c] # p
  BY OwnershipAssumption DEF EndMembership, SeatInv, OwnerSeated, Manages, NoPerson
<1>2. Membership("employee", "left") \in Memberships
  BY MembershipTyped DEF MemberRole
<1>3. UNCHANGED <<owner, offers, checked>> /\ invitations' \subseteq invitations
  BY DEF EndMembership
<1>4. SetMember(c, p, Membership("employee", "left"))
  BY DEF EndMembership
<1> QED BY <1>1, <1>2, <1>3, <1>4, SeatSet

LEMMA SeatDeputy ==
  ASSUME SeatInv, NEW c \in Companies, NEW p \in People,
         AssignDeputy(c, p) \/ RevokeDeputy(c, p)
  PROVE  SeatInv'
<1>1. owner[c] # p
  BY OwnershipAssumption
     DEF AssignDeputy, RevokeDeputy, SeatInv, OwnerSeated, Manages, NoPerson
<1>2. PICK m \in Memberships : SetMember(c, p, m)
  BY MembershipTyped DEF AssignDeputy, RevokeDeputy, MemberRole
<1>3. UNCHANGED <<owner, offers, checked>> /\ invitations' \subseteq invitations
  BY DEF AssignDeputy, RevokeDeputy
<1> QED BY <1>1, <1>2, <1>3, SeatSet

LEMMA SeatCreate ==
  ASSUME SeatInv, NEW c \in Companies, NEW p \in People, CreateCompany(c, p)
  PROVE  SeatInv'
<1>1. Membership("company_manager", "active") \in Memberships
  BY MembershipTyped DEF MemberRole
<1>2. member' \in [Companies -> [People -> Memberships]]
  BY <1>1, SetMemberTyped DEF CreateCompany, SeatInv
<1>3. TableShapes'
  BY <1>2 DEF CreateCompany, SeatInv, TableShapes
<1>4. ASSUME NEW d \in Companies, owner'[d] # NoPerson
      PROVE  Manages(d, owner[d])'
  <2>1. CASE d = c
    <3>1. owner'[d] = p /\ member'[d][p] = Membership("company_manager", "active")
      BY <2>1 DEF CreateCompany, SetMember, SeatInv, TableShapes
    <3> QED BY <3>1, MembershipFields DEF Manages, Works
  <2>2. CASE d # c
    <3>1. owner'[d] = owner[d] /\ member'[d] = member[d]
      BY <2>2 DEF CreateCompany, SetMember, SeatInv, TableShapes
    <3> QED BY <1>4, <3>1 DEF SeatInv, OwnerSeated, Manages, Works
  <2> QED BY <2>1, <2>2
<1>5. OwnerSeated'
  BY <1>4 DEF OwnerSeated
<1> QED BY <1>3, <1>5 DEF SeatInv

LEMMA SeatHandOver ==
  ASSUME SeatInv, NEW o \in offers, AcceptOffer(o)
  PROVE  SeatInv'
<1> DEFINE cs == OwnershipCompanies(o)
<1>1. o \in Offer /\ o.to \in People
  BY OfferFields DEF SeatInv, TableShapes
<1>2. /\ owner' = [c \in Companies |-> IF c \in cs THEN o.to ELSE owner[c]]
      /\ member' = [c \in Companies |-> IF c \in cs THEN HandedOver(c, o) ELSE member[c]]
      /\ invitations' \subseteq invitations /\ offers' \subseteq offers /\ UNCHANGED checked
  BY DEF AcceptOffer
<1> HIDE DEF cs
<1>3. \A c \in Companies : /\ HandedOver(c, o) \in [People -> Memberships]
                           /\ HandedOver(c, o)[o.to] = Membership("company_manager", "active")
  BY <1>1, HandedOverSeats DEF SeatInv
<1>4. TableShapes'
  BY <1>1, <1>2, <1>3 DEF SeatInv, TableShapes
<1>5. ASSUME NEW d \in Companies, owner'[d] # NoPerson
      PROVE  Manages(d, owner[d])'
  <2>1. CASE d \in cs
    <3>1. owner'[d] = o.to /\ member'[d][o.to] = Membership("company_manager", "active")
      BY <1>2, <1>3, <2>1
    <3> QED BY <3>1, MembershipFields DEF Manages, Works
  <2>2. CASE d \notin cs
    <3>1. owner'[d] = owner[d] /\ member'[d] = member[d]
      BY <1>2, <2>2
    <3> QED BY <1>5, <3>1 DEF SeatInv, OwnerSeated, Manages, Works
  <2> QED BY <2>1, <2>2
<1>6. OwnerSeated'
  BY <1>5 DEF OwnerSeated
<1> QED BY <1>4, <1>6 DEF SeatInv

(* Every step: those that write no membership and no owner, then the others. *)
LEMMA SeatStep == ASSUME SeatInv, [OwnershipNext]_ownershipVars PROVE SeatInv'
<1>1. CASE UNCHANGED ownershipVars
  BY <1>1, SeatsUntouched DEF ownershipVars, SeatInv, TableShapes
<1>2. ASSUME NEW p \in People, BuyPlan(p) PROVE SeatInv'
  BY <1>2, SeatsUntouched DEF BuyPlan, SeatInv, TableShapes
<1>3. ASSUME NEW c \in Companies,
             \/ FreezeCompany(c) \/ ActivateCompany(c)
             \/ SoftDeleteExpired(c) \/ RestoreSoftDeleted(c)
      PROVE  SeatInv'
  <2>1. UNCHANGED <<owner, member, offers, checked>> /\ invitations' \subseteq invitations
    BY <1>3 DEF FreezeCompany, ActivateCompany, SoftDeleteExpired, RestoreSoftDeleted
  <2> QED BY <2>1, SeatsUntouched DEF SeatInv, TableShapes
<1>4. ASSUME NEW c \in Companies, NEW p \in People,
             \/ CreateCompany(c, p) \/ EndMembership(c, p)
             \/ AssignDeputy(c, p) \/ RevokeDeputy(c, p)
      PROVE  SeatInv'
  BY <1>4, SeatCreate, SeatEnd, SeatDeputy
<1>5. CASE InvitationNext
  <2>1. ASSUME NEW i \in Invitation, CheckInvitation(i) PROVE SeatInv'
    BY <2>1, SeatsUntouched DEF CheckInvitation, SeatInv, TableShapes
  <2>2. ASSUME NEW i \in checked, InsertInvitation(i) PROVE SeatInv'
    BY <2>2, SeatsUntouched DEF InsertInvitation, SeatInv, TableShapes
  <2>3. ASSUME NEW i \in invitations, CloseInvitation(i) PROVE SeatInv'
    BY <2>3, SeatsUntouched DEF CloseInvitation, SeatInv, TableShapes
  <2> QED BY <1>5, <2>1, <2>2, <2>3, SeatAccept DEF InvitationNext
<1>6. CASE OfferNext
  <2>1. ASSUME NEW o \in Offer, CheckOffer(o) PROVE SeatInv'
    BY <2>1, SeatsUntouched DEF CheckOffer, SeatInv, TableShapes
  <2>2. ASSUME NEW o \in checked, InsertOffer(o) PROVE SeatInv'
    BY <2>2, SeatsUntouched DEF InsertOffer, SeatInv, TableShapes
  <2>3. ASSUME NEW o \in offers, CloseOffer(o) PROVE SeatInv'
    BY <2>3, SeatsUntouched DEF CloseOffer, SeatInv, TableShapes
  <2>4. ASSUME DropChecked PROVE SeatInv'
    BY <2>4, SeatsUntouched DEF DropChecked, SeatInv, TableShapes
  <2> QED BY <1>6, <2>1, <2>2, <2>3, <2>4, SeatHandOver DEF OfferNext
<1> QED BY <1>1, <1>2, <1>3, <1>4, <1>5, <1>6 DEF OwnershipNext

(* The owner of a company is its manager and works there, whatever           *)
(* invitations, offers and departures come when, with any bounds.            *)
THEOREM OwnersAreSeated == OwnershipSpec => []OwnerSeated
<1>1. OwnershipInit => SeatInv
  BY SeatInit
<1>2. SeatInv /\ [OwnershipNext]_ownershipVars => SeatInv'
  BY SeatStep
<1>3. SeatInv => OwnerSeated
  BY DEF SeatInv
<1> QED BY <1>1, <1>2, <1>3, PTL DEF OwnershipSpec

-----------------------------------------------------------------------------
(* Actions *)

(* Whoever has an invalid assignment in hand, and still the row as it was,   *)
(* chose the action while it was open.                                       *)
ChosenOpen ==
  \A w \in AssignWorkers : moving[w] # NoOne /\ w \in asRead => ~IsClosed

ActionInv == CallActionsTypeOK /\ ChosenOpen

LEMMA ActionBegins == ASSUME CallActionsInit PROVE ActionInv
<1>1. PICK p \in Department :
        action = [status |-> "open", assignee |-> p, valid |-> TRUE, late |-> FALSE]
  BY DEF CallActionsInit
<1>2. p \in Staff
  BY CallActionsAssumption
<1>3. CallActionsTypeOK
  BY <1>1, <1>2 DEF CallActionsInit, CallActionsTypeOK, ActionStatus, NoOne
<1> QED BY <1>3 DEF CallActionsInit, ActionInv, ChosenOpen

(* A request writes its row and answers; nobody has the row as it was then. *)
LEMMA WriterKeeps ==
  ASSUME ActionInv, NEW r \in Writers,
         \/ StartAction(r) \/ CompleteAction(r) \/ CancelAction(r) \/ Reschedule(r)
         \/ Reassign(r) \/ RevertStatus(r) \/ ApproveTransfer(r)
  PROVE  ActionInv'
<1>1. asRead' = {} /\ UNCHANGED <<callBinned, staff, moving>>
      /\ request' = [request EXCEPT ![r] = "none"]
  BY DEF StartAction, CompleteAction, CancelAction, Reschedule, Reassign, RevertStatus,
         ApproveTransfer, WriteAction, Answer
<1>2. action' \in [status : ActionStatus, assignee : Staff, valid : BOOLEAN, late : BOOLEAN]
  <2> USE DEF ActionInv, CallActionsTypeOK, ActionStatus, Closing, WriteAction
  <2>1. CASE StartAction(r) \/ CompleteAction(r) \/ CancelAction(r)
    BY <2>1 DEF StartAction, CompleteAction, CancelAction
  <2>2. CASE Reschedule(r)
    BY <2>2 DEF Reschedule
  <2>3. CASE Reassign(r)
    BY <2>3 DEF Reassign
  <2>4. CASE RevertStatus(r)
    BY <2>4 DEF RevertStatus, Revertible
  <2>5. CASE ApproveTransfer(r)
    BY <2>5, CallActionsAssumption DEF ApproveTransfer, Assignable
  <2> QED BY <2>1, <2>2, <2>3, <2>4, <2>5
<1>3. undo' \in {undo, action.status} /\ transfer' \in {transfer, NoOne}
  BY DEF StartAction, CompleteAction, CancelAction, Reschedule, Reassign, RevertStatus,
         ApproveTransfer, Remember
<1>4. undo' \in ActionStatus \cup {"none"} /\ transfer' \in Staff \cup {NoOne}
  BY <1>3 DEF ActionInv, CallActionsTypeOK
<1> QED BY <1>1, <1>2, <1>4 DEF ActionInv, CallActionsTypeOK, ChosenOpen

LEMMA WorkerKeeps ==
  ASSUME ActionInv, NEW w \in AssignWorkers, SelectInvalid(w) \/ MoveInvalid(w)
  PROVE  ActionInv'
<1> USE DEF ActionInv, CallActionsTypeOK
<1>1. CASE SelectInvalid(w)
  <2>1. ~IsClosed /\ UNCHANGED action
    BY <1>1 DEF SelectInvalid
  <2> QED BY <1>1, <2>1 DEF SelectInvalid, ChosenOpen, IsClosed
<1>2. CASE MoveInvalid(w)
  <2>1. UNCHANGED <<undo, transfer, callBinned, staff, request>>
        /\ moving' = [moving EXCEPT ![w] = NoOne]
    BY <1>2 DEF MoveInvalid
  <2>2. Successors(moving[w]) \subseteq Staff
    BY CallActionsAssumption DEF Successors
  <2>3. \/ UNCHANGED action /\ asRead' = asRead \ {w}
        \/ asRead' = {} /\ action' = [action EXCEPT !.valid = FALSE]
        \/ asRead' = {} /\ (\E p \in Staff : action' = [action EXCEPT !.assignee = p])
    BY <1>2, <2>2 DEF MoveInvalid, WriteAction
  <2>4. CallActionsTypeOK'
    BY <2>1, <2>3
  <2>5. ChosenOpen'
    BY <2>1, <2>3 DEF ChosenOpen, IsClosed
  <2> QED BY <2>4, <2>5
<1> QED BY <1>1, <1>2

(* A request is no worker: what it reads does not make a worker's row fresh. *)
LEMMA RequestKeeps ==
  ASSUME ActionInv, NEW r \in Writers, (\E op \in Operations : ReadAction(r, op)) \/ Refused(r)
  PROVE  ActionInv'
<1>1. /\ UNCHANGED <<action, undo, transfer, callBinned, staff, moving>>
      /\ asRead' \subseteq asRead \cup {r}
      /\ \E op \in Operations \cup {"none"} : request' = [request EXCEPT ![r] = op]
  BY DEF ReadAction, Refused, Answer
<1>2. r \notin AssignWorkers
  BY CallActionsAssumption
<1> QED BY <1>1, <1>2 DEF ActionInv, CallActionsTypeOK, ChosenOpen, IsClosed

LEMMA AroundKeeps ==
  ASSUME ActionInv,
         \/ RejectTransfer \/ CreateTransfer \/ FallOverdue \/ GetsLate \/ HourPasses
         \/ BinOrRestore \/ \E p \in Staff : LeaveCompany(p)
  PROVE  ActionInv'
<1> USE DEF ActionInv, CallActionsTypeOK
<1>1. CASE RejectTransfer \/ CreateTransfer
  BY <1>1 DEF RejectTransfer, CreateTransfer, ChosenOpen, IsClosed
<1>2. CASE FallOverdue
  BY <1>2 DEF FallOverdue, WriteAction, ActionStatus, ChosenOpen
<1>3. CASE GetsLate
  <2>1. action'.status = action.status
    BY <1>3 DEF GetsLate
  <2> QED BY <1>3, <2>1 DEF GetsLate, ChosenOpen, IsClosed
<1>4. CASE HourPasses \/ BinOrRestore
  BY <1>4 DEF HourPasses, BinOrRestore, ChosenOpen, IsClosed
<1>5. ASSUME NEW p \in Staff, LeaveCompany(p) PROVE ActionInv'
  BY <1>5 DEF LeaveCompany, ChosenOpen, IsClosed
<1> QED BY <1>1, <1>2, <1>3, <1>4, <1>5

LEMMA ActionStep == ASSUME ActionInv, [CallActionsNext]_actionVars PROVE ActionInv'
<1>1. CASE UNCHANGED actionVars
  BY <1>1 DEF actionVars, ActionInv, CallActionsTypeOK, ChosenOpen, IsClosed
<1> QED BY <1>1, WriterKeeps, WorkerKeeps, RequestKeeps, AroundKeeps DEF CallActionsNext

(* What a step may do to a closed action. *)
LEMMA ClosedStays ==
  ASSUME ActionInv, [CallActionsNext]_actionVars, IsClosed
  PROVE  /\ action'.assignee = action.assignee
         /\ action'.status # action.status => Revertible /\ action'.status = undo
<1> USE DEF ActionInv, CallActionsTypeOK
<1>1. CASE UNCHANGED action
  BY <1>1
<1>2. ASSUME NEW r \in Writers,
             \/ StartAction(r) \/ CompleteAction(r) \/ CancelAction(r) \/ Reschedule(r)
             \/ Reassign(r) \/ ApproveTransfer(r)
      PROVE  FALSE
  BY <1>2 DEF StartAction, CompleteAction, CancelAction, Reschedule, Reassign,
              ApproveTransfer, IsClosed, Closing
<1>3. ASSUME NEW r \in Writers, RevertStatus(r)
      PROVE  /\ action'.assignee = action.assignee
             /\ Revertible /\ action'.status = undo
  BY <1>3 DEF RevertStatus, WriteAction
<1>4. CASE FallOverdue
  BY <1>4 DEF FallOverdue, IsClosed, Closing
<1>5. ASSUME NEW w \in AssignWorkers, MoveInvalid(w) PROVE UNCHANGED action
  BY <1>5 DEF MoveInvalid, SeenRow, ChosenOpen
<1>6. CASE GetsLate
  BY <1>6 DEF GetsLate
<1>7. \/ UNCHANGED action \/ FallOverdue \/ GetsLate
      \/ \E w \in AssignWorkers : MoveInvalid(w)
      \/ \E r \in Writers : \/ StartAction(r) \/ CompleteAction(r) \/ CancelAction(r)
                            \/ Reschedule(r) \/ Reassign(r) \/ ApproveTransfer(r)
                            \/ RevertStatus(r)
  BY DEF CallActionsNext, actionVars, ReadAction, Refused, RejectTransfer, CreateTransfer,
         SelectInvalid, HourPasses, BinOrRestore, LeaveCompany
<1> QED BY <1>1, <1>2, <1>3, <1>4, <1>5, <1>6, <1>7

(* No worker with an old page, no request that read it open, no transfer     *)
(* changes an action that is closed, except the one who takes its status     *)
(* back within the hour (mutations.go:48-50, 155; worker.go:235).            *)
THEOREM ClosedActionsAreKept == CallActionsSpec => ClosedKept
<1>1. CallActionsInit => ActionInv
  BY ActionBegins
<1>2. ActionInv /\ [CallActionsNext]_actionVars => ActionInv'
  BY ActionStep
<1>3. ActionInv /\ [CallActionsNext]_actionVars
        => [IsClosed =>
              /\ action'.assignee = action.assignee
              /\ action'.status # action.status => Revertible /\ action'.status = undo]_actionVars
  BY ClosedStays
<1> QED BY <1>1, <1>2, <1>3, PTL DEF CallActionsSpec, ClosedKept

-----------------------------------------------------------------------------
(* Files of a call that is deleted *)

(* The files that must go, and who is about to see to it. *)
Owed == disk \ strays

(* Once the row is gone: what is owed is on the manifest and before everyone  *)
(* who goes over it, nothing is owed after the end, and whoever still makes a *)
(* file makes a stray.                                                        *)
GoneInv ==
  recordOf = "gone" =>
    /\ manifest.status # "none"
    /\ Owed \subseteq manifest.files
    /\ manifest.status = "completed" => Owed = {}
    /\ \A w \in PurgeWorkers : purger[w].pc = "deleting" => Owed \subseteq purger[w].left
    /\ \A f \in Made : maker[f] # "nobody" => f \in strays

(* Before, nobody deletes. *)
KeptInv ==
  recordOf = "kept" =>
    /\ manifest.status = "none"
    /\ \A w \in PurgeWorkers : purger[w].pc # "deleting"

PurgeInv == PurgeTypeOK /\ GoneInv /\ KeptInv

LEMMA IdleHands ==
  Idle \in [pc : {"idle", "chosen", "deleting"}, claim : Claims, left : SUBSET Files]
    /\ Idle.pc = "idle"
BY PurgeAssumption DEF Idle

LEMMA PurgeBegins == ASSUME PurgeInit PROVE PurgeInv
<1>1. PurgeTypeOK
  BY IdleHands DEF PurgeInit, PurgeTypeOK, Files, Unfinished
<1> QED BY <1>1, IdleHands DEF PurgeInit, PurgeInv, GoneInv, KeptInv

(* People, time and those who make files. *)
LEMMA AroundFilesKeeps ==
  ASSUME PurgeInv,
         \/ SoftDeleteCall \/ RestoreCall \/ \E claim \in Claims : ComesDue(claim)
         \/ \E f \in Made : StartFile(f) \/ WriteFile(f) \/ RecordFile(f) \/ AbandonFile(f)
  PROVE  PurgeInv'
<1>1. CASE SoftDeleteCall \/ RestoreCall \/ \E claim \in Claims : ComesDue(claim)
  BY <1>1 DEF SoftDeleteCall, RestoreCall, ComesDue, PurgeInv, PurgeTypeOK, GoneInv, KeptInv, Owed
<1>2. ASSUME NEW f \in Made, StartFile(f) PROVE PurgeInv'
  BY <1>2 DEF StartFile, PurgeInv, PurgeTypeOK, GoneInv, KeptInv, Owed
<1>3. ASSUME NEW f \in Made, WriteFile(f) PROVE PurgeInv'
  <2>1. recordOf = "gone" => f \in strays
    BY <1>3 DEF WriteFile, PurgeInv, GoneInv
  <2>2. PurgeTypeOK'
    BY <1>3 DEF WriteFile, PurgeInv, PurgeTypeOK, Files
  <2>3. recordOf = "gone" => Owed' = Owed
    BY <1>3, <2>1 DEF WriteFile, Owed
  <2>4. ASSUME NEW g \in Made, maker'[g] # "nobody" PROVE maker[g] # "nobody"
    BY <1>3, <2>4 DEF WriteFile, PurgeInv, PurgeTypeOK
  <2> QED BY <1>3, <2>2, <2>3, <2>4 DEF WriteFile, PurgeInv, GoneInv, KeptInv
<1>4. ASSUME NEW f \in Made, RecordFile(f) \/ AbandonFile(f) PROVE PurgeInv'
  <2>1. PurgeTypeOK'
    BY <1>4 DEF RecordFile, AbandonFile, PurgeInv, PurgeTypeOK, Files
  <2>2. ASSUME NEW g \in Made, maker'[g] # "nobody" PROVE maker[g] # "nobody"
    BY <1>4, <2>2 DEF RecordFile, AbandonFile, PurgeInv, PurgeTypeOK
  <2> QED BY <1>4, <2>1, <2>2 DEF RecordFile, AbandonFile, PurgeInv, GoneInv, KeptInv, Owed
<1> QED BY <1>1, <1>2, <1>3, <1>4

(* The row goes once, and what it names is owed: the rest are strays. *)
LEMMA DeleteRowsKeeps ==
  ASSUME PurgeInv, NEW w \in PurgeWorkers, DeleteRows(w) PROVE PurgeInv'
<1> USE DEF PurgeInv, PurgeTypeOK
<1>1. CASE OverFor(purger[w].claim)
  <2>1. /\ recordOf = "kept" /\ recordOf' = "gone" /\ paths' = {}
        /\ manifest' = [status |-> "db_deleted", files |-> paths]
        /\ strays' = {f \in Files : f \notin paths \/ (f \in Made /\ maker[f] # "nobody")}
        /\ purger' = [purger EXCEPT ![w].pc = "deleting", ![w].left = paths]
        /\ UNCHANGED <<binned, overFor, disk, maker>>
    BY <1>1 DEF DeleteRows, OverFor, Listed
  <2>2. PurgeTypeOK'
    BY <2>1 DEF Unfinished
  <2>3. Owed' \subseteq paths /\ \A f \in Made : maker'[f] # "nobody" => f \in strays'
    BY <2>1 DEF Owed, Files
  <2>4. \A x \in PurgeWorkers : purger'[x].pc = "deleting" => x = w
    BY <2>1 DEF KeptInv
  <2>5. purger'[w].left = paths /\ manifest'.files = paths /\ manifest'.status = "db_deleted"
    BY <2>1
  <2> QED BY <2>1, <2>2, <2>3, <2>4, <2>5 DEF GoneInv, KeptInv
<1>2. CASE ~OverFor(purger[w].claim)
  <2>1. /\ UNCHANGED <<recordOf, paths, manifest, strays, binned, overFor, disk, maker>>
        /\ purger' = [purger EXCEPT ![w] = Idle]
    BY <1>2 DEF DeleteRows
  <2> QED BY <2>1, IdleHands DEF GoneInv, KeptInv, Owed
<1> QED BY <1>1, <1>2

(* A worker that goes over the files takes up the whole manifest, deletes     *)
(* what is before it and ends it when nothing is.                             *)
LEMMA PurgerKeeps ==
  ASSUME PurgeInv, NEW w \in PurgeWorkers,
         \/ \E claim \in Claims : SelectCall(w, claim)
         \/ \E f \in Files : DeleteFile(w, f)
         \/ ResumeFiles(w) \/ StorageFails(w) \/ CompleteDeletion(w) \/ CrashPurger(w)
  PROVE  PurgeInv'
<1> USE DEF PurgeInv, PurgeTypeOK
<1>1. ASSUME NEW claim \in Claims, SelectCall(w, claim) PROVE PurgeInv'
  <2>1. [Idle EXCEPT !.pc = "chosen", !.claim = claim] \in
          [pc : {"idle", "chosen", "deleting"}, claim : Claims, left : SUBSET Files]
    BY IdleHands
  <2>2. \A x \in PurgeWorkers : purger'[x].pc = "deleting" => x # w /\ purger'[x] = purger[x]
    BY <1>1, IdleHands DEF SelectCall
  <2>3. PurgeTypeOK'
    BY <1>1, <2>1 DEF SelectCall
  <2> QED BY <1>1, <2>2, <2>3 DEF SelectCall, GoneInv, KeptInv, Owed
<1>2. ASSUME NEW f \in Files, DeleteFile(w, f) PROVE PurgeInv'
  <2>1. PurgeTypeOK'
    BY <1>2 DEF DeleteFile
  <2>2. Owed' = Owed \ {f}
    BY <1>2 DEF DeleteFile, Owed
  <2>3. \A x \in PurgeWorkers : purger'[x].pc = purger[x].pc /\ purger[x].left \ {f} \subseteq purger'[x].left
    BY <1>2 DEF DeleteFile
  <2>4. UNCHANGED <<recordOf, manifest, maker, strays>> /\ purger[w].pc = "deleting"
    BY <1>2 DEF DeleteFile
  <2> QED BY <2>1, <2>2, <2>3, <2>4 DEF GoneInv, KeptInv
<1>3. ASSUME ResumeFiles(w) PROVE PurgeInv'
  <2>1. [Idle EXCEPT !.pc = "deleting", !.left = manifest.files] \in
          [pc : {"idle", "chosen", "deleting"}, claim : Claims, left : SUBSET Files]
    BY IdleHands
  <2>2. recordOf = "gone"
    BY <1>3 DEF ResumeFiles, KeptInv, Unfinished
  <2>3. \A x \in PurgeWorkers : purger'[x] = IF x = w THEN purger'[w] ELSE purger[x]
    BY <1>3 DEF ResumeFiles
  <2>4. purger'[w].left = manifest.files
    BY <1>3, <2>1 DEF ResumeFiles, Idle
  <2>5. PurgeTypeOK'
    BY <1>3, <2>1 DEF ResumeFiles
  <2>6. UNCHANGED <<recordOf, disk, manifest, maker, strays>>
    BY <1>3 DEF ResumeFiles
  <2> QED BY <2>2, <2>3, <2>4, <2>5, <2>6 DEF GoneInv, KeptInv, Owed
<1>4. ASSUME StorageFails(w) \/ CompleteDeletion(w) \/ CrashPurger(w) PROVE PurgeInv'
  <2>1. PurgeTypeOK'
    BY <1>4, IdleHands DEF StorageFails, CompleteDeletion, CrashPurger, Unfinished
  <2>2. \A x \in PurgeWorkers : purger'[x].pc = "deleting" => purger'[x] = purger[x]
    BY <1>4, IdleHands DEF StorageFails, CompleteDeletion, CrashPurger
  <2>3. UNCHANGED <<recordOf, disk, maker, strays>> /\ manifest'.files = manifest.files
    BY <1>4 DEF StorageFails, CompleteDeletion, CrashPurger
  <2>4. \/ manifest' = manifest
        \/ manifest'.status = "files_pending" /\ purger[w].pc = "deleting"
        \/ manifest'.status = "completed" /\ purger[w].pc = "deleting" /\ purger[w].left = {}
    BY <1>4 DEF StorageFails, CompleteDeletion, CrashPurger
  <2> QED BY <2>1, <2>2, <2>3, <2>4 DEF GoneInv, KeptInv, Owed
<1> QED BY <1>1, <1>2, <1>3, <1>4

LEMMA PurgeStep == ASSUME PurgeInv, [PurgeNext]_purgeVars PROVE PurgeInv'
<1>1. CASE UNCHANGED purgeVars
  BY <1>1 DEF purgeVars, PurgeInv, PurgeTypeOK, GoneInv, KeptInv, Owed
<1> QED BY <1>1, AroundFilesKeeps, DeleteRowsKeeps, PurgerKeeps DEF PurgeNext

(* Of a call that is gone every file that is left is on an open manifest,     *)
(* except what somebody still makes or had not named, for any files and       *)
(* workers (retention/worker.go:239-266, 310-318).                            *)
THEOREM PurgedFilesAreTracked == PurgeSpec => []PurgedFilesTracked
<1>1. PurgeInit => PurgeInv
  BY PurgeBegins
<1>2. PurgeInv /\ [PurgeNext]_purgeVars => PurgeInv'
  BY PurgeStep
<1>3. PurgeInv => PurgedFilesTracked
  BY DEF PurgeInv, PurgeTypeOK, GoneInv, PurgedFilesTracked, Owed
<1> QED BY <1>1, <1>2, <1>3, PTL DEF PurgeSpec

-----------------------------------------------------------------------------
VerdictRow == [author : Reviewers, of : 0 .. MaxReruns,
               status : {"draft", "published", "superseded", "discarded"}]

AppealRow == [on : 1 .. Len(verdicts), by : Counted,
              status : {"open", "accepted", "rejected"}]

(* What is in force, what it replaced and what is appealed, row by row.       *)
VerdictsRuled ==
  /\ editor = "allowed" => words < MaxWords
  /\ review.status = "none" => review.active = 0
  /\ \A i \in 1 .. Len(verdicts) :
       verdicts[i].status = "published" <=> i = review.active
  /\ \A i \in 1 .. Len(verdicts) : verdicts[i].status = "superseded" =>
       /\ review.active # 0
       /\ verdicts[i].author # verdicts[review.active].author
       /\ \A j \in 1 .. Len(verdicts) : verdicts[j].status = "superseded" => i = j
  /\ \A a \in OpenAppeals : appeals[a].on = review.active

ReviewInv == ReviewTypeOK /\ VerdictsRuled

LEMMA ReviewFields ==
  ASSUME NEW status, NEW assignee, NEW active, NEW revision
  PROVE  /\ ReviewRow(status, assignee, active, revision).status = status
         /\ ReviewRow(status, assignee, active, revision).active = active
BY DEF ReviewRow

LEMMA PartIsFinite ==
  ASSUME NEW n \in Nat, NEW S, S \subseteq 1 .. n
  PROVE  IsFiniteSet(S) /\ Cardinality(S) \in Nat
<1>1. IsFiniteSet(1 .. n)
  BY FS_Interval
<1> QED BY <1>1, FS_Subset, FS_CardinalityType

(* How many verdicts took effect: none, the one in force, or that and the     *)
(* one it replaced.                                                           *)
LEMMA VerdictsCounted ==
  ASSUME ReviewInv
  PROVE  /\ Given \in Nat /\ Given <= 2
         /\ Given = 0 <=> review.active = 0
         /\ Given < 2 => VerdictsIn({"superseded"}) = {}
<1> DEFINE G == VerdictsIn({"published", "superseded"})
           S == VerdictsIn({"superseded"})
           one == review.active
<1>1. /\ one \in 0 .. Len(verdicts) /\ Len(verdicts) \in Nat
      /\ one # 0 => verdicts[one].status = "published"
  BY DEF ReviewInv, ReviewTypeOK, VerdictsRuled
<1>2. one = 0 => G = {}
  BY <1>1 DEF ReviewInv, VerdictsRuled, VerdictsIn
<1>8. ASSUME one # 0 PROVE G = S \cup {one} /\ one \notin S
  <2>1. one \in 1 .. Len(verdicts)
    BY <1>1, <1>8
  <2>2. \A i \in 1 .. Len(verdicts) : verdicts[i].status = "published" <=> i = one
    BY DEF ReviewInv, VerdictsRuled
  <2> QED BY <2>1, <2>2 DEF VerdictsIn
<1>3. IsFiniteSet(S) /\ Cardinality(S) \in Nat
  <2>1. S \subseteq 1 .. Len(verdicts)
    BY DEF VerdictsIn
  <2> HIDE DEF S
  <2> QED BY <1>1, <2>1, PartIsFinite
<1>4. S = {} \/ \E s : S = {s}
  <2>1. \A s, t \in S : s = t
    BY DEF ReviewInv, VerdictsRuled, VerdictsIn
  <2> HIDE DEF S
  <2> QED BY <2>1
<1>5. Cardinality(S) <= 1 /\ (Cardinality(S) = 0 => S = {})
  <2> HIDE DEF S
  <2> QED BY <1>3, <1>4, FS_Singleton, FS_EmptySet
<1>6. CASE one = 0
  <2>1. Given = 0
    BY <1>2, <1>6, FS_EmptySet DEF Given
  <2>2. S = {}
    BY <1>6 DEF ReviewInv, VerdictsRuled, VerdictsIn
  <2> QED BY <1>6, <2>1, <2>2
<1>7. CASE one # 0
  <2>1. Cardinality(S \cup {one}) = Cardinality(S) + 1
    BY <1>7, <1>8, <1>3, FS_AddElement
  <2>2. Given = Cardinality(S) + 1
    BY <1>8, <1>7, <2>1 DEF Given
  <2> HIDE DEF S
  <2> QED BY <1>3, <1>5, <1>7, <2>2 DEF S
<1> QED BY <1>6, <1>7

LEMMA RuledIsRight ==
  ASSUME ReviewInv
  PROVE  OneVerdictInForce /\ SecondOpinionIsAnothers
<1>1. OneVerdictInForce
  BY DEF ReviewInv, ReviewTypeOK, VerdictsRuled, OneVerdictInForce, VerdictsIn
<1>2. ASSUME NEW i \in VerdictsIn({"published", "superseded"}),
             NEW j \in VerdictsIn({"published", "superseded"}), i # j
      PROVE  verdicts[i].author # verdicts[j].author
  BY <1>2 DEF ReviewInv, VerdictsRuled, VerdictsIn
<1> QED BY <1>1, <1>2, VerdictsCounted DEF SecondOpinionIsAnothers

LEMMA ReviewBegins == ASSUME ReviewInit PROVE ReviewInv
<1>1. ReviewTypeOK
  <2>1. /\ review \in [status : ReviewStatus, assignee : Reviewers \cup {Nobody},
                        active : 0 .. 0, revision : 0 .. MaxWords]
        /\ source \in [run : 0 .. MaxReruns, revision : 1 .. MaxWords,
                        status : {"done", "processing", "stale"}]
    BY ReviewAssumption DEF ReviewInit, ReviewRow, ReviewStatus
  <2>2. verdicts \in Seq(VerdictRow) /\ appeals \in Seq(AppealRow)
        /\ Len(verdicts) = 0 /\ Len(appeals) = 0
    BY DEF ReviewInit
  <2>3. /\ review.active \in 0 .. Len(verdicts) /\ challenged \in BOOLEAN
        /\ fresh \subseteq Reviewers /\ words \in 1 .. MaxWords /\ editor \in {"no", "allowed"}
    BY <2>1, <2>2, ReviewAssumption DEF ReviewInit
  <2> QED BY <2>1, <2>2, <2>3, ReviewAssumption DEF ReviewTypeOK, VerdictRow, AppealRow
<1>2. VerdictsRuled
  BY DEF ReviewInit, VerdictsRuled, ReviewRow, OpenAppeals
<1> QED BY <1>1, <1>2 DEF ReviewInv

(* A review is opened. *)
LEMMA OpeningKeeps ==
  ASSUME ReviewInv,
         \/ \E p \in Reviewers, a \in Reviewers \cup {Nobody} : CreateReview(p, a)
         \/ \E p \in Counted : ChallengeAnalysis(p)
  PROVE  ReviewInv'
<1>1. ASSUME NEW p \in Reviewers, NEW a \in Reviewers \cup {Nobody}, CreateReview(p, a)
      PROVE  ReviewInv'
  <2>1. ReviewTypeOK'
    BY <1>1 DEF ReviewInv, ReviewTypeOK, CreateReview, ReviewRow, Changed, ReviewStatus
  <2>2. review.active = 0 /\ review'.active = 0 /\ UNCHANGED <<verdicts, appeals, words, editor>>
    BY <1>1 DEF ReviewInv, VerdictsRuled, CreateReview, ReviewRow
  <2> QED BY <2>1, <2>2 DEF ReviewInv, VerdictsRuled, OpenAppeals
<1>2. ASSUME NEW p \in Counted, ChallengeAnalysis(p), review.active = 0 PROVE ReviewInv'
  <2>1. ReviewTypeOK'
    BY <1>2 DEF ReviewInv, ReviewTypeOK, ChallengeAnalysis, ReviewRow, ReviewStatus
  <2>2. review'.active = 0 /\ UNCHANGED <<verdicts, appeals, words, editor>>
    BY <1>2 DEF ChallengeAnalysis, ReviewRow
  <2> QED BY <1>2, <2>1, <2>2 DEF ReviewInv, VerdictsRuled, OpenAppeals
<1>3. ASSUME NEW p \in Counted, ChallengeAnalysis(p), review.active # 0 PROVE ReviewInv'
  <2>1. /\ appeals' = Append(appeals, [on |-> review.active, by |-> p, status |-> "open"])
        /\ review' = [review EXCEPT !.status = "appealed", !.assignee = Nobody]
        /\ fresh' = {}
        /\ UNCHANGED <<verdicts, words, source, editor>> /\ challenged' = TRUE
        /\ Len(appeals) < MaxAppeals
    BY <1>3 DEF ChallengeAnalysis
  <2>2. ReviewTypeOK'
    <3> DEFINE a == [on |-> review.active, by |-> p, status |-> "open"]
    <3>1. a \in AppealRow /\ appeals \in Seq(AppealRow) /\ Len(appeals) \in Nat
      BY <1>3 DEF ReviewInv, ReviewTypeOK, AppealRow
    <3>2. Append(appeals, a) \in Seq(AppealRow) /\ Len(Append(appeals, a)) = Len(appeals) + 1
      BY <3>1
    <3>3. appeals' \in Seq(AppealRow) /\ Len(appeals') <= MaxAppeals
      BY <2>1, <3>1, <3>2, ReviewAssumption
    <3>4. review' \in [status : ReviewStatus, assignee : Reviewers \cup {Nobody},
                 active : 0 .. Len(verdicts), revision : 0 .. MaxWords]
      BY <2>1 DEF ReviewInv, ReviewTypeOK, ReviewStatus
    <3> QED BY <2>1, <3>3, <3>4 DEF ReviewInv, ReviewTypeOK, AppealRow
  <2>3. review'.active = review.active /\ review'.status = "appealed"
    BY <2>1 DEF ReviewInv, ReviewTypeOK
  <2>4. \A x \in OpenAppeals' : appeals'[x].on = review.active
    <3> DEFINE a == [on |-> review.active, by |-> p, status |-> "open"]
    <3>1. a.on = review.active /\ appeals \in Seq(AppealRow) /\ Len(appeals) \in Nat
      BY DEF ReviewInv, ReviewTypeOK, AppealRow
    <3> HIDE DEF a
    <3>2. \A x \in 1 .. Len(appeals') :
            (x \in 1 .. Len(appeals) /\ appeals'[x] = appeals[x]) \/ appeals'[x] = a
      BY <2>1, <3>1 DEF a
    <3> QED BY <3>1, <3>2 DEF ReviewInv, VerdictsRuled, OpenAppeals
  <2> QED BY <2>1, <2>2, <2>3, <2>4 DEF ReviewInv, VerdictsRuled
<1> QED BY <1>1, <1>2, <1>3

LEMMA RowsOf ==
  ASSUME NEW S, NEW n \in Nat, NEW f, f = [v \in 1 .. n |-> f[v]],
         \A v \in 1 .. n : f[v] \in S
  PROVE  f \in Seq(S) /\ Len(f) = n
OBVIOUS

LEMMA VerdictWritten ==
  ASSUME NEW row \in VerdictRow
  PROVE  /\ \A run \in 0 .. MaxReruns :
               /\ [row EXCEPT !.of = run] \in VerdictRow
               /\ [row EXCEPT !.of = run].author = row.author
               /\ [row EXCEPT !.of = run].status = row.status
         /\ \A status \in {"published", "superseded", "discarded"} :
               /\ [row EXCEPT !.status = status] \in VerdictRow
               /\ [row EXCEPT !.status = status].author = row.author
               /\ [row EXCEPT !.status = status].status = status
BY DEF VerdictRow

(* A reviewer reads, claims or drafts: what is in force stays.                *)
LEMMA DraftingKeeps ==
  ASSUME ReviewInv, NEW p \in Reviewers,
         ReadReview(p) \/ ClaimReview(p) \/ SaveDraft(p) \/ DiscardDraft(p)
  PROVE  ReviewInv'
<1>1. ASSUME ReadReview(p) PROVE ReviewInv'
  BY <1>1 DEF ReadReview, ReviewInv, ReviewTypeOK, VerdictsRuled, OpenAppeals
<1>2. ASSUME ClaimReview(p) PROVE ReviewInv'
  <2>1. ReviewTypeOK'
    BY <1>2 DEF ClaimReview, ReviewInv, ReviewTypeOK, ReviewStatus, Changed
  <2>2. review'.active = review.active /\ review'.status = "in_review"
        /\ UNCHANGED <<verdicts, appeals, words, editor>>
    BY <1>2 DEF ClaimReview, ReviewInv, ReviewTypeOK
  <2> QED BY <2>1, <2>2 DEF ReviewInv, VerdictsRuled, OpenAppeals
<1>3. ASSUME SaveDraft(p) \/ DiscardDraft(p) PROVE ReviewInv'
  <2>1. /\ Len(verdicts') \in Nat /\ Len(verdicts') >= Len(verdicts)
        /\ Len(verdicts') <= MaxVerdicts
        /\ verdicts' \in Seq(VerdictRow)
        /\ \A i \in 1 .. Len(verdicts) :
             /\ verdicts'[i].author = verdicts[i].author
             /\ verdicts[i].status # "draft" => verdicts'[i].status = verdicts[i].status
             /\ verdicts[i].status = "draft" => verdicts'[i].status \in {"draft", "discarded"}
        /\ \A i \in 1 .. Len(verdicts') : i > Len(verdicts) => verdicts'[i].status = "draft"
    <3>1. /\ verdicts \in Seq(VerdictRow) /\ Len(verdicts) \in Nat
          /\ source.run \in 0 .. MaxReruns /\ Len(verdicts) <= MaxVerdicts
          /\ \A i \in DraftsOf(p) : verdicts[i].status = "draft"
      BY DEF ReviewInv, ReviewTypeOK, VerdictRow, DraftsOf, VerdictsIn
    <3>2. CASE SaveDraft(p) /\ DraftsOf(p) = {}
      <4> DEFINE d == [author |-> p, of |-> source.run, status |-> "draft"]
      <4>1. verdicts' = Append(verdicts, d) /\ Len(verdicts) < MaxVerdicts
        BY <3>2 DEF SaveDraft
      <4>2. d \in VerdictRow /\ d.status = "draft"
        BY <3>1 DEF VerdictRow
      <4> HIDE DEF d
      <4> QED BY <3>1, <4>1, <4>2, ReviewAssumption
    <3>3. CASE SaveDraft(p) /\ DraftsOf(p) # {}
      <4>1. verdicts' = [i \in 1 .. Len(verdicts) |->
                          IF i \in DraftsOf(p) THEN [verdicts[i] EXCEPT !.of = source.run]
                                               ELSE verdicts[i]]
        BY <3>3 DEF SaveDraft
      <4>2. ASSUME NEW i \in 1 .. Len(verdicts)
            PROVE  /\ verdicts'[i] \in VerdictRow
                   /\ verdicts'[i].author = verdicts[i].author
                   /\ verdicts'[i].status = verdicts[i].status
        <5>1. verdicts[i] \in VerdictRow
          BY <3>1
        <5>2. CASE i \in DraftsOf(p)
          <6>1. verdicts'[i] = [verdicts[i] EXCEPT !.of = source.run]
            BY <4>1, <5>2
          <6>2. [verdicts[i] EXCEPT !.of = source.run] \in VerdictRow
            BY <3>1, <5>1 DEF VerdictRow
          <6> QED BY <3>1, <5>1, <5>2, <6>1, <6>2 DEF VerdictRow
        <5>3. CASE i \notin DraftsOf(p)
          BY <4>1, <5>1, <5>3
        <5> QED BY <5>2, <5>3
      <4>3. verdicts' = [i \in 1 .. Len(verdicts) |-> verdicts'[i]]
        BY <4>1
      <4>4. verdicts' \in Seq(VerdictRow) /\ Len(verdicts') = Len(verdicts)
        BY ONLY <3>1, <4>2, <4>3, RowsOf
      <4> QED BY <3>1, <4>2, <4>4
    <3>4. CASE DiscardDraft(p)
      <4>1. verdicts' = [i \in 1 .. Len(verdicts) |->
                          IF i \in DraftsOf(p) THEN [verdicts[i] EXCEPT !.status = "discarded"]
                                               ELSE verdicts[i]]
        BY <3>4 DEF DiscardDraft
      <4>2. ASSUME NEW i \in 1 .. Len(verdicts)
            PROVE  /\ verdicts'[i] \in VerdictRow
                   /\ verdicts'[i].author = verdicts[i].author
                   /\ verdicts'[i].status = IF i \in DraftsOf(p) THEN "discarded" ELSE verdicts[i].status
        <5>1. verdicts[i] \in VerdictRow
          BY <3>1
        <5>2. CASE i \in DraftsOf(p)
          <6>1. verdicts'[i] = [verdicts[i] EXCEPT !.status = "discarded"]
            BY <4>1, <5>2
          <6> QED BY <3>1, <5>1, <5>2, <6>1, VerdictWritten
        <5>3. CASE i \notin DraftsOf(p)
          BY <4>1, <5>1, <5>3
        <5> QED BY <5>2, <5>3
      <4>3. verdicts' = [i \in 1 .. Len(verdicts) |-> verdicts'[i]]
        BY <4>1
      <4>4. verdicts' \in Seq(VerdictRow) /\ Len(verdicts') = Len(verdicts)
        BY ONLY <3>1, <4>2, <4>3, RowsOf
      <4> QED BY <3>1, <4>2, <4>4
    <3> QED BY <1>3, <3>2, <3>3, <3>4
  <2>2. /\ review' \in [status : ReviewStatus, assignee : Reviewers \cup {Nobody},
                         active : 0 .. Len(verdicts), revision : 0 .. MaxWords]
        /\ review'.active = review.active
        /\ review'.status \in {"in_review", review.status}
        /\ fresh' \subseteq Reviewers /\ UNCHANGED <<appeals, challenged, words, source, editor>>
    BY <1>3 DEF SaveDraft, DiscardDraft, ReviewInv, ReviewTypeOK, ReviewStatus, Changed
  <2>3. ReviewTypeOK'
    <3>1. Len(verdicts) \in Nat /\ appeals \in Seq(AppealRow)
      BY DEF ReviewInv, ReviewTypeOK, AppealRow
    <3>2. AppealRow \subseteq AppealRow'
      BY <2>1, <3>1 DEF AppealRow
    <3>3. appeals \in Seq(AppealRow')
      BY <3>1, <3>2
    <3> QED BY <2>1, <2>2, <3>3 DEF ReviewInv, ReviewTypeOK, VerdictRow, AppealRow
  <2>4. review.active \in 0 .. Len(verdicts)
    BY DEF ReviewInv, ReviewTypeOK
  <2>5. \A i \in 1 .. Len(verdicts') :
          \/ i \in 1 .. Len(verdicts)
          \/ i > Len(verdicts) /\ verdicts'[i].status = "draft" /\ i # review.active
    BY <2>1, <2>4
  <2>6. VerdictsRuled'
    <3>1. review'.status = "none" => review'.active = 0
      BY <2>2 DEF ReviewInv, VerdictsRuled
    <3>2. ASSUME NEW i \in 1 .. Len(verdicts')
          PROVE  verdicts'[i].status = "published" <=> i = review'.active
      BY <2>1, <2>2, <2>5 DEF ReviewInv, VerdictsRuled
    <3>3. \A i \in 1 .. Len(verdicts') : verdicts'[i].status = "superseded" =>
            i \in 1 .. Len(verdicts) /\ verdicts[i].status = "superseded"
      BY <2>1, <2>5
    <3>4. review.active # 0 => verdicts'[review.active].author = verdicts[review.active].author
      BY <2>1, <2>4
    <3>5. \A i \in 1 .. Len(verdicts') : verdicts'[i].status = "superseded" =>
            /\ review'.active # 0
            /\ verdicts'[i].author # verdicts'[review'.active].author
            /\ \A j \in 1 .. Len(verdicts') : verdicts'[j].status = "superseded" => i = j
      BY <2>1, <2>2, <3>3, <3>4 DEF ReviewInv, VerdictsRuled
    <3>6. \A a \in OpenAppeals' : appeals'[a].on = review'.active
      BY <2>2 DEF ReviewInv, VerdictsRuled, OpenAppeals
    <3>7. editor' = "allowed" => words' < MaxWords
      BY <2>2 DEF ReviewInv, VerdictsRuled
    <3> QED BY <3>1, <3>2, <3>5, <3>6, <3>7 DEF VerdictsRuled
  <2> QED BY <2>3, <2>6 DEF ReviewInv
<1> QED BY <1>1, <1>2, <1>3

(* A verdict takes effect.                                                    *)
LEMMA PublishingKeeps ==
  ASSUME ReviewInv, NEW p \in Reviewers, PublishVerdict(p)
  PROVE  ReviewInv'
<1>1. PICK i \in DraftsOf(p) :
        /\ MayPublish(p, i)
        /\ verdicts' = [v \in 1 .. Len(verdicts) |->
             CASE v = i                           -> [verdicts[v] EXCEPT !.status = "published"]
               [] v # i /\ v \in Superseding(i)   -> [verdicts[v] EXCEPT !.status = "superseded"]
               [] OTHER                           -> verdicts[v]]
        /\ review' = [review EXCEPT !.active = i,
                        !.status = IF Given = 1 THEN "resolved" ELSE "published"]
        /\ appeals' = IF Given = 0 THEN appeals
                      ELSE [a \in 1 .. Len(appeals) |->
                              IF a \in OpenAppeals
                              THEN [appeals[a] EXCEPT !.status = "accepted"] ELSE appeals[a]]
  BY DEF PublishVerdict
<1>2. /\ verdicts \in Seq(VerdictRow) /\ Len(verdicts) \in Nat /\ Len(verdicts) <= MaxVerdicts
      /\ i \in 1 .. Len(verdicts) /\ verdicts[i].status = "draft" /\ verdicts[i].author = p
      /\ appeals \in Seq(AppealRow) /\ Len(appeals) \in Nat
      /\ review.active \in 0 .. Len(verdicts)
  BY DEF ReviewInv, ReviewTypeOK, VerdictRow, AppealRow, DraftsOf, VerdictsIn
<1>3. UNCHANGED <<challenged, words, source, editor>> /\ fresh' \subseteq Reviewers
  BY DEF PublishVerdict, Changed
<1>4. /\ i # review.active
      /\ \A v \in 1 .. Len(verdicts) : verdicts[v].status # "superseded"
      /\ review.active # 0 => verdicts[review.active].author # p
      /\ Given = 0 <=> review.active = 0
  BY <1>1, <1>2, VerdictsCounted
     DEF MayPublish, AuthorDiffers, ReviewInv, VerdictsRuled, VerdictsIn
<1>5. ASSUME NEW v \in 1 .. Len(verdicts)
      PROVE  /\ verdicts'[v] \in VerdictRow
             /\ verdicts'[v].author = verdicts[v].author
             /\ verdicts'[v].status = IF v = i THEN "published"
                                     ELSE IF v = review.active THEN "superseded"
                                     ELSE verdicts[v].status
  <2>1. verdicts[v] \in VerdictRow
    BY <1>2
  <2>2. CASE v = i
    <3>1. verdicts'[v] = [verdicts[v] EXCEPT !.status = "published"]
      BY <1>1, <2>2
    <3> QED BY <2>1, <2>2, <3>1 DEF VerdictRow
  <2>3. CASE v # i /\ v = review.active
    <3>1. verdicts'[v] = [verdicts[v] EXCEPT !.status = "superseded"]
      BY <1>1, <2>3 DEF Superseding
    <3> QED BY <2>1, <2>3, <3>1 DEF VerdictRow
  <2>4. CASE v # i /\ v # review.active
    <3>1. v \notin Superseding(i)
      BY <2>4 DEF Superseding
    <3>2. verdicts'[v] = verdicts[v]
      BY <1>1, <2>4, <3>1
    <3> QED BY <2>1, <2>4, <3>2
  <2> QED BY <2>2, <2>3, <2>4
<1>6. verdicts' \in Seq(VerdictRow) /\ Len(verdicts') = Len(verdicts)
  <2>1. verdicts' = [v \in 1 .. Len(verdicts) |-> verdicts'[v]]
    BY <1>1
  <2> QED BY ONLY <1>2, <1>5, <2>1, RowsOf
<1>7. /\ review' \in [status : ReviewStatus, assignee : Reviewers \cup {Nobody},
                      active : 0 .. Len(verdicts), revision : 0 .. MaxWords]
      /\ review'.active = i /\ review'.status # "none"
  <2>1. PICK status \in {"resolved", "published"} :
          review' = [[review EXCEPT !.active = i] EXCEPT !.status = status]
    BY <1>1
  <2>2. review \in [status : ReviewStatus, assignee : Reviewers \cup {Nobody},
                   active : 0 .. Len(verdicts), revision : 0 .. MaxWords]
    BY DEF ReviewInv, ReviewTypeOK
  <2>3. PICK row : row = [review EXCEPT !.active = i]
    OBVIOUS
  <2>4. /\ row \in [status : ReviewStatus, assignee : Reviewers \cup {Nobody},
                    active : 0 .. Len(verdicts), revision : 0 .. MaxWords]
        /\ row.active = i
    BY ONLY <1>2, <2>2, <2>3
  <2>5. review' = [row EXCEPT !.status = status]
    BY <2>1, <2>3
  <2> QED BY ONLY <1>2, <2>1, <2>4, <2>5 DEF ReviewStatus
<1>8. appeals' \in Seq(AppealRow) /\ Len(appeals') = Len(appeals) /\ OpenAppeals' = {}
  <2>1. CASE Given = 0
    <3>1. OpenAppeals = {}
      <4>1. \A a \in OpenAppeals : a \in 1 .. Len(appeals) /\ appeals[a].on = 0
        BY <1>4, <2>1 DEF ReviewInv, VerdictsRuled, OpenAppeals
      <4>2. \A a \in 1 .. Len(appeals) : appeals[a].on # 0
        <5>1. \A a \in 1 .. Len(appeals) : appeals[a] \in AppealRow
          BY <1>2
        <5>2. \A b \in AppealRow : b.on # 0
          BY <1>2 DEF AppealRow
        <5> QED BY <5>1, <5>2
      <4> QED BY <4>1, <4>2
    <3> QED BY <1>1, <1>2, <2>1, <3>1 DEF OpenAppeals
  <2>2. CASE Given # 0
    <3>1. appeals' = [a \in 1 .. Len(appeals) |->
                        IF a \in OpenAppeals
                        THEN [appeals[a] EXCEPT !.status = "accepted"] ELSE appeals[a]]
      BY <1>1, <2>2
    <3>2. ASSUME NEW a \in 1 .. Len(appeals)
          PROVE  appeals'[a] \in AppealRow /\ appeals'[a].status # "open"
      <4>1. appeals[a] \in AppealRow
        BY <1>2
      <4>2. CASE a \in OpenAppeals
        <5>1. appeals'[a] = [appeals[a] EXCEPT !.status = "accepted"]
          BY <3>1, <4>2
        <5> QED BY <4>1, <5>1 DEF AppealRow
      <4>3. CASE a \notin OpenAppeals
        BY <3>1, <4>1, <4>3 DEF OpenAppeals
      <4> QED BY <4>2, <4>3
    <3>3. appeals' \in Seq(AppealRow) /\ Len(appeals') = Len(appeals)
      <4>1. appeals' = [a \in 1 .. Len(appeals) |-> appeals'[a]]
        BY <3>1
      <4> QED BY ONLY <1>2, <3>2, <4>1, RowsOf
    <3>4. \A a \in 1 .. Len(appeals') : appeals'[a].status # "open"
      BY <3>2, <3>3
    <3> QED BY <3>3, <3>4 DEF OpenAppeals
  <2> QED BY <2>1, <2>2
<1>9. ReviewTypeOK'
  <2>1. AppealRow' = AppealRow
    BY <1>6 DEF AppealRow
  <2> QED BY <1>2, <1>3, <1>6, <1>7, <1>8, <2>1 DEF ReviewInv, ReviewTypeOK, VerdictRow, AppealRow
<1>10. VerdictsRuled'
  <2>1. \A v \in 1 .. Len(verdicts') :
          /\ verdicts'[v].status = "published" <=> v = i
          /\ verdicts'[v].status = "superseded" <=> v = review.active
          /\ verdicts'[v].author = verdicts[v].author
    BY <1>2, <1>4, <1>5, <1>6 DEF ReviewInv, VerdictsRuled
  <2>2. editor' = "allowed" => words' < MaxWords
    BY <1>3 DEF ReviewInv, VerdictsRuled
  <2> QED BY <1>2, <1>4, <1>6, <1>7, <1>8, <2>1, <2>2 DEF VerdictsRuled
<1> QED BY <1>9, <1>10 DEF ReviewInv

(* Appeals; none is against a verdict that is no longer in force, so that      *)
(* accepting one never finds another verdict to put in its place.             *)
LEMMA AppealsKeep ==
  ASSUME ReviewInv,
         (\E p \in Counted : CreateAppeal(p)) \/ (\E p \in Management : ResolveAppeal(p))
  PROVE  ReviewInv'
<1>0. /\ appeals \in Seq(AppealRow) /\ Len(appeals) \in Nat /\ Len(verdicts) \in Nat
      /\ review \in [status : ReviewStatus, assignee : Reviewers \cup {Nobody},
                     active : 0 .. Len(verdicts), revision : 0 .. MaxWords]
  BY DEF ReviewInv, ReviewTypeOK, AppealRow
<1>1. ASSUME NEW p \in Counted, CreateAppeal(p) PROVE ReviewInv'
  <2> DEFINE a == [on |-> review.active, by |-> p, status |-> "open"]
  <2>1. /\ appeals' = Append(appeals, a) /\ review.active # 0 /\ Len(appeals) < MaxAppeals
        /\ review' = [review EXCEPT !.status = "appealed"]
        /\ fresh' = {} /\ UNCHANGED <<verdicts, challenged, words, source, editor>>
    BY <1>1 DEF CreateAppeal
  <2>2. a \in AppealRow
    BY <1>0, <2>1 DEF AppealRow
  <2>3. /\ appeals' \in Seq(AppealRow) /\ Len(appeals') = Len(appeals) + 1
        /\ \A x \in 1 .. Len(appeals) : appeals'[x] = appeals[x]
        /\ appeals'[Len(appeals) + 1].on = review.active
    <3> HIDE DEF a
    <3>1. a.on = review.active
      BY DEF a
    <3> QED BY <1>0, <2>1, <2>2, <3>1
  <2>4. /\ review' \in [status : ReviewStatus, assignee : Reviewers \cup {Nobody},
                     active : 0 .. Len(verdicts), revision : 0 .. MaxWords]
        /\ review'.active = review.active /\ review'.status = "appealed"
    BY ONLY <1>0, <2>1 DEF ReviewStatus
  <2>5. ReviewTypeOK'
    <3>1. Len(appeals') <= MaxAppeals
      BY <1>0, <2>1, <2>3, ReviewAssumption
    <3> QED BY <2>1, <2>3, <2>4, <3>1 DEF ReviewInv, ReviewTypeOK, AppealRow
  <2>6. \A x \in OpenAppeals' : appeals'[x].on = review.active
    BY <1>0, <2>3 DEF ReviewInv, VerdictsRuled, OpenAppeals
  <2> QED BY <2>1, <2>4, <2>5, <2>6 DEF ReviewInv, VerdictsRuled
<1>2. ASSUME NEW p \in Management, ResolveAppeal(p) PROVE ReviewInv'
  <2>1. PICK a \in OpenAppeals, r \in {0} \cup VerdictsIn({"published"}) :
          /\ r # appeals[a].on
          /\ appeals' = [appeals EXCEPT ![a].status = IF r = 0 THEN "rejected" ELSE "accepted"]
          /\ review' = [review EXCEPT !.status = "resolved",
                                      !.active = IF r = 0 THEN @ ELSE r]
          /\ verdicts' = IF r = 0 THEN verdicts
                         ELSE [verdicts EXCEPT ![review.active].status = "superseded"]
    BY <1>2 DEF ResolveAppeal
  <2>2. r = 0
    BY <2>1 DEF ReviewInv, VerdictsRuled, VerdictsIn
  <2>3. /\ appeals' = [appeals EXCEPT ![a].status = "rejected"]
        /\ review' = [review EXCEPT !.status = "resolved", !.active = review.active]
        /\ fresh' = {} /\ UNCHANGED <<verdicts, challenged, words, source, editor>>
    BY <1>2, <2>1, <2>2 DEF ResolveAppeal
  <2>4. /\ appeals' \in Seq(AppealRow) /\ Len(appeals') = Len(appeals)
        /\ OpenAppeals' \subseteq OpenAppeals
        /\ \A x \in 1 .. Len(appeals) : appeals'[x].on = appeals[x].on
    <3>1. a \in 1 .. Len(appeals) /\ appeals[a] \in AppealRow
      BY <1>0 DEF OpenAppeals
    <3>2. PICK row : row = [appeals[a] EXCEPT !.status = "rejected"]
      OBVIOUS
    <3>3. row \in AppealRow /\ row.on = appeals[a].on /\ row.status = "rejected"
      BY <3>1, <3>2 DEF AppealRow
    <3>4. appeals' = [appeals EXCEPT ![a] = row]
      BY <1>0, <2>3, <3>1, <3>2
    <3>5. /\ appeals' \in Seq(AppealRow) /\ Len(appeals') = Len(appeals)
          /\ \A x \in 1 .. Len(appeals) : appeals'[x] = IF x = a THEN row ELSE appeals[x]
      BY ONLY <1>0, <3>1, <3>3, <3>4
    <3> QED BY <3>3, <3>5 DEF OpenAppeals
  <2>5. /\ review' \in [status : ReviewStatus, assignee : Reviewers \cup {Nobody},
                        active : 0 .. Len(verdicts), revision : 0 .. MaxWords]
        /\ review'.active = review.active /\ review'.status = "resolved"
    BY ONLY <1>0, <2>3 DEF ReviewStatus
  <2>6. ReviewTypeOK'
    BY <2>3, <2>4, <2>5 DEF ReviewInv, ReviewTypeOK, AppealRow
  <2>7. \A x \in OpenAppeals' : appeals'[x].on = review.active
    BY <2>4 DEF ReviewInv, VerdictsRuled, OpenAppeals
  <2> QED BY <2>3, <2>5, <2>6, <2>7 DEF ReviewInv, VerdictsRuled
<1> QED BY <1>1, <1>2

(* The words change and the analysis is made again: the verdicts stay.        *)
LEMMA MeanwhileKeeps ==
  ASSUME ReviewInv, EnsureNotUnderReview \/ EditWords \/ RerunBegins \/ RerunEnds
  PROVE  ReviewInv'
<1>1. UNCHANGED <<review, verdicts, appeals, challenged, fresh>>
  BY DEF EnsureNotUnderReview, EditWords, RerunBegins, RerunEnds
<1>2. /\ words' \in 1 .. MaxWords /\ editor' \in {"no", "allowed"}
      /\ source' \in [run : 0 .. MaxReruns, revision : 1 .. MaxWords,
                      status : {"done", "processing", "stale"}]
  <2>1. /\ source \in [run : 0 .. MaxReruns, revision : 1 .. MaxWords,
                      status : {"done", "processing", "stale"}]
        /\ words \in 1 .. MaxWords /\ editor \in {"no", "allowed"}
    BY DEF ReviewInv, ReviewTypeOK
  <2>2. CASE EnsureNotUnderReview
    BY <2>1, <2>2 DEF EnsureNotUnderReview
  <2>3. CASE EditWords
    <3>1. words < MaxWords
      BY <2>3 DEF EditWords, ReviewInv, VerdictsRuled
    <3> QED BY <2>1, <2>3, <3>1, ReviewAssumption DEF EditWords
  <2>4. CASE RerunBegins
    BY <2>1, <2>4, ReviewAssumption DEF RerunBegins
  <2>5. CASE RerunEnds
    BY <2>1, <2>5 DEF RerunEnds
  <2> QED BY <2>2, <2>3, <2>4, <2>5
<1>3. ReviewTypeOK'
  BY <1>1, <1>2 DEF ReviewInv, ReviewTypeOK
<1>4. editor' = "allowed" => words' < MaxWords
  BY DEF ReviewInv, VerdictsRuled, EnsureNotUnderReview, EditWords, RerunBegins, RerunEnds
<1> QED BY <1>1, <1>3, <1>4 DEF ReviewInv, VerdictsRuled, OpenAppeals

LEMMA ReviewStep == ASSUME ReviewInv, [ReviewNext]_reviewVars PROVE ReviewInv'
<1>1. CASE UNCHANGED reviewVars
  BY <1>1 DEF reviewVars, ReviewInv, ReviewTypeOK, VerdictsRuled, OpenAppeals
<1>2. CASE ReviewNext
  <2>1. \A p \in Reviewers : ResolveAppeal(p) => p \in Management
    BY DEF ResolveAppeal
  <2> QED BY <1>2, <2>1, OpeningKeeps, DraftingKeeps, PublishingKeeps, AppealsKeep,
             MeanwhileKeeps DEF ReviewNext
<1> QED BY <1>1, <1>2

(* The verdict that begins to be in force is of the analysis as it is now.    *)
LEMMA VerdictSeen ==
  ASSUME ReviewInv, [ReviewNext]_reviewVars, review'.active \notin {0, review.active}
  PROVE  verdicts[review'.active].of = source.run
<1>1. ASSUME NEW p \in Reviewers, PublishVerdict(p)
      PROVE  verdicts[review'.active].of = source.run
  <2>1. PICK i \in DraftsOf(p) :
          /\ MayPublish(p, i)
          /\ review' = [review EXCEPT !.active = i,
                          !.status = IF Given = 1 THEN "resolved" ELSE "published"]
    BY <1>1 DEF PublishVerdict
  <2>2. review'.active = i
    BY <2>1 DEF ReviewInv, ReviewTypeOK
  <2> QED BY <2>1, <2>2 DEF MayPublish, SourceKept
<1>2. ASSUME NEW p \in Reviewers, ResolveAppeal(p) PROVE FALSE
  <2>1. PICK a \in OpenAppeals, r \in {0} \cup VerdictsIn({"published"}) :
          /\ r # appeals[a].on
          /\ review' = [review EXCEPT !.status = "resolved",
                                      !.active = IF r = 0 THEN @ ELSE r]
    BY <1>2 DEF ResolveAppeal
  <2>2. r = 0
    BY <2>1 DEF ReviewInv, VerdictsRuled, VerdictsIn
  <2>3. review'.active = review.active
    BY <2>1, <2>2 DEF ReviewInv, ReviewTypeOK
  <2> QED BY <2>3
<1>3. ASSUME \/ UNCHANGED reviewVars
             \/ EnsureNotUnderReview \/ EditWords \/ RerunBegins \/ RerunEnds
             \/ \E p \in Reviewers : ReadReview(p) \/ DiscardDraft(p)
      PROVE  FALSE
  BY <1>3 DEF reviewVars, EnsureNotUnderReview, EditWords, RerunBegins, RerunEnds,
     ReadReview, DiscardDraft
<1>4. ASSUME \/ \E p \in Reviewers : \/ \E a \in Reviewers \cup {Nobody} : CreateReview(p, a)
                                     \/ ClaimReview(p) \/ SaveDraft(p)
             \/ \E p \in Counted : ChallengeAnalysis(p) \/ CreateAppeal(p)
      PROVE  FALSE
  <2>1. review \in [status : ReviewStatus, assignee : Reviewers \cup {Nobody},
                   active : 0 .. Len(verdicts), revision : 0 .. MaxWords]
    BY DEF ReviewInv, ReviewTypeOK
  <2>2. review'.active \in {0, review.active}
    <3>1. ASSUME NEW p \in Reviewers, NEW a \in Reviewers \cup {Nobody}, CreateReview(p, a)
          PROVE  review'.active = 0
      BY <3>1 DEF CreateReview, ReviewRow
    <3>2. ASSUME NEW p \in Reviewers, ClaimReview(p) \/ SaveDraft(p)
          PROVE  review'.active = review.active
      BY <2>1, <3>2 DEF ClaimReview, SaveDraft
    <3>3. ASSUME NEW p \in Counted, ChallengeAnalysis(p)
          PROVE  review'.active \in {0, review.active}
      <4>1. CASE review.active = 0
        BY <3>3, <4>1 DEF ChallengeAnalysis, ReviewRow
      <4>2. CASE review.active # 0
        <5>1. review' = [review EXCEPT !.status = "appealed", !.assignee = Nobody]
          BY <3>3, <4>2 DEF ChallengeAnalysis
        <5> QED BY <2>1, <5>1
      <4> QED BY <4>1, <4>2
    <3>4. ASSUME NEW p \in Counted, CreateAppeal(p)
          PROVE  review'.active = review.active
      BY <2>1, <3>4 DEF CreateAppeal
    <3> QED BY <1>4, <3>1, <3>2, <3>3, <3>4
  <2> QED BY <2>2
<1> QED BY <1>1, <1>2, <1>3, <1>4 DEF ReviewNext

(* However reviewers draft, publish, appeal and are overruled, one verdict is *)
(* in force and it is the active one (service.go:683, storage.go:398).        *)
THEOREM OneVerdictIsInForce == ReviewSpec => []OneVerdictInForce
<1>1. ReviewInit => ReviewInv
  BY ReviewBegins
<1>2. ReviewInv /\ [ReviewNext]_reviewVars => ReviewInv'
  BY ReviewStep
<1>3. ReviewInv => OneVerdictInForce
  BY RuledIsRight
<1> QED BY <1>1, <1>2, <1>3, PTL DEF ReviewSpec

(* A call gets at most two verdicts, of two people, for any reviewers         *)
(* (service.go:620, 632).                                                     *)
THEOREM SecondOpinionsAreAnothers == ReviewSpec => []SecondOpinionIsAnothers
<1>1. ReviewInit => ReviewInv
  BY ReviewBegins
<1>2. ReviewInv /\ [ReviewNext]_reviewVars => ReviewInv'
  BY ReviewStep
<1>3. ReviewInv => SecondOpinionIsAnothers
  BY RuledIsRight
<1> QED BY <1>1, <1>2, <1>3, PTL DEF ReviewSpec

(* No verdict takes effect on an analysis its author did not see, however     *)
(* often the analysis is made again (service.go:641).                         *)
THEOREM VerdictsAreOfSeenAnalyses == ReviewSpec => VerdictOfSeenAnalysis
<1>1. ReviewInit => ReviewInv
  BY ReviewBegins
<1>2. ReviewInv /\ [ReviewNext]_reviewVars => ReviewInv'
  BY ReviewStep
<1>3. ReviewInv /\ [ReviewNext]_reviewVars
        => [review'.active \notin {0, review.active}
              => verdicts[review'.active].of = source.run]_reviewVars
  BY VerdictSeen
<1> QED BY <1>1, <1>2, <1>3, PTL DEF ReviewSpec, VerdictOfSeenAnalysis

-----------------------------------------------------------------------------
(* What a company's life and the plans are. *)
LivesTyped ==
  /\ life \in [Companies -> {"none", "active", "frozen", "soft_deleted"}]
  /\ planned \subseteq People

LEMMA LivesStep ==
  ASSUME SeatInv, LivesTyped, [OwnershipNext]_ownershipVars PROVE LivesTyped'
<1> USE DEF LivesTyped
<1>1. CASE UNCHANGED ownershipVars
  BY <1>1 DEF ownershipVars
<1>2. ASSUME NEW p \in People, BuyPlan(p) PROVE LivesTyped'
  BY <1>2 DEF BuyPlan
<1>3. ASSUME NEW c \in Companies,
             \/ FreezeCompany(c) \/ ActivateCompany(c)
             \/ SoftDeleteExpired(c) \/ RestoreSoftDeleted(c)
      PROVE  LivesTyped'
  BY <1>3 DEF FreezeCompany, ActivateCompany, SoftDeleteExpired, RestoreSoftDeleted
<1>4. ASSUME NEW c \in Companies, NEW p \in People, CreateCompany(c, p) PROVE LivesTyped'
  BY <1>4 DEF CreateCompany
<1>5. ASSUME NEW c \in Companies, NEW p \in People,
             EndMembership(c, p) \/ AssignDeputy(c, p) \/ RevokeDeputy(c, p)
      PROVE  LivesTyped'
  BY <1>5 DEF EndMembership, AssignDeputy, RevokeDeputy
<1>6. CASE InvitationNext
  BY <1>6 DEF InvitationNext, CheckInvitation, InsertInvitation, AcceptInvitation, CloseInvitation
<1>7. ASSUME NEW o \in offers, AcceptOffer(o) PROVE LivesTyped'
  <2>1. o.to \in People
    BY OfferFields DEF SeatInv, TableShapes
  <2> QED BY <1>7, <2>1 DEF AcceptOffer
<1>8. CASE OfferNext
  BY <1>7, <1>8 DEF OfferNext, CheckOffer, InsertOffer, CloseOffer, DropChecked
<1> QED BY <1>1, <1>2, <1>3, <1>4, <1>5, <1>6, <1>8 DEF OwnershipNext

(* The tables of companies, members, invitations and offers keep their        *)
(* columns, for any companies, people and bounds.                             *)
THEOREM CompaniesAreTyped == OwnershipSpec => []OwnershipTypeOK
<1>1. OwnershipInit => SeatInv /\ LivesTyped
  BY SeatInit DEF OwnershipInit, LivesTyped
<1>2. SeatInv /\ LivesTyped /\ [OwnershipNext]_ownershipVars => SeatInv' /\ LivesTyped'
  BY SeatStep, LivesStep
<1>3. SeatInv /\ LivesTyped => OwnershipTypeOK
  BY DEF SeatInv, TableShapes, LivesTyped, OwnershipTypeOK
<1> QED BY <1>1, <1>2, <1>3, PTL DEF OwnershipSpec

(* An action, its assignee and what those who work on it hold keep their      *)
(* columns, for any people, requests and workers.                             *)
THEOREM ActionsAreTyped == CallActionsSpec => []CallActionsTypeOK
<1>1. CallActionsInit => ActionInv
  BY ActionBegins
<1>2. ActionInv /\ [CallActionsNext]_actionVars => ActionInv'
  BY ActionStep
<1>3. ActionInv => CallActionsTypeOK
  BY DEF ActionInv
<1> QED BY <1>1, <1>2, <1>3, PTL DEF CallActionsSpec

(* The row of a call, its files, its manifest and what those who make and     *)
(* delete files hold keep their columns, for any files and workers.           *)
THEOREM PurgesAreTyped == PurgeSpec => []PurgeTypeOK
<1>1. PurgeInit => PurgeInv
  BY PurgeBegins
<1>2. PurgeInv /\ [PurgeNext]_purgeVars => PurgeInv'
  BY PurgeStep
<1>3. PurgeInv => PurgeTypeOK
  BY DEF PurgeInv
<1> QED BY <1>1, <1>2, <1>3, PTL DEF PurgeSpec

(* A review, its verdicts and appeals keep their columns and their bounds,    *)
(* for any reviewers, analyses and words.                                     *)
THEOREM ReviewsAreTyped == ReviewSpec => []ReviewTypeOK
<1>1. ReviewInit => ReviewInv
  BY ReviewBegins
<1>2. ReviewInv /\ [ReviewNext]_reviewVars => ReviewInv'
  BY ReviewStep
<1>3. ReviewInv => ReviewTypeOK
  BY DEF ReviewInv
<1> QED BY <1>1, <1>2, <1>3, PTL DEF ReviewSpec

-----------------------------------------------------------------------------
(* Sessions.  A token of the future is nobody's yet, so a rotation writes a   *)
(* hash no other row has; a token that was answered is no longer any row's    *)
(* hash, so it is not answered twice; and an access token never has a later   *)
(* version than its session, so that the new version a change of the role     *)
(* writes outdates it.                                                        *)

CallerShape == [pc : CallerSteps, token : Tokens \cup {NoToken},
                session : Logins \cup {NoLogin}, version : 1 .. MaxVersion,
                voided : SUBSET Links]
AccessShape == [session : Logins, version : 1 .. MaxVersion, role : Roles]

(* The rows and what requests hold have their shape. *)
Shapes ==
  /\ sessionRow \in [Logins -> SessionRow]
  /\ nextToken \in Nat \ {0}
  /\ userRole \in Roles
  /\ caller \in [Callers -> CallerShape]
  /\ access \subseteq AccessShape
  /\ successors \subseteq Nat \X Nat

(* Tokens come in order, and no two sessions share one. *)
HashesOwn ==
  /\ \A s \in Logins : sessionRow[s].hash < nextToken
  /\ \A s, t \in Logins : sessionRow[s].hash # NoToken /\ sessionRow[s].hash = sessionRow[t].hash
                            => s = t
  /\ \A s \in Logins : LiveSession(s) => sessionRow[s].hash # NoToken

(* A token with a successor is spent. *)
Spent ==
  /\ \A p \in successors : p[1] < nextToken
  /\ \A p \in successors, s \in Logins : sessionRow[s].hash # p[1]
  /\ \A p, q \in successors : p[1] = q[1] => p = q

(* A session that an access token names was opened, at a version no earlier. *)
Dated(s, version) == sessionRow[s].status # "none" /\ version <= sessionRow[s].version

VersionsDated ==
  /\ \A a \in access : Dated(a.session, a.version)
  /\ \A c \in Callers : CallerAt(c, "issue")
       => caller[c].session \in Logins /\ Dated(caller[c].session, caller[c].version)

SessionsInv == Shapes /\ HashesOwn /\ Spent /\ VersionsDated /\ AccessHasPresentRole

LEMMA SessionsBegin == ASSUME SessionsInit PROVE SessionsInv
<1>1. Shapes
  <2>1. Session("none", NoToken, NoToken, FALSE, 1) \in SessionRow
    BY SessionsAssumption DEF Session, SessionRow
  <2>2. Quiet \in CallerShape
    BY SessionsAssumption DEF Quiet, CallerSteps, CallerShape
  <2>3. sessionRow \in [Logins -> SessionRow] /\ caller \in [Callers -> CallerShape]
    BY <2>1, <2>2 DEF SessionsInit
  <2>4. nextToken \in Nat \ {0} /\ access = {} /\ successors = {} /\ userRole \in Roles
    BY DEF SessionsInit
  <2> QED BY <2>3, <2>4 DEF Shapes
<1>2. HashesOwn
  BY DEF SessionsInit, HashesOwn, Session, NoToken, LiveSession
<1>3. Spent
  BY DEF SessionsInit, Spent
<1>4. VersionsDated
  BY DEF SessionsInit, VersionsDated, CallerAt, Quiet
<1>5. AccessHasPresentRole
  BY DEF SessionsInit, AccessHasPresentRole
<1> QED BY <1>1, <1>2, <1>3, <1>4, <1>5 DEF SessionsInv

-----------------------------------------------------------------------------
(* What most steps do to the rows: nothing a promise rests on but endings,   *)
(* and versions that go up.                                                  *)
Calmer ==
  /\ sessionRow' \in [Logins -> SessionRow]
  /\ \A s \in Logins :
       /\ sessionRow'[s].hash = sessionRow[s].hash
       /\ sessionRow'[s].version \in Nat /\ sessionRow'[s].version >= sessionRow[s].version
       /\ sessionRow[s].status # "none" => sessionRow'[s].status # "none"
       /\ sessionRow'[s].status = "live" => sessionRow[s].status = "live"
  /\ UNCHANGED <<nextToken, access, successors>>

(* A step of that kind keeps the invariant, if the role is as it was or the  *)
(* versions of the sessions that live go up with it.                         *)
LEMMA CalmerKeeps ==
  ASSUME SessionsInv, Calmer, Shapes',
         \A c \in Callers : caller'[c].pc = "issue" => caller'[c] = caller[c],
         \/ UNCHANGED userRole
         \/ \A s \in Logins : sessionRow'[s].status = "live"
                                => sessionRow'[s].version > sessionRow[s].version
  PROVE  SessionsInv'
<1>1. \A s \in Logins : sessionRow[s].version \in Nat /\ sessionRow'[s].version \in Nat
  BY DEF SessionsInv, Shapes, SessionRow, Calmer
<1>2. HashesOwn'
  BY DEF SessionsInv, HashesOwn, Calmer, LiveSession
<1>3. Spent'
  BY DEF SessionsInv, Spent, Calmer
<1>4. \A s \in Logins, v \in Nat : Dated(s, v) => Dated(s, v)'
  BY <1>1 DEF Dated, Calmer
<1>5. \A a \in access : a.session \in Logins /\ a.version \in Nat /\ a.role \in Roles
  BY DEF SessionsInv, Shapes, AccessShape
<1>6. ASSUME NEW c \in Callers, caller'[c].pc = "issue"
      PROVE  caller'[c].session \in Logins /\ Dated(caller[c].session, caller[c].version)'
  <2>1. caller'[c] = caller[c]
    BY <1>6
  <2>2. caller[c].session \in Logins /\ Dated(caller[c].session, caller[c].version)
    BY <1>6, <2>1 DEF SessionsInv, VersionsDated, CallerAt
  <2>3. caller[c].version \in Nat
    BY DEF SessionsInv, Shapes, CallerShape
  <2> QED BY <1>4, <2>1, <2>2, <2>3
<1>7. VersionsDated'
  BY <1>4, <1>5, <1>6 DEF SessionsInv, VersionsDated, Calmer, CallerAt
<1>8. ASSUME NEW a \in access, sessionRow'[a.session].status = "live",
             sessionRow'[a.session].version = a.version
      PROVE  a.role = userRole'
  <2>1. a.session \in Logins /\ a.version \in Nat
    BY <1>5
  <2>2. a.version <= sessionRow[a.session].version /\ sessionRow[a.session].status = "live"
    BY <1>8, <2>1 DEF SessionsInv, VersionsDated, Dated, Calmer
  <2>3. sessionRow'[a.session].version >= sessionRow[a.session].version
    BY <2>1 DEF Calmer
  <2>4. sessionRow[a.session].version = a.version
    BY <1>1, <1>8, <2>1, <2>2, <2>3
  <2>5. UNCHANGED userRole
    BY <1>1, <1>8, <2>1, <2>4
  <2> QED BY <2>2, <2>4, <2>5 DEF SessionsInv, AccessHasPresentRole, LiveSession
<1>9. AccessHasPresentRole'
  BY <1>8 DEF AccessHasPresentRole, LiveSession, Calmer
<1> QED BY <1>2, <1>3, <1>7, <1>9 DEF SessionsInv

LEMMA RowFields ==
  ASSUME NEW row \in SessionRow
  PROVE  /\ row.status \in {"none", "live", "revoked", "expired"}
         /\ row.hash \in Nat /\ row.version \in 1 .. MaxVersion
BY SessionsAssumption DEF SessionRow, Tokens, NoToken

(* Rows with one column changed. *)
LEMMA RowWritten ==
  ASSUME NEW row \in SessionRow
  PROVE  /\ \A status \in {"none", "live", "revoked", "expired"} :
              /\ [row EXCEPT !.status = status] \in SessionRow
              /\ [row EXCEPT !.status = status].status = status
              /\ [row EXCEPT !.status = status].hash = row.hash
              /\ [row EXCEPT !.status = status].version = row.version
         /\ [row EXCEPT !.grace = FALSE] \in SessionRow
         /\ [row EXCEPT !.grace = FALSE].status = row.status
         /\ [row EXCEPT !.grace = FALSE].hash = row.hash
         /\ [row EXCEPT !.grace = FALSE].version = row.version
BY DEF SessionRow

(* Ending any of the sessions that live. *)
LEMMA EndedCalm ==
  ASSUME Shapes, NEW S,
         sessionRow' = [s \in Logins |-> IF s \in S /\ LiveSession(s)
                          THEN WithStatus(sessionRow[s], "revoked") ELSE sessionRow[s]]
  PROVE  /\ sessionRow' \in [Logins -> SessionRow]
         /\ \A s \in Logins :
              /\ sessionRow'[s].hash = sessionRow[s].hash
              /\ sessionRow'[s].version = sessionRow[s].version
              /\ sessionRow[s].status # "none" => sessionRow'[s].status # "none"
              /\ sessionRow'[s].status = "live" => sessionRow[s].status = "live"
<1>1. \A s \in Logins : sessionRow[s] \in SessionRow
  BY DEF Shapes
<1>2. ASSUME NEW s \in Logins
      PROVE  /\ WithStatus(sessionRow[s], "revoked") \in SessionRow
             /\ WithStatus(sessionRow[s], "revoked").hash = sessionRow[s].hash
             /\ WithStatus(sessionRow[s], "revoked").version = sessionRow[s].version
             /\ WithStatus(sessionRow[s], "revoked").status = "revoked"
  BY <1>1, RowWritten DEF WithStatus
<1>3. sessionRow' \in [Logins -> SessionRow]
  BY <1>1, <1>2
<1> QED BY <1>2, <1>3

(* A step that writes no row. *)
LEMMA RowsUntouched ==
  ASSUME Shapes, UNCHANGED <<sessionRow, nextToken, access, successors>>
  PROVE  Calmer
BY RowFields DEF Shapes, Calmer

-----------------------------------------------------------------------------
(* What requests hold *)

LEMMA CallerFields ==
  ASSUME NEW held \in CallerShape
  PROVE  /\ held.pc \in CallerSteps /\ held.session \in Logins \cup {NoLogin}
         /\ held.token \in Tokens \cup {NoToken}
         /\ held.version \in 1 .. MaxVersion /\ held.voided \in SUBSET Links
BY DEF CallerShape

LEMMA CallerWritten ==
  ASSUME NEW held \in CallerShape
  PROVE  /\ \A pc \in CallerSteps : /\ [held EXCEPT !.pc = pc] \in CallerShape
                                    /\ [held EXCEPT !.pc = pc].pc = pc
         /\ \A s \in Logins : /\ [held EXCEPT !.pc = "revoke", !.session = s] \in CallerShape
                              /\ [held EXCEPT !.pc = "revoke", !.session = s].pc = "revoke"
BY DEF CallerShape, CallerSteps

LEMMA QuietHeld == Quiet \in CallerShape /\ Quiet.pc = "idle"
BY SessionsAssumption DEF Quiet, CallerShape, CallerSteps

LEMMA RotateWritten ==
  ASSUME NEW t \in Tokens, NEW held, held = [Quiet EXCEPT !.pc = "rotate", !.token = t]
  PROVE  held \in CallerShape /\ held.pc = "rotate"
<1>1. held = [pc |-> "rotate", token |-> t, session |-> NoLogin, version |-> 1, voided |-> {}]
  BY DEF Quiet
<1> QED BY <1>1, SessionsAssumption DEF CallerShape, CallerSteps

LEMMA InsertWritten ==
  ASSUME NEW L \in SUBSET Links, NEW held,
         held = [Quiet EXCEPT !.pc = "insert", !.voided = L]
  PROVE  held \in CallerShape /\ held.pc = "insert"
<1>1. held = [pc |-> "insert", token |-> NoToken, session |-> NoLogin, version |-> 1, voided |-> L]
  BY DEF Quiet
<1> QED BY <1>1, SessionsAssumption DEF CallerShape, CallerSteps

LEMMA IssueWritten ==
  ASSUME NEW s \in Logins, NEW v \in 1 .. MaxVersion, NEW held,
         held = [Quiet EXCEPT !.pc = "issue", !.session = s, !.version = v]
  PROVE  held = [pc |-> "issue", token |-> NoToken, session |-> s, version |-> v, voided |-> {}]
BY DEF Quiet

(* A request that goes on, and does not hold a rotated session after it. *)
LEMMA CallerMoves ==
  ASSUME Shapes, NEW c \in Callers, NEW held \in CallerShape, held.pc # "issue",
         caller' = [caller EXCEPT ![c] = held]
  PROVE  /\ caller' \in [Callers -> CallerShape]
         /\ \A d \in Callers : caller'[d].pc = "issue" => caller'[d] = caller[d]
BY DEF Shapes

LEMMA CallerOnly ==
  ASSUME SessionsInv, NEW c \in Callers, NEW held \in CallerShape, held.pc # "issue",
         caller' = [caller EXCEPT ![c] = held],
         UNCHANGED <<sessionRow, nextToken, userRole, access, successors>>
  PROVE  SessionsInv'
<1>1. Calmer
  BY RowsUntouched DEF SessionsInv
<1>2. /\ caller' \in [Callers -> CallerShape]
      /\ \A d \in Callers : caller'[d].pc = "issue" => caller'[d] = caller[d]
  BY CallerMoves DEF SessionsInv
<1>3. Shapes'
  BY <1>2 DEF SessionsInv, Shapes
<1> QED BY <1>1, <1>2, <1>3, CalmerKeeps

LEMMA PlainCallers ==
  ASSUME SessionsInv, NEW c \in Callers,
         \/ ComparePassword(c) \/ ClassifyPreviousToken(c) \/ VoidLinks(c) \/ StoreLink(c)
         \/ \E t \in Tokens : GetRefreshSessionByHash(c, t)
  PROVE  SessionsInv'
<1>1. caller[c] \in CallerShape /\ caller \in [Callers -> CallerShape]
  BY DEF SessionsInv, Shapes
<1>2. CASE ComparePassword(c)
  <2>1. caller' = [caller EXCEPT ![c] = [caller[c] EXCEPT !.pc = "create"]]
    BY <1>2 DEF ComparePassword, CallerGoes
  <2>2. /\ [caller[c] EXCEPT !.pc = "create"] \in CallerShape
        /\ [caller[c] EXCEPT !.pc = "create"].pc # "issue"
    BY <1>1, CallerWritten DEF CallerSteps
  <2> QED BY <1>2, <2>1, <2>2, CallerOnly DEF ComparePassword
<1>3. CASE ClassifyPreviousToken(c)
  <2>1. UNCHANGED <<sessionRow, nextToken, userRole, access, successors>>
    BY <1>3 DEF ClassifyPreviousToken
  <2>2. CASE CallerRests(c)
    BY <2>1, <2>2, QuietHeld, CallerOnly DEF CallerRests
  <2>3. CASE ~CallerRests(c)
    <3>1. PICK s \in Logins : caller' = [caller EXCEPT ![c].pc = "revoke", ![c].session = s]
      BY <1>3, <2>3 DEF ClassifyPreviousToken
    <3>2. caller' = [caller EXCEPT ![c] = [caller[c] EXCEPT !.pc = "revoke", !.session = s]]
      BY <1>1, <3>1
    <3>3. /\ [caller[c] EXCEPT !.pc = "revoke", !.session = s] \in CallerShape
          /\ [caller[c] EXCEPT !.pc = "revoke", !.session = s].pc # "issue"
      BY <1>1, CallerWritten
    <3> QED BY <2>1, <3>2, <3>3, CallerOnly
  <2> QED BY <2>2, <2>3
<1>4. CASE VoidLinks(c)
  <2>1. PICK L \in SUBSET Links :
          caller' = [caller EXCEPT ![c] = [Quiet EXCEPT !.pc = "insert", !.voided = L]]
    BY <1>4 DEF VoidLinks
  <2>2. /\ [Quiet EXCEPT !.pc = "insert", !.voided = L] \in CallerShape
        /\ [Quiet EXCEPT !.pc = "insert", !.voided = L].pc # "issue"
    BY InsertWritten
  <2>3. UNCHANGED <<sessionRow, nextToken, userRole, access, successors>>
    BY <1>4 DEF VoidLinks
  <2> QED BY <2>1, <2>2, <2>3, CallerOnly
<1>5. CASE StoreLink(c)
  BY <1>5, QuietHeld, CallerOnly DEF StoreLink, CallerRests
<1>6. ASSUME NEW t \in Tokens, GetRefreshSessionByHash(c, t) PROVE SessionsInv'
  <2>1. /\ [Quiet EXCEPT !.pc = "rotate", !.token = t] \in CallerShape
        /\ [Quiet EXCEPT !.pc = "rotate", !.token = t].pc # "issue"
    BY RotateWritten
  <2> QED BY <1>6, <2>1, CallerOnly DEF GetRefreshSessionByHash
<1> QED BY <1>2, <1>3, <1>4, <1>5, <1>6

-----------------------------------------------------------------------------
(* Steps that write rows and nothing a request holds *)

(* What such a step may do to the rows. *)
RowsCalm ==
  /\ sessionRow' \in [Logins -> SessionRow]
  /\ \A s \in Logins :
       /\ sessionRow'[s].hash = sessionRow[s].hash
       /\ sessionRow'[s].version >= sessionRow[s].version
       /\ sessionRow[s].status # "none" => sessionRow'[s].status # "none"
       /\ sessionRow'[s].status = "live" => sessionRow[s].status = "live"

LEMMA CalmRowsKeep ==
  ASSUME SessionsInv, RowsCalm,
         UNCHANGED <<nextToken, userRole, access, successors>>,
         caller' \in [Callers -> CallerShape],
         \A c \in Callers : caller'[c].pc = "issue" => caller'[c] = caller[c]
  PROVE  SessionsInv'
<1>1. \A s \in Logins : sessionRow'[s].version \in Nat
  BY RowFields DEF RowsCalm
<1>2. Calmer
  BY <1>1 DEF RowsCalm, Calmer
<1>3. Shapes'
  BY DEF SessionsInv, Shapes, RowsCalm
<1> QED BY <1>2, <1>3, CalmerKeeps

(* One row written. *)
LEMMA OneRowCalm ==
  ASSUME Shapes, NEW s \in Logins, NEW row \in SessionRow,
         row.hash = sessionRow[s].hash, row.version = sessionRow[s].version,
         row.status # "none", row.status = "live" => sessionRow[s].status = "live",
         sessionRow' = [sessionRow EXCEPT ![s] = row]
  PROVE  RowsCalm
<1>1. \A t \in Logins : sessionRow[t] \in SessionRow /\ sessionRow[t].version \in Nat
  BY RowFields DEF Shapes
<1>2. sessionRow' \in [Logins -> SessionRow]
  BY DEF Shapes
<1>3. \A t \in Logins : sessionRow'[t] = IF t = s THEN row ELSE sessionRow[t]
  BY DEF Shapes
<1> QED BY <1>1, <1>2, <1>3 DEF RowsCalm

LEMMA RevokeReusedKeeps ==
  ASSUME SessionsInv, NEW c \in Callers, RevokeReused(c)
  PROVE  SessionsInv'
<1> DEFINE s == caller[c].session
<1>1. UNCHANGED <<nextToken, userRole, access, successors>> /\ caller' = [caller EXCEPT ![c] = Quiet]
  BY DEF RevokeReused, CallerRests
<1>2. /\ caller' \in [Callers -> CallerShape]
      /\ \A d \in Callers : caller'[d].pc = "issue" => caller'[d] = caller[d]
  BY <1>1, QuietHeld, CallerMoves DEF SessionsInv
<1>3. CASE ReusedStill(c) /\ s \in Logins
  <2>1. sessionRow[s] \in SessionRow
    BY <1>3 DEF SessionsInv, Shapes
  <2>2. sessionRow' = [sessionRow EXCEPT ![s] = [sessionRow[s] EXCEPT !.status = "revoked"]]
    BY <1>3 DEF RevokeReused, SessionsInv, Shapes
  <2>3. RowsCalm
    BY <1>3, <2>1, <2>2, RowWritten, OneRowCalm DEF SessionsInv
  <2> QED BY <1>1, <1>2, <2>3, CalmRowsKeep
<1>4. CASE ~(ReusedStill(c) /\ s \in Logins)
  <2>1. sessionRow' = sessionRow
    BY <1>4 DEF RevokeReused, SessionsInv, Shapes
  <2>2. UNCHANGED <<sessionRow, nextToken, userRole, access, successors>>
    BY <1>1, <2>1
  <2> QED BY <1>1, <2>2, QuietHeld, CallerOnly
<1> QED BY <1>3, <1>4

LEMMA GraceKeeps ==
  ASSUME SessionsInv, NEW s \in Logins, GraceEnds(s) \/ SessionExpires(s)
  PROVE  SessionsInv'
<1>1. sessionRow[s] \in SessionRow /\ sessionRow \in [Logins -> SessionRow]
  BY DEF SessionsInv, Shapes
<1>2. CASE GraceEnds(s)
  <2> DEFINE row == [sessionRow[s] EXCEPT !.grace = FALSE]
  <2>1. sessionRow' = [sessionRow EXCEPT ![s] = row]
    BY <1>1, <1>2 DEF GraceEnds
  <2>2. /\ row \in SessionRow /\ row.status = sessionRow[s].status
        /\ row.hash = sessionRow[s].hash /\ row.version = sessionRow[s].version
    BY <1>1, RowWritten
  <2> HIDE DEF row
  <2>3. /\ sessionRow' \in [Logins -> SessionRow]
        /\ \A t \in Logins : /\ sessionRow'[t].hash = sessionRow[t].hash
                            /\ sessionRow'[t].version = sessionRow[t].version
                            /\ sessionRow'[t].status = sessionRow[t].status
    BY <1>1, <2>1, <2>2
  <2>4. \A t \in Logins : sessionRow[t].version \in Nat
    BY <1>1, RowFields
  <2>5. RowsCalm
    BY <2>3, <2>4 DEF RowsCalm
  <2> QED BY <1>2, <2>5, CalmRowsKeep DEF GraceEnds, SessionsInv, Shapes
<1>3. CASE SessionExpires(s)
  <2>1. sessionRow' = [sessionRow EXCEPT ![s] = [sessionRow[s] EXCEPT !.status = "expired"]]
    BY <1>1, <1>3 DEF SessionExpires
  <2>2. RowsCalm
    BY <1>1, <2>1, RowWritten, OneRowCalm DEF SessionsInv
  <2> QED BY <1>3, <2>2, CalmRowsKeep DEF SessionExpires, SessionsInv, Shapes
<1> QED BY <1>2, <1>3

LEMMA EndsKeep ==
  ASSUME SessionsInv,
         \/ LogoutAll
         \/ \E s \in Logins : Logout(s) \/ RevokeOtherSessions(s)
  PROVE  SessionsInv'
<1>1. PICK S : RevokeAll(S)
  BY DEF LogoutAll, Logout, RevokeOtherSessions
<1>2. UNCHANGED <<nextToken, userRole, caller, access, successors>>
  BY DEF LogoutAll, Logout, RevokeOtherSessions
<1>3. \A s \in Logins : sessionRow[s].version \in Nat
  BY RowFields DEF SessionsInv, Shapes
<1>4. /\ sessionRow' \in [Logins -> SessionRow]
      /\ \A s \in Logins :
           /\ sessionRow'[s].hash = sessionRow[s].hash
           /\ sessionRow'[s].version = sessionRow[s].version
           /\ sessionRow[s].status # "none" => sessionRow'[s].status # "none"
           /\ sessionRow'[s].status = "live" => sessionRow[s].status = "live"
  <2>1. Shapes
    BY DEF SessionsInv
  <2> QED BY <1>1, <2>1, EndedCalm DEF RevokeAll
<1>5. RowsCalm
  BY <1>3, <1>4 DEF RowsCalm
<1> QED BY <1>2, <1>5, CalmRowsKeep DEF SessionsInv, Shapes

LEMMA ResetKeeps ==
  ASSUME SessionsInv, NEW l \in Links, ConfirmReset(l)
  PROVE  SessionsInv'
<1> DEFINE Over(row) == [row EXCEPT !.status = "revoked",
                                    !.version = IF @ < MaxVersion THEN @ + 1 ELSE @]
<1>1. ASSUME NEW row \in SessionRow
      PROVE  /\ Over(row) \in SessionRow /\ Over(row).hash = row.hash
             /\ Over(row).status = "revoked" /\ Over(row).version >= row.version
  <2>1. row.version \in 1 .. MaxVersion
    BY RowFields
  <2> DEFINE v == IF row.version < MaxVersion THEN row.version + 1 ELSE row.version
  <2>2. v \in 1 .. MaxVersion /\ v >= row.version
    BY <2>1, SessionsAssumption
  <2>3. Over(row) = [row EXCEPT !.status = "revoked", !.version = v]
    OBVIOUS
  <2> HIDE DEF v
  <2>4. /\ [row EXCEPT !.status = "revoked", !.version = v] \in SessionRow
        /\ [row EXCEPT !.status = "revoked", !.version = v].hash = row.hash
        /\ [row EXCEPT !.status = "revoked", !.version = v].status = "revoked"
        /\ [row EXCEPT !.status = "revoked", !.version = v].version = v
    BY <2>2 DEF SessionRow
  <2> HIDE DEF Over
  <2> QED BY <2>2, <2>3, <2>4
<1>2. sessionRow' = [s \in Logins |-> IF LiveSession(s) THEN Over(sessionRow[s]) ELSE sessionRow[s]]
  BY DEF ConfirmReset
<1>3. \A s \in Logins : sessionRow[s] \in SessionRow /\ sessionRow[s].version \in Nat
  BY RowFields DEF SessionsInv, Shapes
<1> HIDE DEF Over
<1>4. sessionRow' \in [Logins -> SessionRow]
  BY <1>1, <1>2, <1>3
<1>5. RowsCalm
  BY <1>1, <1>2, <1>3, <1>4 DEF RowsCalm
<1> QED BY <1>5, CalmRowsKeep DEF ConfirmReset, SessionsInv, Shapes

LEMMA RoleKeeps ==
  ASSUME SessionsInv, NEW role \in Roles, ChangeRole(role)
  PROVE  SessionsInv'
<1> DEFINE Up(row) == [row EXCEPT !.version = @ + 1]
<1>1. ASSUME NEW row \in SessionRow, row.version < MaxVersion
      PROVE  /\ Up(row) \in SessionRow /\ Up(row).hash = row.hash
             /\ Up(row).status = row.status /\ Up(row).version = row.version + 1
  <2>1. row.version \in 1 .. MaxVersion
    BY RowFields
  <2> DEFINE v == row.version + 1
  <2>2. v \in 1 .. MaxVersion
    BY <1>1, <2>1, SessionsAssumption
  <2>3. Up(row) = [row EXCEPT !.version = v]
    OBVIOUS
  <2> HIDE DEF v
  <2>4. /\ [row EXCEPT !.version = v] \in SessionRow
        /\ [row EXCEPT !.version = v].hash = row.hash
        /\ [row EXCEPT !.version = v].status = row.status
        /\ [row EXCEPT !.version = v].version = v
    BY <2>2 DEF SessionRow
  <2> QED BY <2>3, <2>4 DEF v
<1>2. sessionRow' = [s \in Logins |-> IF LiveSession(s) THEN Up(sessionRow[s]) ELSE sessionRow[s]]
  BY DEF ChangeRole
<1>3. \A s \in Logins : /\ sessionRow[s] \in SessionRow /\ sessionRow[s].version \in Nat
                       /\ sessionRow[s].version < MaxVersion
  BY RowFields DEF SessionsInv, Shapes, ChangeRole
<1>4. userRole' \in Roles /\ UNCHANGED <<nextToken, caller, access, successors>>
  BY DEF ChangeRole
<1> HIDE DEF Up
<1>5. sessionRow' \in [Logins -> SessionRow]
  BY <1>1, <1>2, <1>3
<1>6. \A s \in Logins :
        /\ sessionRow'[s].hash = sessionRow[s].hash
        /\ sessionRow'[s].status = sessionRow[s].status
        /\ sessionRow'[s].version = IF LiveSession(s) THEN sessionRow[s].version + 1
                                    ELSE sessionRow[s].version
  BY <1>1, <1>2, <1>3
<1>7. \A s \in Logins : /\ sessionRow'[s].version \in Nat
                       /\ sessionRow'[s].version >= sessionRow[s].version
  BY <1>3, <1>6
<1>8. \A s \in Logins : sessionRow'[s].status = "live"
                           => sessionRow'[s].version > sessionRow[s].version
  BY <1>3, <1>6 DEF LiveSession
<1>9. Calmer
  BY <1>4, <1>5, <1>6, <1>7 DEF Calmer
<1>10. Shapes'
  BY <1>4, <1>5 DEF SessionsInv, Shapes
<1> QED BY <1>4, <1>8, <1>9, <1>10, CalmerKeeps

-----------------------------------------------------------------------------
(* The three steps that write a promise's data *)

LEMMA CreateKeeps ==
  ASSUME SessionsInv, NEW c \in Callers, CreateRefreshSession(c)
  PROVE  SessionsInv'
<1> DEFINE row == Session("live", nextToken, NoToken, FALSE, 1)
<1>1. PICK s \in Logins : /\ sessionRow[s].status = "none"
                          /\ sessionRow' = [sessionRow EXCEPT ![s] = row]
  BY DEF CreateRefreshSession
<1>2. /\ nextToken \in Tokens /\ nextToken' = nextToken + 1
      /\ UNCHANGED <<userRole, access, successors>> /\ caller' = [caller EXCEPT ![c] = Quiet]
  BY SessionsAssumption DEF CreateRefreshSession, CallerRests, SessionsInv, Shapes, Tokens
<1>3. row \in SessionRow /\ row.hash = nextToken /\ row.status = "live"
  BY <1>2, SessionsAssumption DEF Session, SessionRow
<1>4. sessionRow \in [Logins -> SessionRow] /\ nextToken \in Nat \ {0}
  BY DEF SessionsInv, Shapes
<1> HIDE DEF row
<1>5. /\ sessionRow' \in [Logins -> SessionRow]
      /\ \A t \in Logins : sessionRow'[t] = IF t = s THEN row ELSE sessionRow[t]
  BY <1>1, <1>3, <1>4
<1>6. \A t \in Logins : sessionRow[t].hash \in Nat
  BY <1>4, RowFields
<1>7. /\ caller' \in [Callers -> CallerShape]
      /\ \A d \in Callers : caller'[d].pc = "issue" => caller'[d] = caller[d]
  BY <1>2, QuietHeld, CallerMoves DEF SessionsInv
<1>8. Shapes'
  BY <1>2, <1>4, <1>5, <1>7 DEF SessionsInv, Shapes
<1>9. HashesOwn'
  BY <1>2, <1>3, <1>4, <1>5, <1>6 DEF SessionsInv, HashesOwn, LiveSession, NoToken
<1>10. Spent'
  BY <1>2, <1>3, <1>4, <1>5, <1>6 DEF SessionsInv, Spent, Shapes
<1>11. ASSUME NEW t \in Logins, NEW v, Dated(t, v)
       PROVE  t # s /\ Dated(t, v)' /\ sessionRow'[t] = sessionRow[t]
  BY <1>1, <1>5, <1>11 DEF Dated
<1>12. ASSUME NEW a \in access
       PROVE  a.session \in Logins /\ Dated(a.session, a.version)
  BY DEF SessionsInv, VersionsDated, Shapes, AccessShape
<1>13. VersionsDated'
  BY <1>2, <1>7, <1>11, <1>12 DEF SessionsInv, VersionsDated, CallerAt
<1>14. AccessHasPresentRole'
  BY <1>2, <1>11, <1>12 DEF SessionsInv, AccessHasPresentRole, LiveSession
<1> QED BY <1>8, <1>9, <1>10, <1>13, <1>14 DEF SessionsInv

LEMMA RotateKeeps ==
  ASSUME SessionsInv, NEW c \in Callers, RotateRefreshSession(c)
  PROVE  SessionsInv'
<1> DEFINE old == caller[c].token
<1>1. CASE \A s \in Logins : ~Rotatable(s, old)
  <2>1. caller' = [caller EXCEPT ![c] = [caller[c] EXCEPT !.pc = "classify"]]
    BY <1>1 DEF RotateRefreshSession, CallerGoes
  <2>2. UNCHANGED <<sessionRow, nextToken, userRole, access, successors>>
    BY <1>1 DEF RotateRefreshSession
  <2>3. caller[c] \in CallerShape
    BY DEF SessionsInv, Shapes
  <2>4. /\ [caller[c] EXCEPT !.pc = "classify"] \in CallerShape
        /\ [caller[c] EXCEPT !.pc = "classify"].pc # "issue"
    BY <2>3, CallerWritten DEF CallerSteps
  <2> QED BY <2>1, <2>2, <2>4, CallerOnly
<1>2. CASE ~ \A s \in Logins : ~Rotatable(s, old)
  <2>1. PICK s \in Logins :
          /\ Rotatable(s, old)
          /\ sessionRow' = [sessionRow EXCEPT ![s] =
               Session("live", nextToken, sessionRow[s].hash, TRUE, sessionRow[s].version)]
          /\ nextToken' = nextToken + 1
          /\ successors' = successors \cup {<<old, nextToken>>}
          /\ caller' = [caller EXCEPT ![c] =
               [Quiet EXCEPT !.pc = "issue", !.session = s, !.version = sessionRow[s].version]]
    BY <1>2 DEF RotateRefreshSession
  <2>2. nextToken \in Tokens /\ nextToken' = nextToken + 1 /\ UNCHANGED <<userRole, access>>
    <3>1. nextToken <= MaxTokens /\ UNCHANGED <<userRole, access>>
      BY DEF RotateRefreshSession
    <3>2. nextToken \in Nat \ {0}
      BY DEF SessionsInv, Shapes
    <3> QED BY <2>1, <3>1, <3>2, SessionsAssumption DEF Tokens
  <2>3. sessionRow[s].status = "live" /\ sessionRow[s].hash = old
    BY <2>1 DEF Rotatable, LiveSession
  <2>4. sessionRow \in [Logins -> SessionRow] /\ nextToken \in Nat \ {0}
    BY DEF SessionsInv, Shapes
  <2>5. /\ sessionRow[s].hash \in Tokens \cup {NoToken} /\ sessionRow[s].version \in 1 .. MaxVersion
    BY <2>4 DEF SessionRow
  <2> DEFINE row == Session("live", nextToken, sessionRow[s].hash, TRUE, sessionRow[s].version)
  <2>6. /\ row \in SessionRow /\ row.hash = nextToken /\ row.status = "live"
        /\ row.version = sessionRow[s].version
    BY <2>2, <2>5 DEF Session, SessionRow
  <2>7. PICK held \in CallerShape :
          /\ held.session = s /\ held.version = sessionRow[s].version
          /\ caller' = [caller EXCEPT ![c] = held]
    <3>1. PICK v \in 1 .. MaxVersion : v = sessionRow[s].version
      BY <2>5
    <3>2. PICK h : /\ h = [Quiet EXCEPT !.pc = "issue", !.session = s, !.version = v]
                   /\ caller' = [caller EXCEPT ![c] = h]
      BY <2>1, <3>1
    <3>3. h = [pc |-> "issue", token |-> NoToken, session |-> s, version |-> v, voided |-> {}]
      BY <3>2, IssueWritten
    <3>4. h \in CallerShape /\ h.session = s /\ h.version = v
      BY <3>3 DEF CallerShape, CallerSteps
    <3> QED BY <3>1, <3>2, <3>4
  <2>8. sessionRow' = [sessionRow EXCEPT ![s] = row]
    BY <2>1
  <2> HIDE DEF row
  <2>9. /\ sessionRow' \in [Logins -> SessionRow]
        /\ \A t \in Logins : sessionRow'[t] = IF t = s THEN row ELSE sessionRow[t]
    BY <2>4, <2>6, <2>8
  <2>10. /\ caller' \in [Callers -> CallerShape]
         /\ \A d \in Callers : caller'[d] = IF d = c THEN held ELSE caller[d]
    BY <2>7 DEF SessionsInv, Shapes
  <2>11. /\ \A t \in Logins : sessionRow[t].hash \in Nat /\ sessionRow[t].version \in Nat
         /\ old \in Nat
    BY <2>3, <2>4, RowFields
  <2> HIDE DEF old
  <2>12. Shapes'
    <3>1. nextToken' \in Nat \ {0} /\ <<old, nextToken>> \in Nat \X Nat
      BY <2>2, <2>4, <2>11
    <3>2. successors' \subseteq Nat \X Nat
      BY <2>1, <3>1 DEF SessionsInv, Shapes
    <3> QED BY <2>2, <2>9, <2>10, <3>1, <3>2 DEF SessionsInv, Shapes
  <2>13. HashesOwn'
    BY <2>2, <2>4, <2>6, <2>9, <2>11 DEF SessionsInv, HashesOwn, LiveSession, NoToken
  <2>14. Spent'
    <3>1. \A p \in successors : p[1] \in Nat /\ p[1] < nextToken /\ p[1] # old
      BY <2>3 DEF SessionsInv, Spent, Shapes
    <3>2. \A t \in Logins : sessionRow'[t].hash # old
      <4>1. old < nextToken
        BY <2>3 DEF SessionsInv, HashesOwn
      <4>2. old # NoToken
        BY <2>3 DEF SessionsInv, HashesOwn, LiveSession
      <4>3. \A t \in Logins : t # s => sessionRow[t].hash # old
        BY <2>3, <4>2 DEF SessionsInv, HashesOwn
      <4> QED BY <2>4, <2>6, <2>9, <2>11, <4>1, <4>3
    <3>3. \A p \in successors, t \in Logins : sessionRow'[t].hash # p[1]
      BY <2>4, <2>6, <2>9, <3>1 DEF SessionsInv, Spent
    <3>4. \A p \in successors' : p \in successors \/ p = <<old, nextToken>>
      BY <2>1
    <3>5. old < nextToken'
      BY <2>2, <2>3, <2>4, <2>11 DEF SessionsInv, HashesOwn
    <3>6. \A p \in successors' : p[1] < nextToken'
      BY <2>2, <2>4, <3>1, <3>4, <3>5
    <3>7. \A p \in successors', t \in Logins : sessionRow'[t].hash # p[1]
      BY <3>2, <3>3, <3>4
    <3>8. \A p, q \in successors' : p[1] = q[1] => p = q
      BY <3>1, <3>4 DEF SessionsInv, Spent
    <3> QED BY <3>6, <3>7, <3>8 DEF Spent
  <2>15. ASSUME NEW t \in Logins, NEW v
         PROVE  /\ Dated(t, v) => Dated(t, v)'
                /\ sessionRow'[t].version = sessionRow[t].version
                /\ sessionRow'[t].status = sessionRow[t].status
    BY <2>3, <2>6, <2>9 DEF Dated
  <2>16. ASSUME NEW a \in access
         PROVE  a.session \in Logins /\ Dated(a.session, a.version)
    BY DEF SessionsInv, VersionsDated, Shapes, AccessShape
  <2>17. held.session \in Logins /\ Dated(held.session, held.version)'
    BY <2>6, <2>7, <2>9, <2>11 DEF Dated
  <2>18. VersionsDated'
    <3>1. \A a \in access' : Dated(a.session, a.version)'
      BY <2>2, <2>15, <2>16
    <3>2. ASSUME NEW d \in Callers, caller'[d].pc = "issue"
          PROVE  caller'[d].session \in Logins /\ Dated(caller[d].session, caller[d].version)'
      <4>1. CASE d = c
        BY <2>10, <2>17, <4>1 DEF Dated
      <4>2. CASE d # c
        <5>1. caller'[d] = caller[d]
          BY <2>10, <4>2
        <5>2. caller[d].session \in Logins /\ Dated(caller[d].session, caller[d].version)
          BY <3>2, <5>1 DEF SessionsInv, VersionsDated, CallerAt
        <5> QED BY <2>15, <5>1, <5>2 DEF Dated
      <4> QED BY <4>1, <4>2
    <3> QED BY <3>1, <3>2 DEF VersionsDated, CallerAt
  <2>19. AccessHasPresentRole'
    BY <2>2, <2>15, <2>16 DEF SessionsInv, AccessHasPresentRole, LiveSession
  <2> QED BY <2>12, <2>13, <2>14, <2>18, <2>19 DEF SessionsInv
<1> QED BY <1>1, <1>2

LEMMA IssueKeeps ==
  ASSUME SessionsInv, NEW c \in Callers, IssueAccess(c)
  PROVE  SessionsInv'
<1> DEFINE a == [session |-> caller[c].session, version |-> caller[c].version, role |-> userRole]
<1>1. /\ access' = access \cup {a} /\ caller' = [caller EXCEPT ![c] = Quiet]
      /\ UNCHANGED <<sessionRow, nextToken, userRole, successors>>
  BY DEF IssueAccess, CallerRests
<1>2. caller[c].session \in Logins /\ Dated(caller[c].session, caller[c].version)
  BY DEF IssueAccess, SessionsInv, VersionsDated
<1>3. caller[c].version \in 1 .. MaxVersion
  BY CallerFields DEF SessionsInv, Shapes
<1>4. a \in AccessShape /\ Dated(a.session, a.version) /\ a.role = userRole
  BY <1>2, <1>3 DEF AccessShape, SessionsInv, Shapes
<1> HIDE DEF a
<1>5. /\ caller' \in [Callers -> CallerShape]
      /\ \A d \in Callers : caller'[d].pc = "issue" => caller'[d] = caller[d]
  BY <1>1, QuietHeld, CallerMoves DEF SessionsInv
<1>6. Shapes'
  BY <1>1, <1>4, <1>5 DEF SessionsInv, Shapes
<1>7. HashesOwn' /\ Spent'
  BY <1>1 DEF SessionsInv, HashesOwn, Spent, LiveSession
<1>8. \A s, v : Dated(s, v)' <=> Dated(s, v)
  BY <1>1 DEF Dated
<1>9. VersionsDated'
  BY <1>1, <1>4, <1>5, <1>8 DEF SessionsInv, VersionsDated, CallerAt
<1>10. AccessHasPresentRole'
  BY <1>1, <1>4 DEF SessionsInv, AccessHasPresentRole, LiveSession
<1> QED BY <1>6, <1>7, <1>9, <1>10 DEF SessionsInv

LEMMA SessionsStep ==
  ASSUME SessionsInv, [SessionsNext]_sessionsVars PROVE SessionsInv'
<1>1. CASE UNCHANGED sessionsVars
  BY <1>1 DEF sessionsVars, SessionsInv, Shapes, HashesOwn, Spent, VersionsDated, Dated,
              AccessHasPresentRole, LiveSession, CallerAt
<1>2. ASSUME NEW c \in Callers, CallerStep(c) PROVE SessionsInv'
  BY <1>2, PlainCallers, CreateKeeps, RotateKeeps, RevokeReusedKeeps, IssueKeeps DEF CallerStep
<1>3. ASSUME NEW s \in Logins,
             GraceEnds(s) \/ SessionExpires(s) \/ Logout(s) \/ RevokeOtherSessions(s)
      PROVE  SessionsInv'
  BY <1>3, GraceKeeps, EndsKeep
<1> QED BY <1>1, <1>2, <1>3, EndsKeep, RoleKeeps, ResetKeeps DEF SessionsNext

LEMMA SessionsInvariant == SessionsSpec => []SessionsInv
<1>1. SessionsInit => SessionsInv
  BY SessionsBegin
<1>2. SessionsInv /\ [SessionsNext]_sessionsVars => SessionsInv'
  BY SessionsStep
<1> QED BY <1>1, <1>2, PTL DEF SessionsSpec

(* Of the requests that present one refresh token at most one is answered     *)
(* with another, and no two sessions share a token                            *)
(* (rotate_refresh_session.go:15-24).                                         *)
THEOREM OneAnswerPerToken == SessionsSpec => []OneSuccessor
<1>1. SessionsInv => OneSuccessor
  BY DEF SessionsInv, Spent, HashesOwn, OneSuccessor
<1> QED BY <1>1, SessionsInvariant, PTL

(* An access token the middleware still takes carries the role the user has,  *)
(* however refreshes and changes of the role cross (README:34).               *)
THEOREM RolesArePresent == SessionsSpec => []AccessHasPresentRole
<1>1. SessionsInv => AccessHasPresentRole
  BY DEF SessionsInv
<1> QED BY <1>1, SessionsInvariant, PTL
-----------------------------------------------------------------------------
(* Endings are final: every step that writes the row of s finds it live or    *)
(* not yet there, but for the end of its grace.                               *)

IsOver(s) == sessionRow[s].status \in {"revoked", "expired"}
Kept(s) == /\ sessionRow'[s].status = sessionRow[s].status
           /\ sessionRow'[s].hash = sessionRow[s].hash

LEMMA EndedStays ==
  ASSUME Shapes, SessionsNext, NEW s \in Logins, IsOver(s)
  PROVE  Kept(s)
<1>1. ~LiveSession(s) /\ sessionRow[s].status # "none" /\ sessionRow \in [Logins -> SessionRow]
  BY DEF IsOver, LiveSession, Shapes
<1>2. CASE UNCHANGED sessionRow
  BY <1>2 DEF Kept
<1>3. ASSUME NEW t \in Logins, t # s, NEW row, sessionRow' = [sessionRow EXCEPT ![t] = row]
      PROVE  Kept(s)
  BY <1>1, <1>3 DEF Kept
<1>4. ASSUME NEW S, RevokeAll(S) PROVE Kept(s)
  BY <1>1, <1>4 DEF RevokeAll, Kept
<1>5. ASSUME NEW c \in Callers, CallerStep(c) PROVE Kept(s)
  <2>1. CASE CreateRefreshSession(c)
    BY <1>1, <1>3, <2>1 DEF CreateRefreshSession
  <2>2. CASE RotateRefreshSession(c)
    <3>1. CASE \A t \in Logins : ~Rotatable(t, caller[c].token)
      BY <1>2, <2>2, <3>1 DEF RotateRefreshSession
    <3>2. ASSUME NEW t \in Logins, Rotatable(t, caller[c].token)
          PROVE  t # s
      BY <1>1, <3>2 DEF Rotatable
    <3>3. CASE ~ \A t \in Logins : ~Rotatable(t, caller[c].token)
      BY <1>3, <2>2, <3>2, <3>3 DEF RotateRefreshSession
    <3> QED BY <3>1, <3>3
  <2>3. CASE RevokeReused(c)
    <3>1. CASE ReusedStill(c)
      <4>1. caller[c].session # s
        BY <1>1, <3>1 DEF ReusedStill
      <4>2. sessionRow' = [sessionRow EXCEPT ![caller[c].session].status = "revoked"]
        BY <2>3, <3>1 DEF RevokeReused
      <4> QED BY <1>1, <4>1, <4>2 DEF Kept
    <3>2. CASE ~ReusedStill(c)
      BY <1>2, <2>3, <3>2 DEF RevokeReused
    <3> QED BY <3>1, <3>2
  <2> QED BY <1>2, <1>5, <2>1, <2>2, <2>3 DEF CallerStep, ComparePassword, GetRefreshSessionByHash,
             ClassifyPreviousToken, IssueAccess, VoidLinks, StoreLink
<1>6. ASSUME NEW t \in Logins, GraceEnds(t) PROVE Kept(s)
  <2>1. sessionRow' = [sessionRow EXCEPT ![t] = [sessionRow[t] EXCEPT !.grace = FALSE]]
    BY <1>1, <1>6 DEF GraceEnds
  <2>2. CASE t = s
    <3> DEFINE row == [sessionRow[s] EXCEPT !.grace = FALSE]
    <3>1. row.status = sessionRow[s].status /\ row.hash = sessionRow[s].hash
      BY <1>1, RowWritten
    <3>2. sessionRow'[s] = row
      BY <1>1, <2>1, <2>2
    <3> QED BY <3>1, <3>2 DEF Kept
  <2> QED BY <1>3, <2>1, <2>2
<1>7. ASSUME NEW t \in Logins, SessionExpires(t) PROVE Kept(s)
  <2>1. t # s /\ sessionRow' = [sessionRow EXCEPT ![t] = [sessionRow[t] EXCEPT !.status = "expired"]]
    BY <1>1, <1>7 DEF SessionExpires
  <2> QED BY <1>3, <2>1
<1>8. ASSUME NEW role \in Roles, ChangeRole(role) PROVE Kept(s)
  BY <1>1, <1>8 DEF ChangeRole, Kept
<1>9. ASSUME NEW l \in Links, ConfirmReset(l) PROVE Kept(s)
  BY <1>1, <1>9 DEF ConfirmReset, Kept
<1> QED BY <1>4, <1>5, <1>6, <1>7, <1>8, <1>9
        DEF SessionsNext, Logout, LogoutAll, RevokeOtherSessions

(* A session that was revoked or has expired is never alive again and gets no *)
(* new token, whatever requests had read of it before                         *)
(* (rotate_refresh_session.go:23).                                            *)
THEOREM EndingsAreFinal == SessionsSpec => EndedForGood
<1>1. SessionsInv /\ [SessionsNext]_sessionsVars
        => [\A s \in Logins : sessionRow[s].status \in {"revoked", "expired"}
             => /\ sessionRow'[s].status = sessionRow[s].status
                /\ sessionRow'[s].hash = sessionRow[s].hash]_sessionsVars
  BY EndedStays DEF SessionsInv, IsOver, Kept
<1> QED BY <1>1, SessionsInvariant, PTL DEF SessionsSpec, EndedForGood

-----------------------------------------------------------------------------
(* Tokens are generated up to the bound, and none is answered but a token.    *)
TokensTyped ==
  /\ nextToken \in 1 .. MaxTokens + 1
  /\ successors \subseteq Tokens \X Tokens
  /\ resetLink \in [Links -> {"none", "live", "used"}]

LEMMA TokensStep ==
  ASSUME SessionsInv, TokensTyped, [SessionsNext]_sessionsVars PROVE TokensTyped'
<1> USE DEF TokensTyped
<1>1. CASE UNCHANGED <<nextToken, successors, resetLink>>
  BY <1>1
<1>2. ASSUME NEW c \in Callers, CreateRefreshSession(c) PROVE TokensTyped'
  BY <1>2, SessionsAssumption DEF CreateRefreshSession
<1>3. ASSUME NEW c \in Callers, RotateRefreshSession(c) PROVE TokensTyped'
  <2>0. resetLink' = resetLink
    BY <1>3, Zenon DEF RotateRefreshSession
  <2>1. CASE UNCHANGED <<nextToken, successors>>
    BY <2>0, <2>1
  <2>2. ASSUME NEW s \in Logins, Rotatable(s, caller[c].token),
               successors' = successors \cup {<<caller[c].token, nextToken>>},
               nextToken' = nextToken + 1
        PROVE  TokensTyped'
    <3>1. caller[c].token \in Tokens \cup {NoToken}
      BY CallerFields DEF SessionsInv, Shapes
    <3>2. caller[c].token # NoToken
      BY <2>2 DEF Rotatable, SessionsInv, HashesOwn
    <3>3. nextToken \in Tokens
      <4>1. nextToken <= MaxTokens
        BY <1>3, Zenon DEF RotateRefreshSession
      <4> QED BY <4>1, SessionsAssumption DEF Tokens
    <3>4. nextToken + 1 \in 1 .. MaxTokens + 1
      BY <3>3, SessionsAssumption DEF Tokens
    <3>5. <<caller[c].token, nextToken>> \in Tokens \X Tokens
      BY <3>1, <3>2, <3>3
    <3>6. successors' \subseteq Tokens \X Tokens
      BY <2>2, <3>5
    <3> QED BY <2>0, <2>2, <3>4, <3>6
  <2>3. \/ UNCHANGED <<nextToken, successors>>
        \/ \E s \in Logins : /\ Rotatable(s, caller[c].token)
                             /\ successors' = successors \cup {<<caller[c].token, nextToken>>}
                             /\ nextToken' = nextToken + 1
    BY <1>3, Zenon DEF RotateRefreshSession
  <2> QED BY <2>1, <2>2, <2>3
<1>4. ASSUME NEW c \in Callers, StoreLink(c) PROVE TokensTyped'
  BY <1>4 DEF StoreLink
<1>5. ASSUME NEW l \in Links, ConfirmReset(l) PROVE TokensTyped'
  BY <1>5 DEF ConfirmReset
<1>6. ASSUME NEW c \in Callers, CallerStep(c) PROVE TokensTyped'
  BY <1>1, <1>2, <1>3, <1>4, <1>6
     DEF CallerStep, ComparePassword, GetRefreshSessionByHash, ClassifyPreviousToken,
         RevokeReused, IssueAccess, VoidLinks
<1>7. ASSUME NEW s \in Logins,
             GraceEnds(s) \/ SessionExpires(s) \/ Logout(s) \/ RevokeOtherSessions(s)
      PROVE  TokensTyped'
  BY <1>1, <1>7 DEF GraceEnds, SessionExpires, Logout, RevokeOtherSessions
<1> QED BY <1>1, <1>5, <1>6, <1>7 DEF SessionsNext, LogoutAll, ChangeRole, sessionsVars

(* The rows of sessions and links, and what requests hold, keep their columns *)
(* and their bounds, for any logins, requests, tokens and links.              *)
THEOREM SessionsAreTyped == SessionsSpec => []SessionsTypeOK
<1>1. SessionsInit => SessionsInv /\ TokensTyped
  BY SessionsBegin, SessionsAssumption DEF SessionsInit, TokensTyped
<1>2. SessionsInv /\ TokensTyped /\ [SessionsNext]_sessionsVars
        => SessionsInv' /\ TokensTyped'
  BY SessionsStep, TokensStep
<1>3. SessionsInv /\ TokensTyped => SessionsTypeOK
  BY DEF SessionsInv, Shapes, TokensTyped, CallerShape, AccessShape, SessionsTypeOK
<1> QED BY <1>1, <1>2, <1>3, PTL DEF SessionsSpec
=============================================================================

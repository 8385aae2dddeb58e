------------------------------ MODULE Ownership ------------------------------
(***************************************************************************)
(* Who owns a company and who works in it: repository/company,             *)
(* service/company and the company invitations of service/invitation.      *)
(*                                                                         *)
(* Ownership is written twice, as companies.manager_user_uuid and as the   *)
(* role of a membership, and what pays for a company is a plan of its      *)
(* owner that covers all the owner's companies.  Requests check in one     *)
(* statement and write in another: an invitation or an offer that was      *)
(* right when it was checked may be written, and answered, when it is not. *)
(* Departments, seat limits and the reason of a freeze are left out; every *)
(* request by somebody who may make it is one of anybody.                  *)
(***************************************************************************)
EXTENDS Naturals, FiniteSets

CONSTANTS
  Companies,
  People,
  CompanyLimit,     \* companies a plan covers
  MaxInvitations,   \* invitations pending at a time (bound)
  MaxOffers         \* offers pending at a time (bound)

ASSUME OwnershipAssumption ==
  /\ CompanyLimit \in Nat \ {0} /\ MaxInvitations \in Nat /\ MaxOffers \in Nat
  /\ "nobody" \notin People

NoPerson == "nobody"

VARIABLES
  owner,        \* companies.manager_user_uuid
  life,         \* companies.lifecycle_state and deleted_at
  member,       \* company_members
  planned,      \* who holds a business plan
  invitations,  \* the pending rows of membership_invitations
  offers,       \* the pending rows of company_ownership_transfers
  checked       \* an invitation or an offer that is checked and not inserted

ownershipVars == <<owner, life, member, planned, invitations, offers, checked>>

MemberRole == {"company_manager", "company_deputy", "employee"}
Membership(role, status) == [role |-> role, status |-> status]
Memberships == [role : MemberRole, status : {"none", "active", "left"}]
Invitation == [company : Companies, person : People, role : MemberRole \ {"company_manager"}]
Offer == [of : SUBSET Companies, all : BOOLEAN, from : People, to : People,
          stay : SUBSET Companies]

OwnershipTypeOK ==
  /\ owner \in [Companies -> People \cup {NoPerson}]
  /\ life \in [Companies -> {"none", "active", "frozen", "soft_deleted"}]
  /\ member \in [Companies -> [People -> Memberships]]
  /\ planned \subseteq People
  /\ invitations \subseteq Invitation
  /\ offers \subseteq Offer
  /\ checked \subseteq Invitation \cup Offer

OwnershipInit ==
  /\ owner = [c \in Companies |-> NoPerson]
  /\ life = [c \in Companies |-> "none"]
  /\ member = [c \in Companies |-> [p \in People |-> Membership("employee", "none")]]
  /\ planned = {} /\ invitations = {} /\ offers = {} /\ checked = {}

-----------------------------------------------------------------------------
(* Helpers *)

Present(c) == life[c] \in {"active", "frozen"}
Owned(p) == {c \in Companies : Present(c) /\ owner[c] = p}
Works(c, p) == member[c][p].status = "active"
Manages(c, p) == Works(c, p) /\ member[c][p].role = "company_manager"
HasDeputy(c) == \E p \in People : Works(c, p) /\ member[c][p].role = "company_deputy"

SetMember(c, p, m) == member' = [member EXCEPT ![c] = [member[c] EXCEPT ![p] = m]]

-----------------------------------------------------------------------------
(* Companies and plans *)

(* A purchase, as far as ownership can see it. *)
BuyPlan(p) ==
  /\ p \notin planned
  /\ planned' = planned \cup {p}
  /\ UNCHANGED <<owner, life, member, invitations, offers, checked>>

CreateCompany(c, p) ==
  /\ life[c] = "none" /\ p \in planned /\ Cardinality(Owned(p)) < CompanyLimit
  /\ life' = [life EXCEPT ![c] = "active"]
  /\ owner' = [owner EXCEPT ![c] = p]
  /\ SetMember(c, p, Membership("company_manager", "active"))
  /\ UNCHANGED <<planned, invitations, offers, checked>>

(* FreezeCompany, by choice or as the first step of a deletion. *)
FreezeCompany(c) ==
  /\ Present(c)
  /\ life' = [life EXCEPT ![c] = "frozen"]
  /\ invitations' = {i \in invitations : i.company # c}
  /\ UNCHANGED <<owner, member, planned, offers, checked>>

ActivateCompany(c) ==
  /\ life[c] = "frozen"
  /\ owner[c] \in planned
  /\ Cardinality({d \in Owned(owner[c]) \ {c} : life[d] = "active"}) < CompanyLimit
  /\ life' = [life EXCEPT ![c] = "active"]
  /\ UNCHANGED <<owner, member, planned, invitations, offers, checked>>

SoftDeleteExpired(c) ==
  /\ life[c] = "frozen"
  /\ life' = [life EXCEPT ![c] = "soft_deleted"]
  /\ UNCHANGED <<owner, member, planned, invitations, offers, checked>>

RestoreSoftDeleted(c) ==
  /\ life[c] = "soft_deleted"
  /\ life' = [life EXCEPT ![c] = "frozen"]
  /\ UNCHANGED <<owner, member, planned, invitations, offers, checked>>

-----------------------------------------------------------------------------
(* Members *)

(* CreateCompanyInvitation: somebody who does not work there, ... *)
CheckInvitation(i) ==
  /\ checked = {}
  /\ Present(i.company) /\ ~Works(i.company, i.person)
  /\ i.role = "company_deputy" => ~HasDeputy(i.company)
  /\ checked' = {i}
  /\ UNCHANGED <<owner, life, member, planned, invitations, offers>>

(* ... then the row; one is pending per person and company. *)
InsertInvitation(i) ==
  /\ i \in checked /\ i \in Invitation
  /\ Cardinality(invitations) < MaxInvitations
  /\ \A j \in invitations : ~(j.company = i.company /\ j.person = i.person)
  /\ invitations' = invitations \cup {i}
  /\ checked' = {}
  /\ UNCHANGED <<owner, life, member, planned, offers>>

(* Mutant of RoleAfter: the invitation says what the role is. *)
RoleAfterInvitation(i) == i.role

(* upsertCompanyMember keeps the seat of an owner. *)
RoleAfter(i) ==
  IF member[i.company][i.person].role = "company_manager" THEN "company_manager" ELSE i.role

AcceptInvitation(i) ==
  /\ i \in invitations /\ Present(i.company)
  /\ RoleAfter(i) = "company_deputy"
       => \A p \in People \ {i.person} :
            ~(Works(i.company, p) /\ member[i.company][p].role = "company_deputy")
  /\ SetMember(i.company, i.person, Membership(RoleAfter(i), "active"))
  /\ invitations' = invitations \ {i}
  /\ UNCHANGED <<owner, life, planned, offers, checked>>

(* Declined, cancelled or expired. *)
CloseInvitation(i) ==
  /\ i \in invitations
  /\ invitations' = invitations \ {i}
  /\ UNCHANGED <<owner, life, member, planned, offers, checked>>

(* LeaveCompany and RemoveCompanyMember: one statement looks at the role. *)
EndMembership(c, p) ==
  /\ Works(c, p) /\ member[c][p].role # "company_manager"
  /\ SetMember(c, p, Membership("employee", "left"))
  /\ invitations' = {i \in invitations : ~(i.company = c /\ i.person = p)}
  /\ UNCHANGED <<owner, life, planned, offers, checked>>

AssignDeputy(c, p) ==
  /\ Works(c, p) /\ member[c][p].role # "company_manager" /\ ~HasDeputy(c)
  /\ SetMember(c, p, Membership("company_deputy", "active"))
  /\ UNCHANGED <<owner, life, planned, invitations, offers, checked>>

RevokeDeputy(c, p) ==
  /\ Works(c, p) /\ member[c][p].role = "company_deputy"
  /\ SetMember(c, p, Membership("employee", "active"))
  /\ UNCHANGED <<owner, life, planned, invitations, offers, checked>>

-----------------------------------------------------------------------------
(* Handing over *)

(* OfferOwnership: one company if it is the only one, or all of several, ... *)
CheckOffer(o) ==
  /\ checked = {}
  /\ o.from # o.to /\ o.stay \subseteq Owned(o.from)
  /\ IF o.all THEN o.of = {} /\ Cardinality(Owned(o.from)) > 1
     ELSE /\ o.of = Owned(o.from) /\ Cardinality(o.of) = 1
          /\ \A c \in o.of : Manages(c, o.from)
  /\ checked' = {o}
  /\ UNCHANGED <<owner, life, member, planned, invitations, offers>>

(* uq_company_ownership_transfer_pending_owner. *)
NoOfferPends(o) == \A q \in offers : q.from # o.from

(* ... then the row. *)
InsertOffer(o) ==
  /\ o \in checked /\ o \in Offer
  /\ NoOfferPends(o) /\ Cardinality(offers) < MaxOffers
  /\ offers' = offers \cup {o}
  /\ checked' = {}
  /\ UNCHANGED <<owner, life, member, planned, invitations>>

(* A request that was refused by an index, or given up. *)
DropChecked ==
  /\ checked # {}
  /\ checked' = {}
  /\ UNCHANGED <<owner, life, member, planned, invitations, offers>>

CanReceive(p) == Owned(p) = {} /\ p \notin planned

(* ownershipCompanies: all that are left, or the one that was named. *)
OwnershipCompanies(o) == IF o.all THEN Owned(o.from) ELSE o.of

(* handOverCompany: the seats of one company afterwards. *)
HandedOver(c, o) ==
  [p \in People |->
     IF p = o.to THEN Membership("company_manager", "active")
     ELSE IF p # o.from \/ (c \in o.stay /\ ~Works(c, p)) THEN member[c][p]
     ELSE Membership("employee", IF c \in o.stay THEN "active" ELSE "left")]

AcceptOffer(o) ==
  /\ o \in offers /\ CanReceive(o.to)
  /\ LET cs == OwnershipCompanies(o) IN
     /\ cs # {}
     /\ owner' = [c \in Companies |-> IF c \in cs THEN o.to ELSE owner[c]]
     /\ member' = [c \in Companies |-> IF c \in cs THEN HandedOver(c, o) ELSE member[c]]
     /\ invitations' = {i \in invitations :
                          ~(i.company \in cs \ o.stay /\ i.person = o.from)}
  /\ planned' = IF o.from \in planned THEN (planned \ {o.from}) \cup {o.to} ELSE planned
  /\ offers' = offers \ {o}
  /\ UNCHANGED <<life, checked>>

(* Declined, cancelled or expired. *)
CloseOffer(o) ==
  /\ o \in offers
  /\ offers' = offers \ {o}
  /\ UNCHANGED <<owner, life, member, planned, invitations, checked>>

-----------------------------------------------------------------------------
InvitationNext ==
  \/ \E i \in Invitation : CheckInvitation(i)
  \/ \E i \in checked : InsertInvitation(i)
  \/ \E i \in invitations : AcceptInvitation(i) \/ CloseInvitation(i)

OfferNext ==
  \/ \E o \in Offer : CheckOffer(o)
  \/ \E o \in checked : InsertOffer(o)
  \/ \E o \in offers : AcceptOffer(o) \/ CloseOffer(o)
  \/ DropChecked

OwnershipNext ==
  \/ \E p \in People : BuyPlan(p)
  \/ \E c \in Companies :
       \/ FreezeCompany(c) \/ ActivateCompany(c) \/ SoftDeleteExpired(c) \/ RestoreSoftDeleted(c)
       \/ \E p \in People : \/ CreateCompany(c, p) \/ EndMembership(c, p)
                            \/ AssignDeputy(c, p) \/ RevokeDeputy(c, p)
  \/ InvitationNext \/ OfferNext

OwnershipSpec == OwnershipInit /\ [][OwnershipNext]_ownershipVars

-----------------------------------------------------------------------------
(* Properties *)

(* Whoever a company names as its owner has its manager's seat and works     *)
(* there: an old invitation answered by somebody who became the owner, an    *)
(* offer answered after another one, a departure never take the seat away    *)
(* (ownership.go:202-238, accept.go:160-166, membership.go).                 *)
OwnerSeated == \A c \in Companies : owner[c] # NoPerson => Manages(c, owner[c])

(* "A business plan belongs to the owner and covers several companies, so    *)
(* one of several cannot be cut out of it" (service/company/ownership.go:27).*)
PlanMovesWhole ==
  [][\A p \in planned \ planned', c \in Companies : ~(Present(c) /\ owner'[c] = p)]_ownershipVars
=============================================================================

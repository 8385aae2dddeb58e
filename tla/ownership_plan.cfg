\* An owner who opens a second company while the first is on offer
CONSTANTS
  Companies = {"a", "b"}
  People = {"p", "q"}
  CompanyLimit = 2
  MaxInvitations = 1
  MaxOffers = 1
SPECIFICATION OwnershipSpec
PROPERTY PlanMovesWhole
CHECK_DEADLOCK FALSE

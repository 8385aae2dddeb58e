\* Two grants, two operations that compete for them, caps that are edited.
CONSTANTS
  NumGrants = 2
  Size <- TwoGrants
  Ops <- TwoOps
  Maximum <- TwoMaximums
  CallOf <- TwoCalls
  Subjects = {"company"}
  Under <- TwoScopes
  Caps = {3}
  NoCap = NoCap
  Costs = {1, 5}
  Workers = {w1, w2}
  ReconcileBatch = 1
  MaxFaults = 1
  MaxEdits = 1
SYMMETRY Names
SPECIFICATION Spec
INVARIANTS TypeOK GrantsBalance ChargeCovered
PROPERTIES SettledIsFinal CapIsHard ImplementsWallet
CHECK_DEADLOCK FALSE

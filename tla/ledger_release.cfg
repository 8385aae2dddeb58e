\* A worker against those who release, nothing fails.
CONSTANTS
  NumGrants = 2
  Size <- TwoGrants
  Ops <- TwoOps
  Maximum <- TwoMaximums
  CallOf <- TwoCalls
  Subjects = {"company"}
  Under <- TwoScopes
  Caps = {3}
  NoCap = NoCap
  Costs = {1, 5}
  Workers = {w1}
  ReconcileBatch = 1
  MaxFaults = 0
  MaxEdits = 1
SPECIFICATION FairSpec
PROPERTY ProviderChargeKept
CHECK_DEADLOCK FALSE

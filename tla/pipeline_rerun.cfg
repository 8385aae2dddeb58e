\* A call analysed again by hand, nothing fails.
CONSTANTS
  MaxAttempts = 2
  StaleAfter = 0
  Handlers = {h1, h2}
  Users = {u1}
  Offered = {"analyze"}
  MaxFaults = 0
  MaxRequests = 1
SPECIFICATION FairSpec
PROPERTY RequestedAnalysisEnds
CHECK_DEADLOCK FALSE
